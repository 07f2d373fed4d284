----------------------- MODULE CompletionQueueProofs -----------------------
(***************************************************************************)
(* One client encodes a prompt, one thread uses the model, every request   *)
(* is in one place until its last response, and the sentinel of close()    *)
(* stays until the worker exits: for every number of clients, every        *)
(* assignment of prompts, classes and kinds, every limit and cache size,   *)
(* and every set of engine configurations.                                 *)
(***************************************************************************)
EXTENDS CompletionQueue, FiniteSetTheorems, TLAPS

-----------------------------------------------------------------------------
(* Subsequence(s, I) lists the positions of I once each, in order. *)

LEMMA RankFacts ==
  ASSUME NEW I \in SUBSET Nat, IsFiniteSet(I), NEW i \in I
  PROVE  /\ Cardinality({j \in I : j <= i}) \in 1..Cardinality(I)
         /\ \A k \in I : k < i =>
              Cardinality({j \in I : j <= k}) < Cardinality({j \in I : j <= i})
  <1> DEFINE Upto(k) == {j \in I : j <= k}
  <1>0. \A k \in I : k \in Nat
    OBVIOUS
  <1>1. \A k \in I : /\ IsFiniteSet(Upto(k)) /\ Cardinality(Upto(k)) \in Nat
                     /\ Cardinality(Upto(k)) <= Cardinality(I)
    BY FS_Subset, FS_CardinalityType
  <1>2. Cardinality(I) \in Nat
    BY FS_CardinalityType
  <1>3. Cardinality(Upto(i)) # 0
    BY <1>1, FS_EmptySet
  <1>4. ASSUME NEW k \in I, k < i
        PROVE  Cardinality(Upto(k)) < Cardinality(Upto(i))
    <2>1. i \in Nat /\ k \in Nat
      BY <1>0
    <2>2. \A j \in I : j <= k => j <= i
      BY <1>0, <1>4, <2>1
    <2>3. Upto(k) \subseteq Upto(i)
      BY <2>2
    <2>4. i \in Upto(i) /\ i \notin Upto(k)
      BY <1>4, <2>1
    <2>5. QED
      BY <1>1, <2>3, <2>4, FS_Subset
  <1>5. QED
    BY <1>1, <1>2, <1>3, <1>4

LEMMA NthFacts ==
  ASSUME NEW I \in SUBSET Nat, IsFiniteSet(I)
  PROVE  /\ Cardinality(I) \in Nat
         /\ \A k \in 1..Cardinality(I) : Nth(I, k) \in I
         /\ \A k, l \in 1..Cardinality(I) : k < l => Nth(I, k) < Nth(I, l)
         /\ \A i \in I : \E k \in 1..Cardinality(I) : Nth(I, k) = i
  <1> DEFINE Rank(i) == Cardinality({j \in I : j <= i})
             n == Cardinality(I)
             rank == [i \in I |-> Rank(i)]
  <1>0. \A k \in I : k \in Nat
    OBVIOUS
  <1>1. n \in Nat
    BY FS_CardinalityType
  <1>2. \A i \in I : Rank(i) \in 1..n
    BY RankFacts
  <1>3. \A i, k \in I : k < i => Rank(k) < Rank(i)
    BY RankFacts
  <1> HIDE DEF Rank, n
  <1>4. \A i, k \in I : Rank(k) = Rank(i) => k = i
    BY <1>0, <1>1, <1>2, <1>3
  <1>5. rank \in Injection(I, 1..n)
    BY <1>2, <1>4 DEF Injection, IsInjective
  <1>6. IsFiniteSet(1..n) /\ Cardinality(1..n) = n
    BY <1>1, FS_Interval
  <1>7. rank \in Surjection(I, 1..n)
    BY <1>5, <1>6, FS_Injection DEF n
  <1>8. \A k \in 1..n : \E i \in I : Rank(i) = k
    BY <1>7 DEF Surjection
  <1>9. \A k \in 1..n : Nth(I, k) \in I /\ Rank(Nth(I, k)) = k
    BY <1>8 DEF Nth, Rank
  <1>10. \A k, l \in 1..n : k < l => Nth(I, k) < Nth(I, l)
    <2> SUFFICES ASSUME NEW k \in 1..n, NEW l \in 1..n, k < l
                 PROVE  Nth(I, k) < Nth(I, l)
      OBVIOUS
    <2>1. Nth(I, k) \in Nat /\ Nth(I, l) \in Nat
      BY <1>0, <1>9
    <2>2. Nth(I, l) < Nth(I, k) => Rank(Nth(I, l)) < Rank(Nth(I, k))
      BY <1>3, <1>9
    <2>3. /\ Rank(Nth(I, k)) = k /\ Rank(Nth(I, l)) = l
          /\ k \in Nat /\ l \in Nat /\ ~ l < k /\ l # k
      BY <1>1, <1>9
    <2>4. QED
      BY <2>1, <2>2, <2>3
  <1>11. \A i \in I : Nth(I, Rank(i)) = i
    BY <1>2, <1>4, <1>9
  <1>12. QED
    BY <1>1, <1>2, <1>9, <1>10, <1>11 DEF n

\* What Subsequence(s, I) is: the elements of s at the positions of I, each once, in order.
\* The k-th element of t is the one at h[k], the k-th position of I in s.
ListsInOrder(h, t, s, I) ==
  /\ \A k \in 1..Cardinality(I) : t[k] = s[h[k]]
  /\ \A k, l \in 1..Cardinality(I) : k < l => h[k] < h[l]
  /\ \A i \in I : \E k \in 1..Cardinality(I) : h[k] = i

LEMMA SubsequenceFacts ==
  ASSUME NEW S, NEW s \in Seq(S), NEW I \in SUBSET DOMAIN s
  PROVE  /\ Subsequence(s, I) \in Seq(S)
         /\ Len(Subsequence(s, I)) = Cardinality(I)
         /\ \E h \in [1..Cardinality(I) -> I] : ListsInOrder(h, Subsequence(s, I), s, I)
  <1> DEFINE n == Cardinality(I)
             h == [k \in 1..n |-> Nth(I, k)]
  <1>1. IsFiniteSet(I) /\ I \in SUBSET Nat
    BY FS_Interval, FS_Subset
  <1>2. /\ n \in Nat
        /\ \A k \in 1..n : Nth(I, k) \in I
        /\ \A k, l \in 1..n : k < l => Nth(I, k) < Nth(I, l)
        /\ \A i \in I : \E k \in 1..n : Nth(I, k) = i
    BY <1>1, NthFacts
  <1> HIDE DEF n
  <1>3. Subsequence(s, I) = [k \in 1..n |-> s[Nth(I, k)]]
    BY DEF Subsequence, n
  <1>4. \A k \in 1..n : s[Nth(I, k)] \in S
    BY <1>2
  <1>5. Subsequence(s, I) \in Seq(S) /\ Len(Subsequence(s, I)) = n
    BY <1>2, <1>3, <1>4
  <1>6. /\ h \in [1..n -> I]
        /\ \A k \in 1..n : Subsequence(s, I)[k] = s[h[k]]
        /\ \A k, l \in 1..n : k < l => h[k] < h[l]
        /\ \A i \in I : \E k \in 1..n : h[k] = i
    BY <1>2, <1>3
  <1>7. h \in [1..Cardinality(I) -> I] /\ ListsInOrder(h, Subsequence(s, I), s, I)
    BY <1>6 DEF n, ListsInOrder
  <1> HIDE DEF h
  <1>8. QED
    BY <1>5, <1>7 DEF n

LEMMA SubsequenceRange ==
  ASSUME NEW S, NEW s \in Seq(S), NEW I \in SUBSET DOMAIN s
  PROVE  /\ Subsequence(s, I) \in Seq(S)
         /\ ToSet(Subsequence(s, I)) = {s[i] : i \in I}
         /\ IsInjective(s) => IsInjective(Subsequence(s, I))
         /\ Subsequence(s, I) = << >> <=> I = {}
  <1> DEFINE n == Cardinality(I)
             t == Subsequence(s, I)
  <1>1. t \in Seq(S) /\ Len(t) = n
    BY SubsequenceFacts
  <1>2. PICK h \in [1..n -> I] :
              /\ \A k \in 1..n : t[k] = s[h[k]]
              /\ \A k, l \in 1..n : k < l => h[k] < h[l]
              /\ \A i \in I : \E k \in 1..n : h[k] = i
    <2>1. PICK h \in [1..Cardinality(I) -> I] : ListsInOrder(h, Subsequence(s, I), s, I)
      BY SubsequenceFacts
    <2> QED BY <2>1 DEF ListsInOrder
  <1>3. IsFiniteSet(I)
    BY FS_Interval, FS_Subset
  <1>4. n \in Nat /\ (n = 0 <=> I = {})
    BY <1>3, FS_CardinalityType, FS_EmptySet
  <1> HIDE DEF n, t
  <1>5. ToSet(t) = {s[i] : i \in I}
    <2>1. \A x \in ToSet(t) : \E i \in I : x = s[i]
      BY <1>1, <1>2 DEF ToSet
    <2>2. \A i \in I : s[i] \in ToSet(t)
      BY <1>1, <1>2 DEF ToSet
    <2>3. QED
      BY <2>1, <2>2
  <1>6. ASSUME IsInjective(s)
        PROVE  IsInjective(t)
    <2>1. \A k, l \in 1..n : k # l => h[k] # h[l]
      <3>1. \A k, l \in 1..n : h[k] \in Nat /\ h[l] \in Nat
        OBVIOUS
      <3>2. QED
        BY <1>2, <1>4, <3>1
    <2>2. \A k, l \in 1..n : t[k] = t[l] => k = l
      <3>1. \A k, l \in 1..n : h[k] \in DOMAIN s /\ h[l] \in DOMAIN s
        OBVIOUS
      <3>2. QED
        BY <1>2, <1>6, <2>1, <3>1 DEF IsInjective
    <2>3. QED
      BY <1>1, <2>2 DEF IsInjective
  <1>7. t = << >> <=> I = {}
    BY <1>1, <1>4
  <1>8. QED
    BY <1>1, <1>5, <1>6, <1>7 DEF t

-----------------------------------------------------------------------------
(* What the operations on queues do to the set of their elements. *)

LEMMA AppendFacts ==
  ASSUME NEW S, NEW q \in Seq(S), NEW x \in S
  PROVE  /\ Append(q, x) \in Seq(S) /\ Len(Append(q, x)) = Len(q) + 1 /\ Append(q, x) # << >>
         /\ ToSet(Append(q, x)) = ToSet(q) \cup {x}
         /\ IsInjective(q) /\ x \notin ToSet(q) => IsInjective(Append(q, x))
  <1> DEFINE r == Append(q, x)
  <1>1. /\ r \in Seq(S) /\ Len(r) = Len(q) + 1 /\ Len(q) \in Nat /\ r # << >>
        /\ \A i \in 1..Len(q) : r[i] = q[i]
        /\ r[Len(q) + 1] = x
    OBVIOUS
  <1>2. DOMAIN r = 1..Len(q) + 1 /\ DOMAIN q = 1..Len(q)
    BY <1>1
  <1> HIDE DEF r
  <1>3. ToSet(r) = ToSet(q) \cup {x}
    <2>1. \A i \in DOMAIN r : i \in DOMAIN q \/ i = Len(q) + 1
      BY <1>1, <1>2
    <2>2. ToSet(r) \subseteq ToSet(q) \cup {x}
      BY <1>1, <1>2, <2>1 DEF ToSet
    <2>3. \A i \in DOMAIN q : i \in DOMAIN r
      BY <1>1, <1>2
    <2>4. Len(q) + 1 \in DOMAIN r
      BY <1>1, <1>2
    <2>5. ToSet(q) \cup {x} \subseteq ToSet(r)
      BY <1>1, <1>2, <2>3, <2>4 DEF ToSet
    <2> QED BY <2>2, <2>5
  <1>4. ASSUME IsInjective(q), x \notin ToSet(q)
        PROVE  IsInjective(r)
    <2> SUFFICES ASSUME NEW i \in DOMAIN r, NEW j \in DOMAIN r, r[i] = r[j]
                 PROVE  i = j
      BY DEF IsInjective
    <2>1. \A k \in DOMAIN q : q[k] # x
      BY <1>4 DEF ToSet
    <2>2. (i \in DOMAIN q \/ i = Len(q) + 1) /\ (j \in DOMAIN q \/ j = Len(q) + 1)
      BY <1>1, <1>2
    <2>3. CASE i \in DOMAIN q /\ j \in DOMAIN q
      BY <1>1, <1>2, <1>4, <2>3 DEF IsInjective
    <2>4. CASE i = Len(q) + 1 \/ j = Len(q) + 1
      BY <1>1, <1>2, <2>1, <2>2, <2>4
    <2> QED BY <2>2, <2>3, <2>4
  <1> QED BY <1>1, <1>3, <1>4 DEF r

LEMMA TailFacts ==
  ASSUME NEW S, NEW q \in Seq(S), q # << >>
  PROVE  /\ Tail(q) \in Seq(S) /\ Head(q) \in S
         /\ ToSet(q) = {Head(q)} \cup ToSet(Tail(q))
         /\ IsInjective(q) => IsInjective(Tail(q)) /\ Head(q) \notin ToSet(Tail(q))
  <1> DEFINE r == Tail(q)
  <1>1. /\ r \in Seq(S) /\ Head(q) \in S /\ Head(q) = q[1]
        /\ Len(q) \in Nat /\ Len(q) >= 1 /\ Len(r) = Len(q) - 1
        /\ \A i \in 1..Len(r) : r[i] = q[i + 1]
    OBVIOUS
  <1>2. DOMAIN r = 1..Len(q) - 1 /\ DOMAIN q = 1..Len(q)
    BY <1>1
  <1> HIDE DEF r
  <1>3. /\ 1 \in DOMAIN q
        /\ \A i \in DOMAIN r : i + 1 \in DOMAIN q /\ i + 1 # 1 /\ r[i] = q[i + 1]
        /\ \A i \in DOMAIN q : i # 1 => i - 1 \in DOMAIN r /\ r[i - 1] = q[i]
    BY <1>1, <1>2
  <1>4. ToSet(q) = {q[1]} \cup ToSet(r)
    <2>1. ToSet(q) \subseteq {q[1]} \cup ToSet(r)
      BY <1>3 DEF ToSet
    <2>2. {q[1]} \cup ToSet(r) \subseteq ToSet(q)
      BY <1>3 DEF ToSet
    <2> QED BY <2>1, <2>2
  <1>5. ASSUME IsInjective(q)
        PROVE  IsInjective(r) /\ q[1] \notin ToSet(r)
    <2>1. \A i, j \in DOMAIN r : r[i] = r[j] => i + 1 = j + 1
      BY <1>3, <1>5 DEF IsInjective
    <2>2. \A i, j \in DOMAIN r : i + 1 = j + 1 => i = j
      BY <1>1, <1>2
    <2>3. \A i \in DOMAIN r : r[i] # q[1]
      BY <1>3, <1>5 DEF IsInjective
    <2> QED BY <2>1, <2>2, <2>3 DEF IsInjective, ToSet
  <1> QED BY <1>1, <1>4, <1>5 DEF r

LEMMA ConcatFacts ==
  ASSUME NEW S, NEW q \in Seq(S), NEW r \in Seq(S)
  PROVE  /\ q \o r \in Seq(S)
         /\ ToSet(q \o r) = ToSet(q) \cup ToSet(r)
         /\ IsInjective(q) /\ IsInjective(r) /\ ToSet(q) \cap ToSet(r) = {} => IsInjective(q \o r)
  <1> DEFINE t == q \o r
  <1>1. /\ t \in Seq(S) /\ Len(q) \in Nat /\ Len(r) \in Nat /\ Len(t) = Len(q) + Len(r)
        /\ \A i \in 1..Len(q) : t[i] = q[i]
        /\ \A i \in 1..Len(r) : t[Len(q) + i] = r[i]
    OBVIOUS
  <1>2. DOMAIN t = 1..Len(q) + Len(r) /\ DOMAIN q = 1..Len(q) /\ DOMAIN r = 1..Len(r)
    BY <1>1
  <1> HIDE DEF t
  <1>3. /\ \A i \in DOMAIN t : i \in DOMAIN q \/ (i \notin DOMAIN q /\ i - Len(q) \in DOMAIN r)
        /\ \A i \in DOMAIN q : i \in DOMAIN t
        /\ \A i \in DOMAIN r : Len(q) + i \in DOMAIN t
        /\ \A i \in DOMAIN t : i - Len(q) \in DOMAIN r => t[i] = r[i - Len(q)]
    <2>1. \A i \in DOMAIN t : i - Len(q) \in DOMAIN r => Len(q) + (i - Len(q)) = i
      BY <1>1, <1>2
    <2>2. \A i \in DOMAIN t : i - Len(q) \in DOMAIN r => t[i] = r[i - Len(q)]
      BY <1>1, <1>2, <2>1
    <2> QED BY <1>1, <1>2, <2>2
  <1>4. ToSet(t) = ToSet(q) \cup ToSet(r)
    <2>1. ToSet(t) \subseteq ToSet(q) \cup ToSet(r)
      BY <1>1, <1>2, <1>3 DEF ToSet
    <2>2. ToSet(q) \cup ToSet(r) \subseteq ToSet(t)
      BY <1>1, <1>2, <1>3 DEF ToSet
    <2> QED BY <2>1, <2>2
  <1>5. ASSUME IsInjective(q), IsInjective(r), ToSet(q) \cap ToSet(r) = {}
        PROVE  IsInjective(t)
    <2> SUFFICES ASSUME NEW i \in DOMAIN t, NEW j \in DOMAIN t, t[i] = t[j]
                 PROVE  i = j
      BY DEF IsInjective
    <2>1. \A k \in DOMAIN q, l \in DOMAIN r : q[k] # r[l]
      BY <1>5 DEF ToSet
    <2>2. CASE i \in DOMAIN q /\ j \in DOMAIN q
      BY <1>1, <1>2, <1>5, <2>2 DEF IsInjective
    <2>3. CASE i - Len(q) \in DOMAIN r /\ j - Len(q) \in DOMAIN r
      <3>1. i - Len(q) = j - Len(q)
        BY <1>3, <1>5, <2>3 DEF IsInjective
      <3> QED BY <1>1, <1>2, <3>1
    <2>4. CASE i \in DOMAIN q /\ j - Len(q) \in DOMAIN r
      BY <1>1, <1>2, <1>3, <2>1, <2>4
    <2>5. CASE i - Len(q) \in DOMAIN r /\ j \in DOMAIN q
      BY <1>1, <1>2, <1>3, <2>1, <2>5
    <2> QED BY <1>3, <2>2, <2>3, <2>4, <2>5
  <1> QED BY <1>1, <1>4, <1>5 DEF t

LEMMA EmptyFacts ==
  /\ ToSet(<< >>) = {} /\ IsInjective(<< >>) /\ \A S : << >> \in Seq(S)
  /\ \A x : ToSet(<<x>>) = {x} /\ IsInjective(<<x>>) /\ Len(<<x>>) = 1 /\ <<x>> # << >>
  /\ \A S : \A x \in S : <<x>> \in Seq(S)
  BY DEF ToSet, IsInjective

LEMMA NoElements ==
  ASSUME NEW S, NEW q \in Seq(S), ToSet(q) = {}
  PROVE  q = << >>
  <1> SUFFICES ASSUME q # << >> PROVE FALSE
    OBVIOUS
  <1>1. 1 \in DOMAIN q
    OBVIOUS
  <1> QED BY <1>1 DEF ToSet

\* The first n elements of a sequence and the others.
LEMMA CutFacts ==
  ASSUME NEW S, NEW q \in Seq(S), IsInjective(q), NEW n \in 0..Len(q)
  PROVE  LET first == SubSeq(q, 1, n)
             rest == SubSeq(q, n + 1, Len(q))
         IN /\ rest \in Seq(S) /\ IsInjective(rest) /\ Len(rest) = Len(q) - n
            /\ ToSet(rest) = ToSet(q) \ ToSet(first)
            /\ ToSet(first) \subseteq ToSet(q)
  <1> DEFINE first == SubSeq(q, 1, n)
             rest == SubSeq(q, n + 1, Len(q))
  <1>1. n \in Nat /\ Len(q) \in Nat /\ n <= Len(q)
    OBVIOUS
  <1>2. /\ first \in Seq(S) /\ Len(first) = n /\ \A i \in 1..n : first[i] = q[i]
        /\ rest \in Seq(S) /\ Len(rest) = Len(q) - n
        /\ \A i \in 1..Len(q) - n : rest[i] = q[n + i]
    BY <1>1
  <1> HIDE DEF first, rest
  <1>3. DOMAIN first = 1..n /\ DOMAIN rest = 1..Len(q) - n /\ DOMAIN q = 1..Len(q)
    BY <1>1, <1>2
  <1>4. /\ \A i \in DOMAIN first : i \in DOMAIN q /\ i <= n
        /\ \A i \in DOMAIN rest : n + i \in DOMAIN q /\ n + i > n
        /\ \A i \in DOMAIN q : IF i <= n THEN i \in DOMAIN first
                                         ELSE i - n \in DOMAIN rest /\ n + (i - n) = i
    BY <1>1, <1>3
  <1>5. ToSet(first) \subseteq ToSet(q)
    BY <1>2, <1>3, <1>4 DEF ToSet
  <1>6. IsInjective(rest)
    <2>1. \A i, j \in DOMAIN rest : rest[i] = rest[j] => n + i = n + j
      BY <1>2, <1>3, <1>4 DEF IsInjective
    <2>2. \A i, j \in DOMAIN rest : n + i = n + j => i = j
      BY <1>1, <1>3
    <2> QED BY <2>1, <2>2 DEF IsInjective
  <1>7. ToSet(rest) = ToSet(q) \ ToSet(first)
    <2>1. ASSUME NEW i \in DOMAIN rest
          PROVE  rest[i] \in ToSet(q) /\ rest[i] \notin ToSet(first)
      <3>1. rest[i] = q[n + i] /\ n + i \in DOMAIN q /\ n + i > n
        BY <1>2, <1>3, <1>4
      <3>2. \A j \in DOMAIN first : j # n + i /\ j \in DOMAIN q /\ first[j] = q[j]
        BY <1>1, <1>2, <1>3, <1>4, <3>1
      <3> QED BY <3>1, <3>2 DEF ToSet, IsInjective
    <2>2. ASSUME NEW i \in DOMAIN q, q[i] \notin ToSet(first)
          PROVE  q[i] \in ToSet(rest)
      <3>1. i \notin DOMAIN first
        BY <1>2, <1>3, <2>2 DEF ToSet
      <3>2. i - n \in DOMAIN rest /\ n + (i - n) = i
        BY <1>4, <3>1
      <3>3. rest[i - n] = q[i]
        BY <1>2, <1>3, <3>2
      <3> QED BY <3>2, <3>3 DEF ToSet
    <2> QED BY <2>1, <2>2 DEF ToSet
  <1> QED BY <1>2, <1>5, <1>6, <1>7 DEF first, rest

-----------------------------------------------------------------------------
(* Encoding: one client per key, one leader for the jobs. *)

Jobs == {"lead", "drained", "job"}
Encoding == {"none", "lookup", "await", "own", "lead", "drained", "job", "ok", "failed"}
EncodingInv == EncodingTypeOK /\ OneEncoder /\ JobsLed

\* Taking a key out of the cache, and out only that key.
LEMMA WithoutFacts ==
  ASSUME NEW S, NEW keys \in Seq(S), NEW k, IsInjective(keys)
  PROVE  /\ Without(keys, k) \in Seq(S) /\ IsInjective(Without(keys, k))
         /\ ToSet(Without(keys, k)) = ToSet(keys) \ {k}
         /\ k \in ToSet(keys) => Len(Without(keys, k)) + 1 = Len(keys)
  <1> DEFINE I == {i \in DOMAIN keys : keys[i] # k}
  <1>1. Without(keys, k) = Subsequence(keys, I) /\ I \in SUBSET DOMAIN keys
    BY DEF Without
  <1>2. Subsequence(keys, I) \in Seq(S) /\ IsInjective(Subsequence(keys, I))
    BY <1>1, SubsequenceRange
  <1>3. ToSet(Subsequence(keys, I)) = ToSet(keys) \ {k}
    <2>1. ToSet(Subsequence(keys, I)) = {keys[i] : i \in I}
      BY <1>1, SubsequenceRange
    <2> QED BY <2>1 DEF ToSet
  <1>4. ASSUME k \in ToSet(keys)
        PROVE  Len(Subsequence(keys, I)) + 1 = Len(keys)
    <2>1. PICK j \in DOMAIN keys : keys[j] = k
      BY <1>4 DEF ToSet
    <2>2. I = DOMAIN keys \ {j}
      BY <2>1 DEF IsInjective
    <2>3. IsFiniteSet(DOMAIN keys) /\ Cardinality(DOMAIN keys) = Len(keys) /\ Len(keys) \in Nat
      <3>1. DOMAIN keys = 1..Len(keys) /\ Len(keys) \in Nat
        OBVIOUS
      <3>2. IsFiniteSet(1..Len(keys)) /\ Cardinality(1..Len(keys)) = Len(keys)
        <4>1. Len(keys) \in Nat
          BY <3>1
        <4>2. \A n \in Nat : IsFiniteSet(1..n) /\ Cardinality(1..n) = n
          BY FS_Interval
        <4> QED BY <4>1, <4>2
      <3> QED BY <3>1, <3>2
    <2>4. Cardinality(I) = Len(keys) - 1
      BY <2>1, <2>2, <2>3, FS_RemoveElement
    <2>5. Len(Subsequence(keys, I)) = Cardinality(I)
      BY <1>1, SubsequenceFacts
    <2> QED BY <2>3, <2>4, <2>5
  <1> QED BY <1>1, <1>2, <1>3, <1>4

\* The cache never outgrows its size.
LEMMA NewestFacts ==
  ASSUME NEW S, NEW keys \in Seq(S), IsInjective(keys)
  PROVE  /\ Newest(keys) \in Seq(S) /\ IsInjective(Newest(keys)) /\ Len(Newest(keys)) <= CacheSize
         /\ ToSet(Newest(keys)) \subseteq ToSet(keys)
  <1> DEFINE drop == Len(keys) - CacheSize + 1
             first == Max({1, drop})
  <1>1. CacheSize \in Nat /\ CacheSize >= 1 /\ Len(keys) \in Nat
    BY CompletionAssumption
  <1>2. drop \in Int
    BY <1>1
  <1> HIDE DEF drop
  <1>3. first = IF drop <= 1 THEN 1 ELSE drop
    <2>1. first \in {1, drop} /\ \A x \in {1, drop} : first >= x
      <3>1. \E m \in {1, drop} : \A x \in {1, drop} : m >= x
        BY <1>2
      <3> QED BY <3>1 DEF Max
    <2> QED BY <1>2, <2>1
  <1>4. first - 1 \in 0..Len(keys) /\ Len(keys) - (first - 1) <= CacheSize /\ (first - 1) + 1 = first
    BY <1>1, <1>3 DEF drop
  <1> HIDE DEF first
  <1>5. Newest(keys) = SubSeq(keys, (first - 1) + 1, Len(keys))
    BY <1>4 DEF Newest, first, drop
  <1> QED BY <1>4, <1>5, CutFacts

\* A step at which nobody starts or stops to own a key, leads or has a job.
LEMMA QuietEncoding ==
  ASSUME EncodingInv,
         enc' \in [Clients -> Encoding],
         \A d \in Clients : enc'[d] # enc[d] =>
            /\ {enc[d], enc'[d]} \cap {"own", "lead", "drained", "job"} = {}
            /\ enc'[d] = "await" => Key[d] \in inflight,
         cached' \in Seq(Keys), Len(cached') <= CacheSize, IsInjective(cached'),
         ToSet(cached') = ToSet(cached),
         UNCHANGED <<jobLimit, inflight, pending, leader, outcome>>
  PROVE  EncodingInv'
  <1>1. \A d \in Clients : /\ enc'[d] # enc[d] => ~Owns(d) /\ ~Owns(d)' /\ ~Leads(d) /\ ~Leads(d)'
                           /\ enc'[d] \in Jobs <=> enc[d] \in Jobs
                           /\ enc'[d] = "lead" => enc[d] = "lead"
                           /\ enc'[d] = "await" => enc[d] = "await" \/ Key[d] \in inflight
    BY DEF Owns, Leads, Jobs
  <1>2. \A d \in Clients : (Owns(d)' <=> Owns(d)) /\ (Leads(d)' <=> Leads(d))
    <2>1. \A d \in Clients : enc'[d] = enc[d] => (Owns(d)' <=> Owns(d)) /\ (Leads(d)' <=> Leads(d))
      BY DEF Owns, Leads
    <2> QED BY <1>1, <2>1
  <1>3. EncodingTypeOK'
    BY DEF EncodingInv, EncodingTypeOK, Keys, Encoding
  <1>4. OneEncoder'
    <2>1. {d \in Clients : Owns(d)'} = {d \in Clients : Owns(d)}
      BY <1>2
    <2> QED BY <1>1, <1>2, <2>1 DEF EncodingInv, OneEncoder
  <1>5. JobsLed'
    <2>1. ToSet(pending) = {d \in Clients : enc'[d] \in Jobs /\ outcome[d] = "none"}
      BY <1>1 DEF EncodingInv, JobsLed, Jobs
    <2>2. \A d \in Clients : /\ enc'[d] = "lead" => pending # << >>
                             /\ outcome[d] # "none" => enc'[d] \in Jobs
      BY <1>1 DEF EncodingInv, JobsLed, Jobs
    <2> QED BY <1>2, <2>1, <2>2 DEF EncodingInv, JobsLed, Jobs
  <1> QED BY <1>3, <1>4, <1>5 DEF EncodingInv

LEMMA LookupInv ==
  ASSUME EncodingInv, NEW c \in Clients, Lookup(c)
  PROVE  EncodingInv'
  <1>1. /\ enc \in [Clients -> Encoding] /\ enc[c] = "lookup" /\ Key[c] \in Keys
        /\ cached \in Seq(Keys) /\ Len(cached) <= CacheSize /\ IsInjective(cached)
        /\ Len(cached) \in Nat
        /\ UNCHANGED <<jobLimit, pending, leader, outcome>>
    BY DEF EncodingInv, EncodingTypeOK, OneEncoder, Lookup, Encoding, Keys
  <1>2. CASE Key[c] \in ToSet(cached)
    <2>1. /\ cached' = Append(Without(cached, Key[c]), Key[c])
          /\ enc' = [enc EXCEPT ![c] = "ok"] /\ inflight' = inflight
      BY <1>2 DEF Lookup, Moved
    <2>2. /\ Without(cached, Key[c]) \in Seq(Keys) /\ IsInjective(Without(cached, Key[c]))
          /\ ToSet(Without(cached, Key[c])) = ToSet(cached) \ {Key[c]}
          /\ Len(Without(cached, Key[c])) + 1 = Len(cached)
      BY <1>1, <1>2, WithoutFacts
    <2>3. /\ cached' \in Seq(Keys) /\ IsInjective(cached') /\ ToSet(cached') = ToSet(cached)
          /\ Len(cached') <= CacheSize
      <3>1. /\ cached' \in Seq(Keys) /\ Len(cached') = Len(Without(cached, Key[c])) + 1
            /\ ToSet(cached') = ToSet(Without(cached, Key[c])) \cup {Key[c]} /\ IsInjective(cached')
        BY <1>1, <2>1, <2>2, AppendFacts
      <3> QED BY <1>1, <1>2, <2>2, <3>1
    <2>4. enc' \in [Clients -> Encoding]
      BY <1>1, <2>1 DEF Encoding
    <2>5. \A d \in Clients : enc'[d] # enc[d] => d = c /\ enc'[d] = "ok"
      BY <1>1, <2>1
    <2> QED BY <1>1, <2>1, <2>3, <2>4, <2>5, QuietEncoding
  <1>3. CASE Key[c] \notin ToSet(cached) /\ Key[c] \in inflight
    <2>1. enc' = [enc EXCEPT ![c] = "await"] /\ inflight' = inflight /\ cached' = cached
      BY <1>3 DEF Lookup, Moved
    <2>2. enc' \in [Clients -> Encoding]
      BY <1>1, <2>1 DEF Encoding
    <2>3. \A d \in Clients : enc'[d] # enc[d] => d = c /\ enc'[d] = "await"
      BY <1>1, <2>1
    <2> QED BY <1>1, <1>3, <2>1, <2>2, <2>3, QuietEncoding
  <1>4. CASE Key[c] \notin ToSet(cached) /\ Key[c] \notin inflight
    <2>1. enc' = [enc EXCEPT ![c] = "own"] /\ inflight' = inflight \cup {Key[c]} /\ cached' = cached
      BY <1>4 DEF Lookup, Moved
    <2>2. \A d \in Clients : enc'[d] = IF d = c THEN "own" ELSE enc[d]
      BY <1>1, <2>1
    <2>3. \A d \in Clients : /\ Owns(d)' <=> Owns(d) \/ d = c
                             /\ Leads(d)' <=> Leads(d)
                             /\ enc'[d] \in Jobs <=> enc[d] \in Jobs
                             /\ enc'[d] = "lead" <=> enc[d] = "lead"
                             /\ enc'[d] = "await" => enc[d] = "await"
      BY <1>1, <2>2 DEF Owns, Leads, Jobs
    <2>4. EncodingTypeOK'
      <3>1. enc' \in [Clients -> Encoding]
        BY <1>1, <2>1 DEF Encoding
      <3> QED BY <1>1, <2>1, <3>1 DEF EncodingInv, EncodingTypeOK, Keys, Encoding
    <2>5. OneEncoder'
      <3>1. \A d \in Clients : Owns(d) => Key[d] \in inflight
        BY DEF EncodingInv, OneEncoder
      <3>2. inflight' = {Key[d] : d \in {x \in Clients : Owns(x)'}}
        BY <2>1, <2>3 DEF EncodingInv, OneEncoder
      <3>3. \A d, e \in Clients : Owns(d)' /\ Owns(e)' /\ Key[d] = Key[e] => d = e
        BY <1>4, <2>3, <3>1 DEF EncodingInv, OneEncoder
      <3>4. \A d \in Clients : enc'[d] = "await" => Key[d] \in inflight'
        BY <2>1, <2>3 DEF EncodingInv, OneEncoder
      <3>5. IsInjective(cached') /\ inflight' \cap ToSet(cached') = {}
        BY <1>4, <2>1 DEF EncodingInv, OneEncoder
      <3> QED BY <3>2, <3>3, <3>4, <3>5 DEF OneEncoder
    <2>6. JobsLed'
      BY <1>1, <2>3 DEF EncodingInv, JobsLed, Jobs
    <2> QED BY <2>4, <2>5, <2>6 DEF EncodingInv
  <1> QED BY <1>2, <1>3, <1>4

LEMMA PublishInv ==
  ASSUME EncodingInv, NEW c \in Clients, NEW result \in {"ok", "failed"}, Publish(c, result),
         enc[c] = "own" \/ (enc[c] = "job" /\ outcome[c] # "none")
  PROVE  EncodingInv'
  <1>1. /\ enc \in [Clients -> Encoding] /\ outcome \in [Clients -> {"none", "ok", "failed"}]
        /\ cached \in Seq(Keys) /\ Len(cached) <= CacheSize /\ IsInjective(cached)
        /\ Key[c] \in Keys /\ Owns(c) /\ ~Leads(c)
        /\ UNCHANGED <<jobLimit, pending, leader>>
    BY DEF EncodingInv, EncodingTypeOK, OneEncoder, Publish, Encoding, Keys, Owns, Leads
  <1>2. /\ enc' = Published(c, result) /\ inflight' = inflight \ {Key[c]}
        /\ outcome' = [outcome EXCEPT ![c] = "none"]
    BY DEF Publish
  <1>3. \A d \in Clients : enc'[d] = IF d = c THEN result
                                     ELSE IF enc[d] = "await" /\ Key[d] = Key[c] THEN "lookup" ELSE enc[d]
    BY <1>2 DEF Published
  <1>4. \A d \in Clients : /\ Owns(d)' <=> Owns(d) /\ d # c
                           /\ Leads(d)' <=> Leads(d)
                           /\ enc'[d] \in Jobs <=> enc[d] \in Jobs /\ d # c
                           /\ enc'[d] = "lead" => enc[d] = "lead"
                           /\ enc'[d] = "await" => enc[d] = "await" /\ Key[d] # Key[c]
    BY <1>1, <1>3 DEF Owns, Leads, Jobs
  <1>5. /\ cached' \in Seq(Keys) /\ Len(cached') <= CacheSize /\ IsInjective(cached')
        /\ ToSet(cached') \subseteq ToSet(cached) \cup {Key[c]}
    <2>1. CASE result = "ok"
      <3> DEFINE w == Without(cached, Key[c])
      <3>1. cached' = Newest(Append(w, Key[c]))
        BY <2>1 DEF Publish
      <3>2. w \in Seq(Keys) /\ IsInjective(w) /\ ToSet(w) = ToSet(cached) \ {Key[c]}
        BY <1>1, WithoutFacts
      <3> HIDE DEF w
      <3>3. /\ Append(w, Key[c]) \in Seq(Keys) /\ IsInjective(Append(w, Key[c]))
            /\ ToSet(Append(w, Key[c])) = ToSet(w) \cup {Key[c]}
        BY <1>1, <3>2, AppendFacts
      <3>4. /\ cached' \in Seq(Keys) /\ IsInjective(cached') /\ Len(cached') <= CacheSize
            /\ ToSet(cached') \subseteq ToSet(Append(w, Key[c]))
        BY <3>1, <3>3, NewestFacts
      <3> QED BY <3>2, <3>3, <3>4
    <2>2. CASE result # "ok"
      <3>1. cached' = cached
        BY <2>2 DEF Publish
      <3> QED BY <1>1, <3>1
    <2> QED BY <2>1, <2>2
  <1>6. EncodingTypeOK'
    <2>1. enc' \in [Clients -> Encoding]
      BY <1>1, <1>2 DEF Published, Encoding
    <2>2. outcome' \in [Clients -> {"none", "ok", "failed"}]
      BY <1>1, <1>2
    <2> QED BY <1>1, <1>2, <1>5, <2>1, <2>2 DEF EncodingInv, EncodingTypeOK, Keys, Encoding
  <1>7. OneEncoder'
    <2>1. \A d \in Clients : Owns(d)' => Key[d] # Key[c]
      BY <1>1, <1>4 DEF EncodingInv, OneEncoder
    <2>2. inflight' = {Key[d] : d \in {x \in Clients : Owns(x)'}}
      BY <1>2, <1>4, <2>1 DEF EncodingInv, OneEncoder
    <2>3. \A d, e \in Clients : Owns(d)' /\ Owns(e)' /\ Key[d] = Key[e] => d = e
      BY <1>4 DEF EncodingInv, OneEncoder
    <2>4. \A d \in Clients : enc'[d] = "await" => Key[d] \in inflight'
      BY <1>2, <1>4 DEF EncodingInv, OneEncoder
    <2>5. IsInjective(cached') /\ inflight' \cap ToSet(cached') = {}
      BY <1>2, <1>5 DEF EncodingInv, OneEncoder
    <2> QED BY <2>2, <2>3, <2>4, <2>5 DEF OneEncoder
  <1>8. JobsLed'
    <2>1. \A d \in Clients : outcome'[d] = IF d = c THEN "none" ELSE outcome[d]
      BY <1>1, <1>2
    <2>2. c \notin ToSet(pending)
      BY DEF EncodingInv, JobsLed
    <2>3. ToSet(pending) = {d \in Clients : enc'[d] \in Jobs /\ outcome'[d] = "none"}
      BY <1>4, <2>1, <2>2 DEF EncodingInv, JobsLed, Jobs
    <2>4. \A d \in Clients : /\ enc'[d] = "lead" => pending # << >>
                             /\ outcome'[d] # "none" => enc'[d] \in Jobs
      BY <1>4, <2>1 DEF EncodingInv, JobsLed, Jobs
    <2> QED BY <1>1, <1>4, <2>3, <2>4 DEF EncodingInv, JobsLed, Jobs
  <1> QED BY <1>6, <1>7, <1>8 DEF EncodingInv

LEMMA AppendJobInv ==
  ASSUME EncodingInv, NEW c \in Clients, AppendJob(c)
  PROVE  EncodingInv'
  <1>1. /\ enc \in [Clients -> Encoding] /\ enc[c] = "own" /\ outcome[c] = "none"
        /\ pending \in Seq(Clients) /\ IsInjective(pending) /\ c \notin ToSet(pending)
        /\ UNCHANGED <<jobLimit, cached, inflight, outcome>>
    BY DEF EncodingInv, EncodingTypeOK, JobsLed, AppendJob, Encoding
  <1>2. /\ pending' = Append(pending, c) /\ leader' = TRUE
        /\ enc' = [enc EXCEPT ![c] = IF leader THEN "job" ELSE "lead"]
    BY DEF AppendJob, Moved
  <1>3. /\ pending' \in Seq(Clients) /\ IsInjective(pending') /\ pending' # << >>
        /\ ToSet(pending') = ToSet(pending) \cup {c}
    BY <1>1, <1>2, AppendFacts
  <1>4. \A d \in Clients : enc'[d] = IF d = c THEN IF leader THEN "job" ELSE "lead" ELSE enc[d]
    BY <1>1, <1>2
  <1>5. \A d \in Clients : /\ Owns(d)' <=> Owns(d)
                           /\ Leads(d)' <=> Leads(d) \/ (d = c /\ ~leader)
                           /\ enc'[d] \in Jobs <=> enc[d] \in Jobs \/ d = c
                           /\ enc'[d] = "await" <=> enc[d] = "await"
    BY <1>1, <1>4 DEF Owns, Leads, Jobs
  <1>6. EncodingTypeOK'
    <2>1. enc' \in [Clients -> Encoding]
      BY <1>1, <1>2 DEF Encoding
    <2> QED BY <1>1, <1>2, <1>3, <2>1 DEF EncodingInv, EncodingTypeOK, Keys, Encoding
  <1>7. OneEncoder'
    <2>1. {d \in Clients : Owns(d)'} = {d \in Clients : Owns(d)}
      BY <1>5
    <2> QED BY <1>1, <1>5, <2>1 DEF EncodingInv, OneEncoder
  <1>8. JobsLed'
    <2>1. leader' <=> \E d \in Clients : Leads(d)'
      BY <1>2, <1>5 DEF EncodingInv, JobsLed
    <2>2. \A d, e \in Clients : Leads(d)' /\ Leads(e)' => d = e
      BY <1>5 DEF EncodingInv, JobsLed
    <2>3. ToSet(pending') = {d \in Clients : enc'[d] \in Jobs /\ outcome'[d] = "none"}
      BY <1>1, <1>3, <1>5 DEF EncodingInv, JobsLed, Jobs
    <2>4. \A d \in Clients : outcome'[d] # "none" => enc'[d] \in Jobs
      BY <1>1, <1>5 DEF EncodingInv, JobsLed, Jobs
    <2> QED BY <1>2, <1>3, <2>1, <2>2, <2>3, <2>4 DEF JobsLed, Jobs
  <1> QED BY <1>6, <1>7, <1>8 DEF EncodingInv

LEMMA EncodeJobsInv ==
  ASSUME EncodingInv, NEW c \in Clients, NEW result \in {"ok", "failed"}, EncodeJobs(c, result)
  PROVE  EncodingInv'
  <1> DEFINE n == Min({jobLimit, Len(pending)})
             taken == ToSet(SubSeq(pending, 1, n))
  <1>1. /\ enc \in [Clients -> Encoding] /\ enc[c] = "lead"
        /\ outcome \in [Clients -> {"none", "ok", "failed"}]
        /\ pending \in Seq(Clients) /\ IsInjective(pending)
        /\ jobLimit \in Nat /\ Len(pending) \in Nat
        /\ UNCHANGED <<jobLimit, cached, inflight, leader>>
    BY DEF EncodingInv, EncodingTypeOK, JobsLed, EncodeJobs, Encoding
  <1>2. /\ pending' = SubSeq(pending, n + 1, Len(pending))
        /\ outcome' = [d \in Clients |-> IF d \in taken THEN result ELSE outcome[d]]
        /\ enc' = [enc EXCEPT ![c] = "drained"]
    BY DEF EncodeJobs, Moved
  <1>3. n \in 0..Len(pending)
    <2>1. \E m \in {jobLimit, Len(pending)} : \A x \in {jobLimit, Len(pending)} : m <= x
      BY <1>1
    <2>2. n \in {jobLimit, Len(pending)} /\ n <= Len(pending)
      BY <2>1 DEF Min
    <2> QED BY <1>1, <2>2
  <1> HIDE DEF n
  <1>4. /\ pending' \in Seq(Clients) /\ IsInjective(pending')
        /\ ToSet(pending') = ToSet(pending) \ taken /\ taken \subseteq ToSet(pending)
    BY <1>1, <1>2, <1>3, CutFacts
  <1> HIDE DEF taken
  <1>5. \A d \in Clients : enc'[d] = IF d = c THEN "drained" ELSE enc[d]
    BY <1>1, <1>2
  <1>6. \A d \in Clients : /\ Owns(d)' <=> Owns(d)
                           /\ Leads(d)' <=> Leads(d)
                           /\ enc'[d] \in Jobs <=> enc[d] \in Jobs
                           /\ enc'[d] = "await" <=> enc[d] = "await"
    BY <1>1, <1>5 DEF Owns, Leads, Jobs
  <1>7. EncodingTypeOK'
    <2>1. enc' \in [Clients -> Encoding]
      BY <1>1, <1>2 DEF Encoding
    <2>2. outcome' \in [Clients -> {"none", "ok", "failed"}]
      BY <1>1, <1>2
    <2> QED BY <1>1, <1>4, <2>1, <2>2 DEF EncodingInv, EncodingTypeOK, Keys, Encoding
  <1>8. OneEncoder'
    <2>1. {d \in Clients : Owns(d)'} = {d \in Clients : Owns(d)}
      BY <1>6
    <2> QED BY <1>1, <1>6, <2>1 DEF EncodingInv, OneEncoder
  <1>9. JobsLed'
    <2>1. leader' <=> \E d \in Clients : Leads(d)'
      BY <1>1, <1>6 DEF EncodingInv, JobsLed
    <2>2. \A d, e \in Clients : Leads(d)' /\ Leads(e)' => d = e
      BY <1>6 DEF EncodingInv, JobsLed
    <2>3. ToSet(pending') = {d \in Clients : enc'[d] \in Jobs /\ outcome'[d] = "none"}
      BY <1>2, <1>4, <1>6 DEF EncodingInv, JobsLed, Jobs
    <2>4. \A d \in Clients : outcome'[d] # "none" => enc'[d] \in Jobs
      BY <1>2, <1>4, <1>6 DEF EncodingInv, JobsLed, Jobs
    <2>5. leader
      BY <1>1 DEF EncodingInv, JobsLed, Leads
    <2>6. \A d \in Clients : enc'[d] # "lead"
      BY <1>1, <1>5 DEF EncodingInv, JobsLed, Leads
    <2> QED BY <1>1, <1>4, <2>1, <2>2, <2>3, <2>4, <2>5, <2>6 DEF JobsLed, Jobs
  <1> QED BY <1>7, <1>8, <1>9 DEF EncodingInv

\* The leader resigns only when no job waits; a job that came in keeps it.
LEMMA ResignOrGoOnInv ==
  ASSUME EncodingInv, NEW c \in Clients, ResignOrGoOn(c)
  PROVE  EncodingInv'
  <1>1. /\ enc \in [Clients -> Encoding] /\ enc[c] = "drained"
        /\ UNCHANGED <<jobLimit, cached, inflight, pending, outcome>>
    BY DEF EncodingInv, EncodingTypeOK, ResignOrGoOn, Encoding
  <1>2. /\ leader' = (pending # << >>)
        /\ enc' = [enc EXCEPT ![c] = IF pending = << >> THEN "job" ELSE "lead"]
    BY DEF ResignOrGoOn, Moved
  <1>3. \A d \in Clients : enc'[d] = IF d = c THEN IF pending = << >> THEN "job" ELSE "lead" ELSE enc[d]
    BY <1>1, <1>2
  <1>4. \A d \in Clients : /\ Owns(d)' <=> Owns(d)
                           /\ Leads(d)' <=> Leads(d) /\ (d = c => pending # << >>)
                           /\ enc'[d] \in Jobs <=> enc[d] \in Jobs
                           /\ enc'[d] = "await" <=> enc[d] = "await"
    BY <1>1, <1>3 DEF Owns, Leads, Jobs
  <1>5. EncodingTypeOK'
    <2>1. enc' \in [Clients -> Encoding]
      BY <1>1, <1>2 DEF Encoding
    <2> QED BY <1>1, <1>2, <2>1 DEF EncodingInv, EncodingTypeOK, Keys, Encoding
  <1>6. OneEncoder'
    <2>1. {d \in Clients : Owns(d)'} = {d \in Clients : Owns(d)}
      BY <1>4
    <2> QED BY <1>1, <1>4, <2>1 DEF EncodingInv, OneEncoder
  <1>7. JobsLed'
    <2>1. Leads(c) /\ \A d \in Clients : Leads(d) => d = c
      BY <1>1 DEF EncodingInv, JobsLed, Leads
    <2>2. leader' <=> \E d \in Clients : Leads(d)'
      BY <1>2, <1>4, <2>1
    <2>3. \A d, e \in Clients : Leads(d)' /\ Leads(e)' => d = e
      BY <1>4 DEF EncodingInv, JobsLed
    <2>4. ToSet(pending) = {d \in Clients : enc'[d] \in Jobs /\ outcome[d] = "none"}
      BY <1>4 DEF EncodingInv, JobsLed, Jobs
    <2>5. \A d \in Clients : /\ outcome[d] # "none" => enc'[d] \in Jobs
                             /\ enc'[d] = "lead" => pending # << >>
      BY <1>3, <1>4 DEF EncodingInv, JobsLed, Jobs
    <2> QED BY <1>1, <1>2, <2>2, <2>3, <2>4, <2>5 DEF EncodingInv, JobsLed, Jobs
  <1> QED BY <1>5, <1>6, <1>7 DEF EncodingInv

LEMMA EncodeStepInv ==
  ASSUME EncodingInv, NEW c \in Clients, EncodeStep(c)
  PROVE  EncodingInv' /\ enc[c] # "none" /\ \A d \in Clients : enc'[d] = "none" <=> enc[d] = "none"
  <1>0. enc \in [Clients -> Encoding]
    BY DEF EncodingInv, EncodingTypeOK, Encoding
  <1>1. CASE Lookup(c)
    <2>1. /\ enc[c] = "lookup"
          /\ \E to \in {"ok", "await", "own"} : enc' = [enc EXCEPT ![c] = to]
      BY <1>1 DEF Lookup, Moved
    <2> QED BY <1>0, <1>1, <2>1, LookupInv
  <1>2. CASE AppendJob(c)
    <2>1. /\ enc[c] = "own"
          /\ \E to \in Jobs : enc' = [enc EXCEPT ![c] = to]
      BY <1>2 DEF AppendJob, Moved, Jobs
    <2> QED BY <1>0, <1>2, <2>1, AppendJobInv DEF Jobs
  <1>3. CASE ResignOrGoOn(c)
    <2>1. /\ enc[c] = "drained"
          /\ \E to \in Jobs : enc' = [enc EXCEPT ![c] = to]
      BY <1>3 DEF ResignOrGoOn, Moved, Jobs
    <2> QED BY <1>0, <1>3, <2>1, ResignOrGoOnInv DEF Jobs
  <1>4. ASSUME NEW result \in {"ok", "failed"}, Publish(c, result),
               enc[c] = "own" \/ (enc[c] = "job" /\ outcome[c] # "none")
        PROVE  EncodingInv' /\ enc[c] # "none" /\ \A d \in Clients : enc'[d] = "none" <=> enc[d] = "none"
    <2>1. \A d \in Clients : enc'[d] = IF d = c THEN result
                                       ELSE IF enc[d] = "await" /\ Key[d] = Key[c] THEN "lookup" ELSE enc[d]
      BY <1>4 DEF Publish, Published
    <2> QED BY <1>4, <2>1, PublishInv
  <1>5. CASE JobDone(c)
    <2>1. outcome[c] \in {"none", "ok", "failed"}
      BY DEF EncodingInv, EncodingTypeOK
    <2> QED BY <1>4, <1>5, <2>1 DEF JobDone
  <1>6. ASSUME NEW result \in {"ok", "failed"}, EncodeAlone(c, result)
        PROVE  EncodingInv' /\ enc[c] # "none" /\ \A d \in Clients : enc'[d] = "none" <=> enc[d] = "none"
    BY <1>4, <1>6 DEF EncodeAlone
  <1>7. ASSUME NEW result \in {"ok", "failed"}, EncodeJobs(c, result)
        PROVE  EncodingInv' /\ enc[c] # "none" /\ \A d \in Clients : enc'[d] = "none" <=> enc[d] = "none"
    <2>1. enc[c] = "lead" /\ enc' = [enc EXCEPT ![c] = "drained"]
      BY <1>7 DEF EncodeJobs, Moved
    <2> QED BY <1>0, <1>7, <2>1, EncodeJobsInv
  <1> QED BY <1>1, <1>2, <1>3, <1>5, <1>6, <1>7 DEF EncodeStep

\* The client takes its prompt: the prompt is no longer a matter of encoding.
LEMMA TakenInv ==
  ASSUME EncodingInv, NEW c \in Clients, NEW result \in {"ok", "failed"}, Taken(c, result)
  PROVE  EncodingInv' /\ enc[c] # "none" /\ enc' = [enc EXCEPT ![c] = "none"]
  <1>1. /\ enc \in [Clients -> Encoding] /\ enc[c] = result /\ enc' = [enc EXCEPT ![c] = "none"]
        /\ UNCHANGED <<jobLimit, cached, inflight, pending, leader, outcome>>
        /\ cached \in Seq(Keys) /\ Len(cached) <= CacheSize /\ IsInjective(cached)
    BY DEF EncodingInv, EncodingTypeOK, OneEncoder, Taken, Moved, Encoding, Keys
  <1>2. enc' \in [Clients -> Encoding]
    BY <1>1 DEF Encoding
  <1>3. \A d \in Clients : enc'[d] # enc[d] => enc[d] = result /\ enc'[d] = "none"
    BY <1>1
  <1> QED BY <1>1, <1>2, <1>3, QuietEncoding

-----------------------------------------------------------------------------
(* The steps of a client: they leave the queue and the worker alone, but for *)
(* the one that puts the request.                                            *)

Places == {"out", "encoding", "alone", "direct", "paused", "submit", "put",
           "waiting", "reading", "leaving", "gone"}
Stages == Draining \cup {"get", "exit", "lock", "enter", "run", "start", "join", "step", "idle"}

LEMMA EncodingFromQueue == QueueInv => EncodingInv
  BY DEF QueueInv, TypeOK, EncodingInv

LEMMA EncodingSame ==
  ASSUME EncodingInv, UNCHANGED encoding
  PROVE  EncodingInv'
  BY DEF EncodingInv, encoding, EncodingTypeOK, OneEncoder, JobsLed, Keys, Owns, Leads

LEMMA ConstantFacts ==
  /\ Free \notin Clients /\ Worker \notin Clients /\ Stop \notin Clients /\ Free # Worker
  /\ Limit \in Nat /\ Limit >= 1
  /\ \A c \in Clients : /\ Stream[c] \in BOOLEAN /\ Class[c] # "none"
                        /\ MaxTokens[c] \in Nat
  BY CompletionAssumption DEF Free, Worker

\* What a step of client c must respect when it goes to another place.
LEMMA ClientMoveInv ==
  ASSUME QueueInv, NEW c \in Clients, NEW to \in Places, EncodingInv',
         st' = [st EXCEPT ![c] = to],
         UNCHANGED <<mode, queue, worker, ended, cpc>>,
         sent' \in [Clients -> Nat], unread' \in [Clients -> Nat],
         \A d \in Clients : unread'[d] <= sent'[d] /\ sent'[d] <= MaxTokens[d],
         lock' \in Clients \cup {Free, Worker}, lock' = Worker <=> lock = Worker,
         \A d \in Clients : lock' = d <=> st'[d] \in {"direct", "paused"},
         \A d \in Clients : enc'[d] # "none" <=> st'[d] = "encoding",
         c \in Held \cup ended => to \in {"waiting", "reading", "gone"},
         to \in {"waiting", "reading"} => c \in Held \cup ended,
         st[c] \in {"out", "gone"} => to = "gone" \/ ~closed
  PROVE  QueueInv'
  <1>1. \A d \in Clients : st'[d] = IF d = c THEN to ELSE st[d]
    BY DEF QueueInv, TypeOK
  <1>2. TypeOK'
    <2>1. st' \in [Clients -> Places]
      BY DEF QueueInv, TypeOK, Places
    <2> QED BY <2>1, ConstantFacts DEF QueueInv, TypeOK, EncodingInv, worker, Places, Draining
  <1>3. ModelLocked'
    BY DEF QueueInv, ModelLocked, worker
  <1>4. WorkerStage'
    BY DEF QueueInv, WorkerStage, worker
  <1>5. RequestsKept'
    <2>1. Held' = Held /\ OnePlace' /\ running' \cap ended' = {}
      BY DEF QueueInv, RequestsKept, OnePlace, Held, worker
    <2>2. \A d \in Clients :
            /\ d \in Held \cup ended => st'[d] \in {"waiting", "reading", "gone"}
            /\ st'[d] \in {"waiting", "reading"} => d \in Held \cup ended
      BY <1>1 DEF QueueInv, RequestsKept
    <2> QED BY <2>1, <2>2 DEF RequestsKept
  <1>6. SentinelKept'
    <2>1. cpc \in {"joining", "closed"} => live' = {}
      <3> SUFFICES ASSUME cpc \in {"joining", "closed"}, NEW d \in Clients
                   PROVE  st'[d] \in {"out", "gone"}
        BY DEF live
      <3>1. \A e \in Clients : st[e] \in {"out", "gone"}
        BY DEF QueueInv, SentinelKept, live
      <3>2. closed
        BY DEF closed
      <3> QED BY <1>1, <3>1, <3>2
    <2> QED BY <2>1 DEF QueueInv, SentinelKept, worker
  <1> QED BY <1>2, <1>3, <1>4, <1>5, <1>6 DEF QueueInv, EncodingInv

\* What holds of the place of a client and of what it has received.
LEMMA ClientFacts ==
  ASSUME QueueInv, NEW c \in Clients
  PROVE  /\ st \in [Clients -> Places] /\ enc \in [Clients -> Encoding]
         /\ enc[c] # "none" <=> st[c] = "encoding"
         /\ c \in Held \cup ended => st[c] \in {"waiting", "reading", "gone"}
         /\ st[c] \in {"waiting", "reading"} => c \in Held \cup ended
         /\ lock \in Clients \cup {Free, Worker}
         /\ \A d \in Clients : lock = d <=> st[d] \in {"direct", "paused"}
         /\ sent \in [Clients -> Nat] /\ unread \in [Clients -> Nat]
         /\ \A d \in Clients : unread[d] <= sent[d] /\ sent[d] <= MaxTokens[d]
  BY DEF QueueInv, TypeOK, RequestsKept, ModelLocked, EncodingTypeOK, Places, Encoding

\* A step that leaves encoding, lock and responses alone.
LEMMA ClientGoesInv ==
  ASSUME QueueInv, NEW c \in Clients, NEW to \in Places, Goes(c, to),
         UNCHANGED <<encoding, mode, queue, worker, responses, lock, cpc>>,
         st[c] \notin {"encoding", "direct", "paused", "out"}, to \notin {"encoding", "direct", "paused"},
         c \in Held \cup ended => to \in {"waiting", "reading", "gone"},
         to \in {"waiting", "reading"} => c \in Held \cup ended,
         st[c] = "gone" => to = "gone"
  PROVE  QueueInv'
  <1>1. EncodingInv' /\ enc' = enc
    BY EncodingFromQueue, EncodingSame DEF encoding
  <1>2. st' = [st EXCEPT ![c] = to] /\ st \in [Clients -> Places]
    BY ClientFacts DEF Goes
  <1>3. \A d \in Clients : st'[d] = IF d = c THEN to ELSE st[d]
    BY <1>2
  <1>4. \A d \in Clients : /\ lock = d <=> st'[d] \in {"direct", "paused"}
                           /\ enc'[d] # "none" <=> st'[d] = "encoding"
    BY <1>1, <1>3, ClientFacts
  <1> QED BY <1>1, <1>2, <1>4, ClientFacts, ClientMoveInv DEF responses

LEMMA EnterInv ==
  ASSUME QueueInv, NEW c \in Clients, Enter(c)
  PROVE  QueueInv'
  <1>1. /\ st[c] = "out" /\ enc[c] = "none" /\ st \in [Clients -> Places] /\ enc \in [Clients -> Encoding]
        /\ UNCHANGED <<jobLimit, cached, inflight, pending, leader, outcome,
                       mode, queue, lock, worker, responses, cpc>>
    BY ClientFacts DEF Enter
  <1> DEFINE to == IF closed THEN "gone" ELSE "encoding"
             into == IF closed THEN "none" ELSE "lookup"
  <1>2. st' = [st EXCEPT ![c] = to] /\ enc' = [enc EXCEPT ![c] = into]
    BY <1>1 DEF Enter, Goes, Moved
  <1>3. \A d \in Clients : /\ st'[d] = IF d = c THEN to ELSE st[d]
                           /\ enc'[d] = IF d = c THEN into ELSE enc[d]
    BY <1>1, <1>2
  <1>4. EncodingInv'
    <2>1. /\ cached \in Seq(Keys) /\ Len(cached) <= CacheSize /\ IsInjective(cached)
      BY EncodingFromQueue DEF EncodingInv, EncodingTypeOK, OneEncoder, Keys
    <2>2. enc' \in [Clients -> Encoding]
      BY <1>1, <1>2 DEF Encoding
    <2>3. \A d \in Clients : enc'[d] # enc[d] => enc[d] = "none" /\ enc'[d] = "lookup"
      BY <1>1, <1>3
    <2> QED BY <1>1, <2>1, <2>2, <2>3, EncodingFromQueue, QuietEncoding
  <1>5. \A d \in Clients : /\ lock = d <=> st'[d] \in {"direct", "paused"}
                           /\ enc'[d] # "none" <=> st'[d] = "encoding"
    BY <1>1, <1>3, ClientFacts
  <1>6. to \in Places /\ to \notin {"waiting", "reading"} /\ (to = "gone" \/ ~closed) /\ c \notin Held \cup ended
    BY <1>1, ClientFacts DEF Places
  <1> HIDE DEF to, into
  <1> QED BY <1>1, <1>2, <1>4, <1>5, <1>6, ClientFacts, ClientMoveInv DEF responses

LEMMA EncodeInv ==
  ASSUME QueueInv, NEW c \in Clients, Encode(c)
  PROVE  QueueInv'
  <1>1. EncodingInv' /\ enc[c] # "none" /\ \A d \in Clients : enc'[d] = "none" <=> enc[d] = "none"
    BY EncodingFromQueue, EncodeStepInv DEF Encode
  <1>2. UNCHANGED <<mode, st, queue, lock, worker, responses, cpc>>
    BY DEF Encode
  <1>3. st[c] = "encoding" /\ st \in [Clients -> Places]
    BY <1>1, ClientFacts
  <1>4. st' = [st EXCEPT ![c] = "encoding"]
    BY <1>2, <1>3
  <1>5. \A d \in Clients : /\ lock = d <=> st'[d] \in {"direct", "paused"}
                           /\ enc'[d] # "none" <=> st'[d] = "encoding"
    BY <1>1, <1>2, ClientFacts
  <1>6. "encoding" \in Places /\ c \notin Held \cup ended
    BY <1>3, ClientFacts DEF Places
  <1>7. /\ UNCHANGED <<mode, queue, worker, ended, cpc>> /\ sent' = sent /\ unread' = unread
        /\ lock' = lock /\ lock \in Clients \cup {Free, Worker}
        /\ sent \in [Clients -> Nat] /\ unread \in [Clients -> Nat]
        /\ \A d \in Clients : unread[d] <= sent[d] /\ sent[d] <= MaxTokens[d]
    BY <1>2, ClientFacts DEF responses
  <1>8. \A d \in Clients : /\ unread'[d] <= sent'[d] /\ sent'[d] <= MaxTokens[d]
                           /\ lock' = d <=> st'[d] \in {"direct", "paused"}
    BY <1>5, <1>7
  <1> QED BY <1>1, <1>3, <1>4, <1>5, <1>6, <1>7, <1>8, ClientMoveInv

\* The prompt is there, or could not be encoded.
LEMMA TakenQueueInv ==
  ASSUME QueueInv, NEW c \in Clients, NEW result \in {"ok", "failed"}, Taken(c, result),
         NEW to \in {"gone", "alone", "submit"}, Goes(c, to), st[c] = "encoding",
         UNCHANGED <<mode, queue, lock, worker, responses, cpc>>
  PROVE  QueueInv'
  <1>1. EncodingInv' /\ enc[c] # "none" /\ enc' = [enc EXCEPT ![c] = "none"]
    BY EncodingFromQueue, TakenInv
  <1>2. st' = [st EXCEPT ![c] = to] /\ st \in [Clients -> Places] /\ enc \in [Clients -> Encoding]
    BY ClientFacts DEF Goes
  <1>3. \A d \in Clients : /\ st'[d] = IF d = c THEN to ELSE st[d]
                           /\ enc'[d] = IF d = c THEN "none" ELSE enc[d]
    BY <1>1, <1>2
  <1>4. \A d \in Clients : /\ lock = d <=> st'[d] \in {"direct", "paused"}
                           /\ enc'[d] # "none" <=> st'[d] = "encoding"
    BY <1>3, ClientFacts
  <1>5. to \in Places /\ to \notin {"waiting", "reading"} /\ c \notin Held \cup ended
    BY ClientFacts DEF Places
  <1> QED BY <1>1, <1>2, <1>4, <1>5, ClientFacts, ClientMoveInv DEF responses

LEMMA EncodeFailedInv ==
  ASSUME QueueInv, NEW c \in Clients, EncodeFailed(c)
  PROVE  QueueInv'
  BY TakenQueueInv DEF EncodeFailed

LEMMA CheckAloneInv ==
  ASSUME QueueInv, NEW c \in Clients, CheckAlone(c)
  PROVE  QueueInv'
  <1>1. CASE Goes(c, "alone")
    BY <1>1, TakenQueueInv DEF CheckAlone
  <1>2. CASE Goes(c, "submit")
    BY <1>2, TakenQueueInv DEF CheckAlone
  <1> QED BY <1>1, <1>2 DEF CheckAlone, Goes

\* A step that takes or leaves the model lock.
LEMMA LockMoveInv ==
  ASSUME QueueInv, NEW c \in Clients, NEW to \in Places, Goes(c, to),
         UNCHANGED <<encoding, mode, queue, worker, responses, cpc>>,
         \/ lock = Free /\ lock' = c /\ to = "direct"
         \/ lock = c /\ lock' = Free /\ to \notin {"direct", "paused", "encoding", "waiting", "reading"}
         \/ lock = c /\ lock' = c /\ to \in {"direct", "paused"},
         st[c] \in {"alone", "direct", "paused"}
  PROVE  QueueInv'
  <1>1. EncodingInv' /\ enc' = enc
    BY EncodingFromQueue, EncodingSame DEF encoding
  <1>2. st' = [st EXCEPT ![c] = to] /\ st \in [Clients -> Places]
    BY ClientFacts DEF Goes
  <1>3. \A d \in Clients : st'[d] = IF d = c THEN to ELSE st[d]
    BY <1>2
  <1>4. to # "encoding" /\ to \notin {"waiting", "reading"} /\ c \notin Held \cup ended
    BY ClientFacts
  <1>5. lock' \in Clients \cup {Free, Worker} /\ (lock' = Worker <=> lock = Worker)
    BY ConstantFacts
  <1>6. \A d \in Clients : /\ lock' = d <=> st'[d] \in {"direct", "paused"}
                           /\ enc'[d] # "none" <=> st'[d] = "encoding"
    BY <1>1, <1>3, <1>4, ClientFacts, ConstantFacts
  <1> QED BY <1>1, <1>2, <1>4, <1>5, <1>6, ClientFacts, ClientMoveInv DEF responses

LEMMA TryLockInv ==
  ASSUME QueueInv, NEW c \in Clients, TryLock(c)
  PROVE  QueueInv'
  <1>1. st[c] = "alone" /\ UNCHANGED <<encoding, mode, queue, worker, responses, cpc>>
        /\ c \notin Held \cup ended
    BY ClientFacts DEF TryLock
  <1>2. CASE lock = Free
    BY <1>1, <1>2, LockMoveInv DEF TryLock, Places
  <1>3. CASE lock # Free
    BY <1>1, <1>3, ClientGoesInv DEF TryLock, Places
  <1> QED BY <1>2, <1>3

LEMMA DirectTokenInv ==
  ASSUME QueueInv, NEW c \in Clients, DirectToken(c)
  PROVE  QueueInv'
  <1> DEFINE to == IF Stream[c] THEN "paused" ELSE "direct"
  <1>1. /\ st[c] = "direct" /\ sent[c] < MaxTokens[c] /\ sent' = [sent EXCEPT ![c] = sent[c] + 1]
        /\ st' = [st EXCEPT ![c] = to]
        /\ UNCHANGED <<encoding, mode, queue, lock, worker, unread, ended, cpc>>
    BY DEF DirectToken, Goes
  <1>2. EncodingInv' /\ enc' = enc
    BY <1>1, EncodingFromQueue, EncodingSame DEF encoding
  <1>3. \A d \in Clients : st'[d] = IF d = c THEN to ELSE st[d]
    BY <1>1, ClientFacts
  <1>4. to \in Places /\ to \notin {"waiting", "reading"} /\ c \notin Held \cup ended
    BY <1>1, ClientFacts DEF Places
  <1>5. \A d \in Clients : /\ lock = d <=> st'[d] \in {"direct", "paused"}
                           /\ enc'[d] # "none" <=> st'[d] = "encoding"
    BY <1>1, <1>2, <1>3, ClientFacts
  <1>6. sent' \in [Clients -> Nat] /\ \A d \in Clients : unread[d] <= sent'[d] /\ sent'[d] <= MaxTokens[d]
    <2>1. \A d \in Clients : sent'[d] = IF d = c THEN sent[c] + 1 ELSE sent[d]
      BY <1>1, ClientFacts
    <2>2. unread[c] <= sent[c] + 1 /\ sent[c] + 1 <= MaxTokens[c]
      BY <1>1, ClientFacts, ConstantFacts
    <2> QED BY <1>1, <2>1, <2>2, ClientFacts
  <1> HIDE DEF to
  <1> QED BY <1>1, <1>2, <1>4, <1>5, <1>6, ClientFacts, ClientMoveInv

LEMMA DirectEndInv ==
  ASSUME QueueInv, NEW c \in Clients, DirectEnd(c)
  PROVE  QueueInv'
  <1>1. st[c] = "direct" /\ lock = c
    BY ClientFacts DEF DirectEnd
  <1> QED BY <1>1, LockMoveInv DEF DirectEnd, Places

LEMMA SubmitInv ==
  ASSUME QueueInv, NEW c \in Clients, Submit(c)
  PROVE  QueueInv'
  <1>1. st[c] = "submit" /\ c \notin Held \cup ended
    BY ClientFacts DEF Submit
  <1> QED BY <1>1, ClientGoesInv DEF Submit, Places

LEMMA ReceiveInv ==
  ASSUME QueueInv, NEW c \in Clients, Receive(c)
  PROVE  QueueInv'
  <1>1. PICK n \in 1..unread[c] : unread' = [unread EXCEPT ![c] = unread[c] - n]
    BY DEF Receive
  <1>2. /\ st[c] = "waiting" /\ st' = [st EXCEPT ![c] = "reading"]
        /\ UNCHANGED <<encoding, mode, queue, lock, worker, sent, ended, cpc>>
    BY DEF Receive, Goes
  <1>3. EncodingInv' /\ enc' = enc
    BY <1>2, EncodingFromQueue, EncodingSame DEF encoding
  <1>4. \A d \in Clients : st'[d] = IF d = c THEN "reading" ELSE st[d]
    BY <1>2, ClientFacts
  <1>5. "reading" \in Places /\ c \in Held \cup ended
    BY <1>2, ClientFacts DEF Places
  <1>6. \A d \in Clients : /\ lock = d <=> st'[d] \in {"direct", "paused"}
                           /\ enc'[d] # "none" <=> st'[d] = "encoding"
    BY <1>2, <1>3, <1>4, ClientFacts
  <1>7. unread' \in [Clients -> Nat] /\ \A d \in Clients : unread'[d] <= sent[d]
    <2>1. \A d \in Clients : unread'[d] = IF d = c THEN unread[c] - n ELSE unread[d]
      BY <1>1, ClientFacts
    <2>2. unread[c] \in Nat /\ sent[c] \in Nat /\ unread[c] <= sent[c] /\ n \in Nat /\ n <= unread[c]
      BY <1>1, ClientFacts
    <2>3. unread[c] - n \in Nat /\ unread[c] - n <= sent[c]
      BY <2>2
    <2> QED BY <1>1, <2>1, <2>3, ClientFacts
  <1> QED BY <1>2, <1>3, <1>5, <1>6, <1>7, ClientFacts, ClientMoveInv

LEMMA ReceiveEndInv ==
  ASSUME QueueInv, NEW c \in Clients, ReceiveEnd(c)
  PROVE  QueueInv'
  BY ClientGoesInv DEF ReceiveEnd, Places

LEMMA ResumeInv ==
  ASSUME QueueInv, NEW c \in Clients, Resume(c)
  PROVE  QueueInv'
  <1>1. CASE st[c] = "reading"
    <2>1. c \in Held \cup ended /\ Goes(c, "waiting")
      BY <1>1, ClientFacts DEF Resume
    <2> QED BY <1>1, <2>1, ClientGoesInv DEF Resume, Places
  <1>2. CASE st[c] = "paused"
    <2>1. lock = c /\ Goes(c, "direct")
      BY <1>2, ClientFacts DEF Resume
    <2> QED BY <1>2, <2>1, LockMoveInv DEF Resume, Places
  <1> QED BY <1>1, <1>2 DEF Resume

LEMMA AbandonInv ==
  ASSUME QueueInv, NEW c \in Clients, Abandon(c)
  PROVE  QueueInv'
  <1>1. CASE st[c] = "paused"
    <2>1. lock = c
      BY <1>1, ClientFacts
    <2> QED BY <1>1, <2>1, LockMoveInv DEF Abandon, Places
  <1>2. CASE st[c] = "reading"
    BY <1>2, ClientGoesInv DEF Abandon, Places
  <1> QED BY <1>1, <1>2 DEF Abandon

LEMMA ExitInv ==
  ASSUME QueueInv, NEW c \in Clients, Exit(c)
  PROVE  QueueInv'
  BY ClientGoesInv DEF Exit, Places

\* A request is queued once, by a client that was in no place before.
LEMMA PutInv ==
  ASSUME QueueInv, NEW c \in Clients, Put(c)
  PROVE  QueueInv'
  <1>1. /\ st[c] = "put" /\ queue' = Append(queue, c) /\ st' = [st EXCEPT ![c] = "waiting"]
        /\ UNCHANGED <<encoding, mode, lock, worker, responses, cpc>>
    BY DEF Put, Goes
  <1>2. EncodingInv' /\ enc' = enc
    BY <1>1, EncodingFromQueue, EncodingSame DEF encoding
  <1>3. \A d \in Clients : st'[d] = IF d = c THEN "waiting" ELSE st[d]
    BY <1>1, ClientFacts
  <1>4. c \notin Held \cup ended /\ c \notin ToSet(queue) /\ queue \in Seq(Clients \cup {Stop})
    BY <1>1, ClientFacts DEF Held, QueueInv, TypeOK
  <1>5. /\ queue' \in Seq(Clients \cup {Stop}) /\ ToSet(queue') = ToSet(queue) \cup {c}
        /\ IsInjective(queue) => IsInjective(queue')
    BY <1>1, <1>4, AppendFacts
  <1>6. TypeOK'
    <2>1. st' \in [Clients -> Places]
      BY <1>1, ClientFacts DEF Places
    <2> QED BY <1>1, <1>2, <1>5, <2>1 DEF QueueInv, TypeOK, EncodingInv, worker, responses, Places, Draining
  <1>7. ModelLocked'
    BY <1>1, <1>3 DEF QueueInv, ModelLocked, worker
  <1>8. WorkerStage'
    BY <1>1 DEF QueueInv, WorkerStage, worker
  <1>9. RequestsKept'
    <2>1. Held' = Held \cup {c} /\ ended' = ended /\ running' \cap ended' = {}
      BY <1>1, <1>5 DEF QueueInv, RequestsKept, Held, worker, responses
    <2>2. OnePlace'
      BY <1>1, <1>4, <1>5 DEF QueueInv, RequestsKept, OnePlace, Held, worker
    <2>3. \A d \in Clients :
            /\ d \in Held' \cup ended => st'[d] \in {"waiting", "reading", "gone"}
            /\ st'[d] \in {"waiting", "reading"} => d \in Held' \cup ended
            /\ enc'[d] # "none" <=> st'[d] = "encoding"
      BY <1>1, <1>2, <1>3, <2>1 DEF QueueInv, RequestsKept
    <2> QED BY <2>1, <2>2, <2>3 DEF RequestsKept
  <1>10. SentinelKept'
    <2>1. c \in live /\ Stop # c
      BY <1>1, ConstantFacts DEF live
    <2>2. cpc \notin {"joining", "closed"}
      BY <2>1 DEF QueueInv, SentinelKept
    <2> QED BY <1>1, <1>5, <2>1, <2>2 DEF QueueInv, SentinelKept, worker
  <1> QED BY <1>2, <1>6, <1>7, <1>8, <1>9, <1>10 DEF QueueInv, EncodingInv


-----------------------------------------------------------------------------
(* The steps of the worker: they leave the clients alone, and hand every     *)
(* request they take from one place on to another.                           *)

\* What holds of the places of the worker.
LEMMA WorkerFacts ==
  ASSUME QueueInv
  PROVE  /\ queue \in Seq(Clients \cup {Stop}) /\ batch \in Seq(Clients) /\ deferred \in Seq(Clients)
         /\ Len(batch) <= Limit /\ running \subseteq Clients /\ ended \subseteq Clients
         /\ sent \in [Clients -> Nat] /\ unread \in [Clients -> Nat]
         /\ \A c \in Clients : unread[c] <= sent[c] /\ sent[c] <= MaxTokens[c]
         /\ wpc \in Stages /\ (lock = Worker <=> wpc \in Locked)
         /\ WorkerStage /\ OnePlace /\ running \cap ended = {}
  BY DEF QueueInv, TypeOK, ModelLocked, RequestsKept, Stages

\* What a step of the worker must respect.
LEMMA WorkerMoveInv ==
  ASSUME QueueInv, UNCHANGED <<encoding, mode, st, cpc>>, wpc # "exit",
         queue' \in Seq(Clients \cup {Stop}), batch' \in Seq(Clients), deferred' \in Seq(Clients),
         Len(batch') <= Limit, running' \subseteq Clients, ended' \subseteq Clients, wpc' \in Stages,
         sent' \in [Clients -> Nat], unread' \in [Clients -> Nat],
         \A c \in Clients : unread'[c] <= sent'[c] /\ sent'[c] <= MaxTokens[c],
         lock' = lock \/ (lock \in {Free, Worker} /\ lock' \in {Free, Worker}),
         lock' = Worker <=> wpc' \in Locked,
         WorkerStage', OnePlace', running' \cap ended' = {},
         \A c \in Clients : c \in Held' \cup ended' <=> c \in Held \cup ended,
         Stop \in ToSet(queue') => Stop \in ToSet(queue) /\ wpc' # "exit",
         wpc' = "exit" => Stop \in ToSet(queue),
         Stop \in ToSet(queue) /\ ~mode.online => Stop \in ToSet(queue') \/ wpc' = "exit"
  PROVE  QueueInv'
  <1>1. EncodingInv' /\ enc' = enc
    BY EncodingFromQueue, EncodingSame DEF encoding
  <1>2. ModelLocked'
    <2>1. \A c \in Clients : lock' = c <=> lock = c
      BY ConstantFacts
    <2> QED BY <2>1 DEF QueueInv, ModelLocked
  <1>3. TypeOK'
    <2>1. running' # {} => lock' = Worker
      BY DEF WorkerStage, Locked, Draining
    <2>2. lock' \in Clients \cup {Free, Worker}
      BY DEF QueueInv, TypeOK
    <2>3. st' \in [Clients -> Places] /\ mode' \in Modes /\ cpc' \in {"open", "draining", "joining", "closed"}
      BY DEF QueueInv, TypeOK, Places
    <2> QED BY <1>1, <2>1, <2>2, <2>3 DEF TypeOK, EncodingInv, Places, Stages
  <1>4. RequestsKept'
    <2>1. \A c \in Clients : /\ c \in Held \cup ended => st[c] \in {"waiting", "reading", "gone"}
                             /\ st[c] \in {"waiting", "reading"} => c \in Held \cup ended
                             /\ enc[c] # "none" <=> st[c] = "encoding"
      BY DEF QueueInv, RequestsKept
    <2>2. \A c \in Clients : /\ c \in Held' \cup ended' => st'[c] \in {"waiting", "reading", "gone"}
                             /\ st'[c] \in {"waiting", "reading"} => c \in Held' \cup ended'
                             /\ enc'[c] # "none" <=> st'[c] = "encoding"
      BY <1>1, <2>1
    <2> QED BY <2>2 DEF RequestsKept
  <1>5. SentinelKept'
    <2>1. live' = live
      BY DEF live
    <2> QED BY <2>1 DEF QueueInv, SentinelKept
  <1> QED BY <1>1, <1>2, <1>3, <1>4, <1>5 DEF QueueInv, EncodingInv

\* A step that ends no request, generates nothing and keeps the sentinel or its absence.
LEMMA PlacesMoveInv ==
  ASSUME QueueInv, UNCHANGED <<encoding, mode, st, responses, cpc>>, wpc # "exit",
         queue' \in Seq(Clients \cup {Stop}), batch' \in Seq(Clients), deferred' \in Seq(Clients),
         Len(batch') <= Limit, running' \subseteq Clients, running' \cap ended = {},
         wpc' \in Stages \ {"exit"},
         lock' = lock \/ (lock \in {Free, Worker} /\ lock' \in {Free, Worker}),
         lock' = Worker <=> wpc' \in Locked,
         WorkerStage', OnePlace',
         \A c \in Clients : c \in Held' \cup ended <=> c \in Held \cup ended,
         Stop \in ToSet(queue') => Stop \in ToSet(queue),
         Stop \in ToSet(queue) /\ ~mode.online => Stop \in ToSet(queue')
  PROVE  QueueInv'
  <1>1. ended' = ended /\ sent' = sent /\ unread' = unread
    BY DEF responses
  <1> QED BY <1>1, WorkerFacts, WorkerMoveInv

LEMMA GetInv ==
  ASSUME QueueInv, Get
  PROVE  QueueInv'
  <1> DEFINE first == Head(queue)
             online == mode.online /\ Stream[first]
  <1>1. /\ wpc = "get" /\ queue # << >> /\ queue' = Tail(queue)
        /\ UNCHANGED <<encoding, mode, st, lock, running, deferred, responses, cpc>>
        /\ ended' = ended /\ sent' = sent /\ unread' = unread
    BY DEF Get, responses
  <1>2. /\ batch = << >> /\ policy = "none" /\ deferred = << >> /\ running = {} /\ ~(wpc \in Locked)
        /\ lock # Worker
    BY <1>1, WorkerFacts DEF WorkerStage, InSession, Locked, Draining
  <1>3. /\ queue' \in Seq(Clients \cup {Stop}) /\ first \in Clients \cup {Stop}
        /\ ToSet(queue) = {first} \cup ToSet(queue')
        /\ IsInjective(queue') /\ first \notin ToSet(queue')
    BY <1>1, WorkerFacts, TailFacts DEF OnePlace
  <1>4. ToSet(queue') \subseteq ToSet(queue)
    BY <1>3
  <1>5. CASE first = Stop
    <2>1. wpc' = "exit" /\ UNCHANGED <<batch, policy>>
      BY <1>5 DEF Get
    <2>2. WorkerStage'
      BY <1>1, <1>2, <2>1 DEF WorkerStage, InSession
    <2>3. OnePlace'
      BY <1>1, <1>2, <1>3, <2>1, EmptyFacts, WorkerFacts DEF OnePlace
    <2>4. \A c \in Clients : c \in Held' \cup ended' <=> c \in Held \cup ended
      BY <1>1, <1>3, <1>5, <2>1, ConstantFacts DEF Held
    <2>5. wpc' \in Stages /\ ~(wpc' \in Locked)
      BY <2>1 DEF Stages, Locked, Draining
    <2> QED BY <1>1, <1>2, <1>3, <1>5, <2>1, <2>2, <2>3, <2>4, <2>5, WorkerFacts, WorkerMoveInv
  <1>6. CASE first # Stop /\ first \in ended
    <2>1. UNCHANGED <<wpc, batch, policy>>
      BY <1>6 DEF Get
    <2>2. WorkerStage'
      BY <1>1, <2>1, WorkerFacts DEF WorkerStage
    <2>3. OnePlace'
      BY <1>1, <1>2, <1>3, <2>1, EmptyFacts, WorkerFacts DEF OnePlace
    <2>4. \A c \in Clients : c \in Held' \cup ended <=> c \in Held \cup ended
      BY <1>1, <1>3, <1>6, <2>1 DEF Held
    <2> QED BY <1>1, <1>2, <1>3, <1>6, <2>1, <2>2, <2>3, <2>4, WorkerFacts, PlacesMoveInv
  <1>7. CASE first # Stop /\ first \notin ended
    <2>1. /\ wpc' = IF online THEN "enter" ELSE "collect"
          /\ policy' = IF online THEN Class[first] ELSE "none"
          /\ batch' = <<first>> /\ first \in Clients
      BY <1>3, <1>7 DEF Get
    <2>2. /\ batch' \in Seq(Clients) /\ Len(batch') <= Limit /\ ToSet(batch') = {first}
          /\ batch' # << >> /\ IsInjective(batch')
      BY <2>1, EmptyFacts, ConstantFacts
    <2>3. WorkerStage'
      BY <1>1, <1>2, <2>1, <2>2, ConstantFacts DEF WorkerStage, InSession
    <2>4. OnePlace'
      BY <1>1, <1>2, <1>3, <2>1, <2>2, EmptyFacts, WorkerFacts DEF OnePlace
    <2>5. \A c \in Clients : c \in Held' \cup ended <=> c \in Held \cup ended
      BY <1>1, <1>2, <1>3, <2>1, <2>2, EmptyFacts DEF Held
    <2>6. wpc' \in Stages \ {"exit"} /\ ~(wpc' \in Locked)
      BY <2>1 DEF Stages, Locked, Draining
    <2> QED BY <1>1, <1>2, <1>3, <1>7, <2>2, <2>3, <2>4, <2>5, <2>6, WorkerFacts, PlacesMoveInv
  <1> QED BY <1>5, <1>6, <1>7

LEMMA LockInv ==
  ASSUME QueueInv, Lock
  PROVE  QueueInv'
  <1>1. /\ wpc \in {"lock", "enter"} /\ lock = Free /\ lock' = Worker
        /\ wpc' = IF wpc = "lock" THEN "drain" ELSE "gather"
        /\ UNCHANGED <<encoding, mode, st, queue, batch, running, policy, deferred, responses, cpc>>
    BY DEF Lock
  <1>2. /\ WorkerStage' /\ wpc' \in Locked /\ wpc' \in Stages \ {"exit"}
    BY <1>1, WorkerFacts DEF WorkerStage, InSession, Locked, Stages, Draining
  <1>3. OnePlace' /\ Held' = Held
    BY <1>1, WorkerFacts DEF OnePlace, Held
  <1> QED BY <1>1, <1>2, <1>3, WorkerFacts, PlacesMoveInv

LEMMA DrainOneInv ==
  ASSUME QueueInv, DrainOne
  PROVE  QueueInv'
  <1> DEFINE first == Head(queue)
  <1>1. /\ wpc \in Draining /\ Len(batch) < Limit /\ queue # << >> /\ first # Stop
        /\ queue' = Tail(queue)
        /\ UNCHANGED <<encoding, mode, st, lock, wpc, running, policy, responses, cpc>>
    BY DEF DrainOne, Takes
  <1>2. /\ queue' \in Seq(Clients \cup {Stop}) /\ first \in Clients \cup {Stop}
        /\ ToSet(queue) = {first} \cup ToSet(queue')
        /\ IsInjective(queue') /\ first \notin ToSet(queue')
    BY <1>1, WorkerFacts, TailFacts DEF OnePlace
  <1>3. /\ first \in Clients
        /\ first \notin ToSet(batch) /\ first \notin ToSet(deferred) /\ first \notin running
    BY <1>1, <1>2, WorkerFacts DEF OnePlace
  <1>4. wpc \in Stages \ {"exit"} /\ (wpc \in Locked <=> lock = Worker)
    BY <1>1, WorkerFacts DEF Draining
  <1>5. CASE Joins(first)
    <2>1. batch' = Append(batch, first) /\ deferred' = deferred
      BY <1>5 DEF DrainOne
    <2>2. /\ batch' \in Seq(Clients) /\ Len(batch') = Len(batch) + 1 /\ batch' # << >>
          /\ ToSet(batch') = ToSet(batch) \cup {first} /\ IsInjective(batch')
      BY <1>3, <2>1, AppendFacts, WorkerFacts DEF OnePlace
    <2>3. Len(batch') <= Limit
      BY <1>1, <2>2, WorkerFacts, ConstantFacts
    <2>4. WorkerStage'
      BY <1>1, <2>1, <2>2, WorkerFacts DEF WorkerStage, Draining
    <2>5. OnePlace'
      BY <1>1, <1>2, <1>3, <2>1, <2>2, WorkerFacts DEF OnePlace
    <2>6. \A c \in Clients : c \in Held' \cup ended <=> c \in Held \cup ended
      BY <1>1, <1>2, <2>1, <2>2 DEF Held
    <2> QED BY <1>1, <1>2, <1>4, <2>1, <2>2, <2>3, <2>4, <2>5, <2>6, WorkerFacts, PlacesMoveInv
  <1>6. CASE ~Joins(first)
    <2>1. deferred' = Append(deferred, first) /\ batch' = batch
      BY <1>6 DEF DrainOne
    <2>2. /\ deferred' \in Seq(Clients)
          /\ ToSet(deferred') = ToSet(deferred) \cup {first} /\ IsInjective(deferred')
      BY <1>3, <2>1, AppendFacts, WorkerFacts DEF OnePlace
    <2>3. wpc \in InSession
      BY <1>6, WorkerFacts DEF Joins, WorkerStage
    <2>4. WorkerStage'
      BY <1>1, <2>1, <2>3, WorkerFacts DEF WorkerStage
    <2>5. OnePlace'
      BY <1>1, <1>2, <1>3, <2>1, <2>2, WorkerFacts DEF OnePlace
    <2>6. \A c \in Clients : c \in Held' \cup ended <=> c \in Held \cup ended
      BY <1>1, <1>2, <2>1, <2>2 DEF Held
    <2> QED BY <1>1, <1>2, <1>4, <2>1, <2>2, <2>4, <2>5, <2>6, WorkerFacts, PlacesMoveInv
  <1> QED BY <1>5, <1>6

\* The sentinel goes to the end of the queue, and the queue keeps its elements.
LEMMA AfterDrainFacts ==
  ASSUME NEW S, queue \in Seq(S), Stop \in S, IsInjective(queue), ~Takes, Len(batch) <= Limit, Len(batch) \in Nat
  PROVE  AfterDrain \in Seq(S) /\ ToSet(AfterDrain) = ToSet(queue) /\ IsInjective(AfterDrain)
  <1>1. CASE queue = << >> \/ Len(batch) >= Limit
    BY <1>1 DEF AfterDrain
  <1>2. CASE ~(queue = << >> \/ Len(batch) >= Limit)
    <2>1. queue # << >> /\ Head(queue) = Stop
      BY <1>2, ConstantFacts DEF Takes
    <2>2. /\ Tail(queue) \in Seq(S) /\ ToSet(queue) = {Stop} \cup ToSet(Tail(queue))
          /\ IsInjective(Tail(queue)) /\ Stop \notin ToSet(Tail(queue))
      BY <2>1, TailFacts
    <2>3. AfterDrain = Append(Tail(queue), Stop)
      BY <1>2 DEF AfterDrain
    <2> DEFINE q == Tail(queue)
    <2>4. q \in Seq(S) /\ Stop \in S /\ IsInjective(q) /\ Stop \notin ToSet(q)
      BY <2>2
    <2> HIDE DEF q
    <2>5. /\ Append(q, Stop) \in Seq(S) /\ ToSet(Append(q, Stop)) = ToSet(q) \cup {Stop}
          /\ IsInjective(Append(q, Stop))
      BY <2>4, AppendFacts
    <2> QED BY <2>2, <2>3, <2>5 DEF q
  <1> QED BY <1>1, <1>2

LEMMA DrainEndInv ==
  ASSUME QueueInv, DrainEnd
  PROVE  QueueInv'
  <1>1. /\ wpc \in Draining /\ ~Takes /\ queue' = AfterDrain
        /\ UNCHANGED <<encoding, mode, st, batch, running, policy, deferred, responses, cpc>>
    BY DEF DrainEnd
  <1>2. /\ queue' \in Seq(Clients \cup {Stop}) /\ ToSet(queue') = ToSet(queue) /\ IsInjective(queue')
    <2>1. /\ queue \in Seq(Clients \cup {Stop}) /\ Stop \in Clients \cup {Stop} /\ IsInjective(queue)
          /\ Len(batch) <= Limit /\ Len(batch) \in Nat
      BY WorkerFacts DEF OnePlace
    <2> QED BY <1>1, <2>1, AfterDrainFacts
  <1>3. OnePlace' /\ Held' = Held
    BY <1>1, <1>2, WorkerFacts DEF OnePlace, Held
  <1>4. wpc' = CASE wpc = "collect" -> "lock"
                 [] wpc = "drain" -> "run"
                 [] wpc = "next" -> IF batch = << >> THEN "get" ELSE "run"
                 [] wpc = "gather" -> "start"
                 [] wpc = "ready" -> IF batch # << >> THEN "join" ELSE IF running = {} THEN "wait" ELSE "step"
                 [] wpc = "wait" -> IF batch = << >> THEN "idle" ELSE "join"
    BY DEF DrainEnd
  <1>5. lock' = IF wpc = "next" /\ batch = << >> THEN Free ELSE lock
    BY DEF DrainEnd
  <1>6. wpc' \in Stages \ {"exit"}
    BY <1>1, <1>4 DEF Draining, Stages
  <1>7. WorkerStage'
    BY <1>1, <1>4, WorkerFacts DEF WorkerStage, InSession, Draining
  <1>8. /\ lock' = Worker <=> wpc' \in Locked
        /\ lock' = lock \/ (lock \in {Free, Worker} /\ lock' \in {Free, Worker})
    <2>1. CASE wpc = "next" /\ batch = << >>
      <3>1. lock = Worker /\ lock' = Free /\ wpc' = "get"
        BY <1>4, <1>5, <2>1, WorkerFacts DEF Locked, Draining
      <3> QED BY <3>1, ConstantFacts DEF Locked, Draining
    <2>2. CASE ~(wpc = "next" /\ batch = << >>)
      <3>1. lock' = lock
        BY <1>5, <2>2
      <3>2. wpc' \in Locked <=> wpc \in Locked
        BY <1>1, <1>4, <2>2 DEF Locked, Draining
      <3> QED BY <3>1, <3>2, WorkerFacts
    <2> QED BY <2>1, <2>2
  <1>9. wpc # "exit"
    BY <1>1 DEF Draining
  <1> QED BY <1>1, <1>2, <1>3, <1>6, <1>7, <1>8, <1>9, WorkerFacts, PlacesMoveInv

\* The requests of a batch that are not of the group it runs.
LEMMA RunGroupInv ==
  ASSUME QueueInv, RunGroup
  PROVE  QueueInv'
  <1> DEFINE InGroup(c) == Class[c] = Class[Head(batch)] /\ Stream[c] = Stream[Head(batch)]
             I == {i \in DOMAIN batch : ~InGroup(batch[i])}
             group == {c \in ToSet(batch) : InGroup(c)}
  <1>1. /\ wpc = "run" /\ running = {} /\ batch # << >>
        /\ running' = group \ ended /\ batch' = Subsequence(batch, I)
        /\ UNCHANGED <<encoding, mode, st, queue, lock, wpc, policy, deferred, responses, cpc>>
    BY DEF RunGroup
  <1>2. batch \in Seq(Clients) /\ I \in SUBSET DOMAIN batch /\ IsInjective(batch) /\ Len(batch) <= Limit
    BY WorkerFacts DEF OnePlace
  <1>3. /\ batch' \in Seq(Clients) /\ ToSet(batch') = {batch[i] : i \in I} /\ IsInjective(batch')
    BY <1>1, <1>2, SubsequenceRange
  <1>4. Len(batch') <= Limit
    <2>1. Len(batch') = Cardinality(I)
      BY <1>1, <1>2, SubsequenceFacts
    <2>2. IsFiniteSet(1..Len(batch)) /\ Cardinality(1..Len(batch)) = Len(batch) /\ Len(batch) \in Nat
      BY <1>2, FS_Interval
    <2>3. I \subseteq 1..Len(batch)
      BY <1>2
    <2>4. Cardinality(I) \in Nat /\ Cardinality(I) <= Len(batch)
      BY <2>2, <2>3, FS_Subset, FS_CardinalityType
    <2> QED BY <1>2, <2>1, <2>2, <2>4, ConstantFacts
  <1>5. /\ \A c \in ToSet(batch) : c \in group \/ c \in ToSet(batch')
        /\ group \subseteq ToSet(batch) /\ ToSet(batch') \subseteq ToSet(batch)
        /\ group \cap ToSet(batch') = {}
    <2>1. \A c \in ToSet(batch) : ~InGroup(c) => c \in ToSet(batch')
      BY <1>3 DEF ToSet
    <2>2. \A c \in ToSet(batch') : c \in ToSet(batch) /\ ~InGroup(c)
      BY <1>3 DEF ToSet
    <2> QED BY <2>1, <2>2
  <1>6. ToSet(batch) \subseteq Clients
    BY <1>2 DEF ToSet
  <1> HIDE DEF group, I
  <1>7. /\ running' \subseteq Clients /\ running' \cap ended = {}
    BY <1>1, <1>5, <1>6
  <1>8. WorkerStage'
    BY <1>1, WorkerFacts DEF WorkerStage, InSession
  <1>9. OnePlace'
    BY <1>1, <1>3, <1>5, WorkerFacts DEF OnePlace
  <1>10. \A c \in Clients : c \in Held' \cup ended <=> c \in Held \cup ended
    BY <1>1, <1>5 DEF Held
  <1> QED BY <1>1, <1>3, <1>4, <1>7, <1>8, <1>9, <1>10, WorkerFacts, PlacesMoveInv

LEMMA JoinInv ==
  ASSUME QueueInv, Join
  PROVE  QueueInv'
  <1>1. /\ wpc \in {"start", "join"} /\ wpc' = "ready" /\ batch' = << >>
        /\ running' = running \cup (ToSet(batch) \ ended)
        /\ UNCHANGED <<encoding, mode, st, queue, lock, policy, deferred, responses, cpc>>
    BY DEF Join
  <1>2. ToSet(batch) \subseteq Clients
    BY WorkerFacts DEF ToSet
  <1>3. batch' \in Seq(Clients) /\ Len(batch') <= Limit /\ ToSet(batch') = {} /\ IsInjective(batch')
    BY <1>1, EmptyFacts, ConstantFacts
  <1>4. running' \subseteq Clients /\ running' \cap ended = {}
    BY <1>1, <1>2, WorkerFacts
  <1>5. WorkerStage' /\ wpc' \in Stages \ {"exit"} /\ (wpc' \in Locked <=> wpc \in Locked) /\ wpc # "exit"
    BY <1>1, WorkerFacts DEF WorkerStage, InSession, Stages, Locked, Draining
  <1>6. OnePlace'
    BY <1>1, <1>3, WorkerFacts DEF OnePlace
  <1>7. \A c \in Clients : c \in Held' \cup ended <=> c \in Held \cup ended
    BY <1>1, <1>3 DEF Held
  <1> QED BY <1>1, <1>3, <1>4, <1>5, <1>6, <1>7, WorkerFacts, PlacesMoveInv

LEMMA BatchDoneInv ==
  ASSUME QueueInv, BatchDone
  PROVE  QueueInv'
  <1>1. /\ wpc = "run" /\ running = {} /\ batch = << >>
        /\ (wpc' = "next" /\ lock' = lock) \/ (wpc' = "get" /\ lock' = Free)
        /\ UNCHANGED <<encoding, mode, st, queue, batch, running, policy, deferred, responses, cpc>>
    BY DEF BatchDone
  <1>2. lock = Worker
    BY <1>1, WorkerFacts DEF Locked
  <1>3. /\ WorkerStage' /\ wpc' \in Stages \ {"exit"} /\ (wpc' \in Locked <=> lock' = Worker)
    BY <1>1, <1>2, WorkerFacts, ConstantFacts DEF WorkerStage, InSession, Stages, Locked, Draining
  <1>4. OnePlace' /\ Held' = Held
    BY <1>1, WorkerFacts DEF OnePlace, Held
  <1> QED BY <1>1, <1>2, <1>3, <1>4, WorkerFacts, PlacesMoveInv

\* A token goes to a running stream that may have one more.
LEMMA TokenInv ==
  ASSUME QueueInv, NEW c \in Clients, Token(c)
  PROVE  QueueInv'
  <1>1. /\ wpc \in {"run", "step"} /\ c \in running /\ sent[c] < MaxTokens[c]
        /\ sent' = [sent EXCEPT ![c] = sent[c] + 1]
        /\ unread' = [unread EXCEPT ![c] = unread[c] + 1]
        /\ wpc' \in IF wpc = "step" THEN {"step", "ready"} ELSE {"run"}
        /\ UNCHANGED <<encoding, mode, st, queue, lock, batch, running, policy, deferred, ended, cpc>>
    BY DEF Token, Generating
  <1>2. /\ sent' \in [Clients -> Nat] /\ unread' \in [Clients -> Nat]
        /\ \A d \in Clients : unread'[d] <= sent'[d] /\ sent'[d] <= MaxTokens[d]
    <2>1. \A d \in Clients : /\ sent'[d] = IF d = c THEN sent[c] + 1 ELSE sent[d]
                             /\ unread'[d] = IF d = c THEN unread[c] + 1 ELSE unread[d]
      BY <1>1, WorkerFacts
    <2>2. /\ sent[c] \in Nat /\ unread[c] \in Nat /\ MaxTokens[c] \in Nat
          /\ unread[c] <= sent[c]
      BY WorkerFacts, ConstantFacts
    <2>3. /\ sent[c] + 1 \in Nat /\ unread[c] + 1 \in Nat
          /\ unread[c] + 1 <= sent[c] + 1 /\ sent[c] + 1 <= MaxTokens[c]
      BY <1>1, <2>2
    <2>4. sent' \in [Clients -> Nat] /\ unread' \in [Clients -> Nat]
      BY <1>1, <2>3, WorkerFacts
    <2> QED BY <2>1, <2>3, <2>4, WorkerFacts
  <1>3. wpc' \in {"run", "step", "ready"} /\ (wpc = "run" <=> wpc' = "run")
    BY <1>1
  <1>4. WorkerStage' /\ wpc' \in Stages \ {"exit"} /\ (wpc' \in Locked <=> wpc \in Locked) /\ wpc # "exit"
    BY <1>1, <1>3, WorkerFacts DEF WorkerStage, InSession, Stages, Locked, Draining
  <1>5. OnePlace' /\ Held' = Held
    BY <1>1, WorkerFacts DEF OnePlace, Held
  <1> QED BY <1>1, <1>2, <1>4, <1>5, WorkerFacts, WorkerMoveInv

\* A step that gives last responses while the worker keeps the model.
LEMMA FinishMoveInv ==
  ASSUME QueueInv, NEW done \in SUBSET running,
         wpc \in {"run", "step"}, wpc' \in {"run", "step", "ready"}, wpc = "run" <=> wpc' = "run",
         running' = running \ done, ended' = ended \cup done, wpc' = "step" => running' # {},
         UNCHANGED <<encoding, mode, st, queue, lock, batch, policy, deferred, sent, unread, cpc>>
  PROVE  QueueInv'
  <1>1. done \subseteq running /\ running \subseteq Clients /\ ended \subseteq Clients /\ running \cap ended = {}
    BY WorkerFacts
  <1>2. running' \subseteq Clients /\ ended' \subseteq Clients /\ running' \cap ended' = {}
    BY <1>1
  <1>3. WorkerStage' /\ wpc' \in Stages \ {"exit"} /\ (wpc' \in Locked <=> wpc \in Locked) /\ wpc # "exit"
    BY <1>1, WorkerFacts DEF WorkerStage, InSession, Stages, Locked, Draining
  <1>4. OnePlace'
    BY <1>1, WorkerFacts DEF OnePlace
  <1>5. \A c \in Clients : c \in Held' \cup ended' <=> c \in Held \cup ended
    BY <1>1 DEF Held
  <1> QED BY <1>2, <1>3, <1>4, <1>5, WorkerFacts, WorkerMoveInv

LEMMA FinishInv ==
  ASSUME QueueInv, NEW c \in Clients, Finish(c)
  PROVE  QueueInv'
  <1>1. /\ wpc \in {"run", "step"} /\ c \in running
        /\ running' = running \ {c} /\ ended' = ended \cup {c}
        /\ wpc' \in IF wpc = "run" THEN {"run"} ELSE IF running = {c} THEN {"ready"} ELSE {"step", "ready"}
        /\ UNCHANGED <<encoding, mode, st, queue, lock, batch, policy, deferred, sent, unread, cpc>>
    BY DEF Finish, Generating
  <1>2. {c} \in SUBSET running /\ (wpc' = "step" => running' # {})
    BY <1>1
  <1>3. wpc' \in {"run", "step", "ready"} /\ (wpc = "run" <=> wpc' = "run")
    BY <1>1
  <1> QED BY <1>1, <1>2, <1>3, FinishMoveInv

LEMMA GroupRaisesInv ==
  ASSUME QueueInv, GroupRaises
  PROVE  QueueInv'
  <1>1. /\ wpc = "run" /\ wpc' = wpc /\ running' = {} /\ ended' = ended \cup running
        /\ UNCHANGED <<encoding, mode, st, queue, lock, batch, policy, deferred, sent, unread, cpc>>
    BY DEF GroupRaises
  <1>2. running \in SUBSET running /\ running' = running \ running
    BY <1>1
  <1> QED BY <1>1, <1>2, FinishMoveInv

\* The session is left: what it took is ended, and what it deferred is queued again.
LEMMA LeaveSessionInv ==
  ASSUME QueueInv, LeaveSession, wpc \in InSession \ {"enter"},
         ended \subseteq ended', ended' \subseteq ended \cup running \cup ToSet(batch) \cup ToSet(deferred),
         running \cup ToSet(batch) \subseteq ended'
  PROVE  QueueInv'
  <1>1. /\ queue' = queue \o deferred /\ deferred' = << >> /\ batch' = << >> /\ running' = {}
        /\ policy' = "none" /\ wpc' = "get" /\ lock' = Free
        /\ UNCHANGED <<encoding, mode, st, sent, unread, cpc>>
    BY DEF LeaveSession
  <1>2. wpc \in Locked /\ wpc # "exit" /\ lock = Worker
    BY WorkerFacts DEF Locked, InSession, Draining
  <1>3. ToSet(batch) \subseteq Clients /\ ToSet(deferred) \subseteq Clients
    BY WorkerFacts DEF ToSet
  <1>4. /\ queue' \in Seq(Clients \cup {Stop}) /\ ToSet(queue') = ToSet(queue) \cup ToSet(deferred)
        /\ IsInjective(queue')
    <2>1. queue \in Seq(Clients \cup {Stop}) /\ deferred \in Seq(Clients \cup {Stop})
      BY WorkerFacts
    <2> QED BY <1>1, <2>1, ConcatFacts, WorkerFacts DEF OnePlace
  <1>5. /\ batch' \in Seq(Clients) /\ deferred' \in Seq(Clients) /\ Len(batch') <= Limit
        /\ ToSet(batch') = {} /\ ToSet(deferred') = {} /\ IsInjective(batch') /\ IsInjective(deferred')
    BY <1>1, EmptyFacts, ConstantFacts
  <1>6. /\ WorkerStage' /\ wpc' \in Stages \ {"exit"} /\ ~(wpc' \in Locked) /\ lock' # Worker
    BY <1>1, ConstantFacts DEF WorkerStage, InSession, Stages, Locked, Draining
  <1>7. OnePlace'
    BY <1>1, <1>4, <1>5 DEF OnePlace
  <1>8. \A c \in Clients : c \in Held' \cup ended' <=> c \in Held \cup ended
    BY <1>1, <1>4, <1>5 DEF Held
  <1>9. ended' \subseteq Clients /\ running' \subseteq Clients /\ running' \cap ended' = {}
    BY <1>1, <1>3, WorkerFacts
  <1>10. Stop \in ToSet(queue') <=> Stop \in ToSet(queue)
    BY <1>3, <1>4, ConstantFacts
  <1> QED BY <1>1, <1>2, <1>4, <1>5, <1>6, <1>7, <1>8, <1>9, <1>10, WorkerFacts, WorkerMoveInv

LEMMA RejectInv ==
  ASSUME QueueInv, Reject
  PROVE  QueueInv'
  <1>1. wpc = "start" /\ ended' = ended \cup ToSet(batch) /\ LeaveSession
    BY DEF Reject
  <1>2. running = {} /\ wpc \in InSession \ {"enter"}
    BY <1>1, WorkerFacts DEF WorkerStage, InSession
  <1> QED BY <1>1, <1>2, LeaveSessionInv

LEMMA SessionRaisesInv ==
  ASSUME QueueInv, SessionRaises
  PROVE  QueueInv'
  <1>1. /\ wpc \in {"start", "join", "step"} /\ LeaveSession
        /\ ended' = ended \cup running \cup ToSet(batch) \cup ToSet(deferred)
    BY DEF SessionRaises
  <1>2. wpc \in InSession \ {"enter"}
    BY <1>1 DEF InSession
  <1> QED BY <1>1, <1>2, LeaveSessionInv

LEMMA IdleTimeoutInv ==
  ASSUME QueueInv, IdleTimeout
  PROVE  QueueInv'
  <1>1. wpc = "idle" /\ LeaveSession /\ ended' = ended
    BY DEF IdleTimeout
  <1>2. running = {} /\ batch = << >> /\ wpc \in InSession \ {"enter"}
    BY <1>1, WorkerFacts DEF WorkerStage, InSession
  <1> QED BY <1>1, <1>2, LeaveSessionInv, EmptyFacts

\* What an idle session takes from the head of the queue.
LEMMA IdleFacts ==
  ASSUME QueueInv, wpc = "idle", queue # << >>
  PROVE  /\ Tail(queue) \in Seq(Clients \cup {Stop}) /\ Head(queue) \in Clients \cup {Stop}
         /\ ToSet(queue) = {Head(queue)} \cup ToSet(Tail(queue))
         /\ IsInjective(Tail(queue)) /\ Head(queue) \notin ToSet(Tail(queue))
         /\ lock = Worker /\ running = {} /\ batch = << >> /\ policy # "none" /\ mode.online
         /\ Head(queue) \notin ToSet(deferred) /\ ToSet(Tail(queue)) \cap ToSet(deferred) = {}
  <1>1. /\ Tail(queue) \in Seq(Clients \cup {Stop}) /\ Head(queue) \in Clients \cup {Stop}
        /\ ToSet(queue) = {Head(queue)} \cup ToSet(Tail(queue))
        /\ IsInjective(Tail(queue)) /\ Head(queue) \notin ToSet(Tail(queue))
    BY WorkerFacts, TailFacts DEF OnePlace
  <1>2. /\ lock = Worker /\ running = {} /\ batch = << >> /\ policy # "none" /\ mode.online
    BY WorkerFacts DEF WorkerStage, InSession, Locked
  <1> QED BY <1>1, <1>2, WorkerFacts DEF OnePlace

LEMMA IdleTakeInv ==
  ASSUME QueueInv, IdleTake
  PROVE  QueueInv'
  <1> DEFINE first == Head(queue)
  <1>1. /\ wpc = "idle" /\ queue # << >> /\ first # Stop
        /\ queue' = Tail(queue) /\ batch' = <<first>> /\ wpc' = "join"
        /\ UNCHANGED <<encoding, mode, st, lock, running, policy, deferred, responses, cpc>>
    BY DEF IdleTake, StaysInSession
  <1>2. /\ queue' \in Seq(Clients \cup {Stop}) /\ first \in Clients
        /\ ToSet(queue) = {first} \cup ToSet(queue')
        /\ IsInjective(queue') /\ first \notin ToSet(queue') /\ first \notin ToSet(deferred)
        /\ lock = Worker /\ running = {} /\ batch = << >>
    BY <1>1, IdleFacts
  <1>3. /\ batch' \in Seq(Clients) /\ Len(batch') <= Limit /\ ToSet(batch') = {first}
        /\ batch' # << >> /\ IsInjective(batch')
    BY <1>1, <1>2, EmptyFacts, ConstantFacts
  <1>4. /\ WorkerStage' /\ wpc' \in Stages \ {"exit"} /\ wpc' \in Locked
    BY <1>1, <1>3, WorkerFacts DEF WorkerStage, InSession, Stages, Locked
  <1>5. OnePlace'
    <2>1. /\ IsInjective(queue') /\ IsInjective(batch') /\ IsInjective(deferred')
          /\ running' = {} /\ deferred' = deferred /\ ToSet(batch') = {first}
          /\ ToSet(queue') \cap ToSet(deferred) = {}
      BY <1>1, <1>2, <1>3, WorkerFacts DEF OnePlace
    <2> QED BY <1>2, <2>1 DEF OnePlace
  <1>6. \A c \in Clients : c \in Held' \cup ended <=> c \in Held \cup ended
    BY <1>1, <1>2, <1>3, EmptyFacts DEF Held
  <1> QED BY <1>1, <1>2, <1>3, <1>4, <1>5, <1>6, WorkerFacts, PlacesMoveInv

LEMMA IdleLeaveInv ==
  ASSUME QueueInv, IdleLeave
  PROVE  QueueInv'
  <1> DEFINE S == Clients \cup {Stop}
             first == Head(queue)
             kept == Tail(queue) \o deferred
             last == IF first = Stop THEN << >> ELSE <<first>>
  <1>1. /\ wpc = "idle" /\ queue # << >> /\ queue' = kept \o last
        /\ deferred' = << >> /\ policy' = "none" /\ wpc' = "get" /\ lock' = Free
        /\ UNCHANGED <<encoding, mode, st, batch, running, responses, cpc>>
    BY DEF IdleLeave
  <1>2. /\ Tail(queue) \in Seq(S) /\ first \in S /\ deferred \in Seq(S)
        /\ ToSet(queue) = {first} \cup ToSet(Tail(queue))
        /\ IsInjective(Tail(queue)) /\ first \notin ToSet(Tail(queue))
        /\ lock = Worker /\ running = {} /\ batch = << >> /\ mode.online
        /\ first \notin ToSet(deferred) /\ ToSet(Tail(queue)) \cap ToSet(deferred) = {}
        /\ IsInjective(deferred)
    BY <1>1, IdleFacts, WorkerFacts DEF OnePlace
  <1>3. kept \in Seq(S) /\ ToSet(kept) = ToSet(Tail(queue)) \cup ToSet(deferred) /\ IsInjective(kept)
    <2> DEFINE q == Tail(queue)
    <2>1. q \in Seq(S) /\ deferred \in Seq(S) /\ IsInjective(q) /\ IsInjective(deferred)
          /\ ToSet(q) \cap ToSet(deferred) = {}
      BY <1>2
    <2> HIDE DEF q, S
    <2>2. /\ q \o deferred \in Seq(S) /\ IsInjective(q \o deferred)
          /\ ToSet(q \o deferred) = ToSet(q) \cup ToSet(deferred)
      BY <2>1, ConcatFacts
    <2> QED BY <2>2 DEF q
  <1>4. /\ last \in Seq(S) /\ ToSet(last) = {first} \ {Stop} /\ IsInjective(last)
    <2>1. CASE first = Stop
      <3>1. last = << >> /\ {first} \ {Stop} = {}
        BY <2>1
      <3> HIDE DEF last
      <3> QED BY <3>1, EmptyFacts
    <2>2. CASE first # Stop
      <3>1. last = <<first>> /\ {first} \ {Stop} = {first}
        BY <2>2
      <3> HIDE DEF last, S
      <3> QED BY <1>2, <3>1, EmptyFacts
    <2> QED BY <2>1, <2>2
  <1> HIDE DEF kept, last
  <1>5. /\ queue' \in Seq(S) /\ ToSet(queue') = ToSet(kept) \cup ToSet(last) /\ IsInjective(queue')
    <2>1. ToSet(kept) \cap ToSet(last) = {}
      BY <1>2, <1>3, <1>4
    <2> QED BY <1>1, <1>3, <1>4, <2>1, ConcatFacts
  <1>6. ToSet(deferred) \subseteq Clients
    BY WorkerFacts DEF ToSet
  <1>7. /\ Stop \in ToSet(queue') => Stop \in ToSet(queue)
        /\ \A c \in Clients : c \in ToSet(queue') <=> c \in ToSet(queue) \cup ToSet(deferred)
    BY <1>2, <1>3, <1>4, <1>5, <1>6, ConstantFacts
  <1>8. /\ WorkerStage' /\ wpc' \in Stages \ {"exit"} /\ ~(wpc' \in Locked) /\ lock' # Worker
    BY <1>1, <1>2, ConstantFacts DEF WorkerStage, InSession, Stages, Locked, Draining
  <1>9. /\ deferred' \in Seq(Clients) /\ ToSet(deferred') = {} /\ IsInjective(deferred')
        /\ batch' = << >> /\ running' = {} /\ ToSet(batch') = {} /\ IsInjective(batch')
    BY <1>1, <1>2, EmptyFacts
  <1>10. OnePlace'
    BY <1>5, <1>9 DEF OnePlace
  <1>11. \A c \in Clients : c \in Held' \cup ended <=> c \in Held \cup ended
    BY <1>2, <1>7, <1>9, EmptyFacts DEF Held
  <1> QED BY <1>1, <1>2, <1>5, <1>7, <1>8, <1>9, <1>10, <1>11, WorkerFacts, ConstantFacts, PlacesMoveInv

LEMMA WorkerStepInv ==
  ASSUME QueueInv, WorkerStep
  PROVE  QueueInv'
  BY GetInv, LockInv, DrainOneInv, DrainEndInv, RunGroupInv, GroupRaisesInv, BatchDoneInv, TokenInv,
     FinishInv, RejectInv, SessionRaisesInv, JoinInv, IdleTakeInv, IdleLeaveInv, IdleTimeoutInv
     DEF WorkerStep

LEMMA ClientStepInv ==
  ASSUME QueueInv, NEW c \in Clients, Enter(c) \/ ClientStep(c)
  PROVE  QueueInv'
  BY EnterInv, EncodeInv, EncodeFailedInv, CheckAloneInv, TryLockInv, DirectTokenInv, DirectEndInv,
     SubmitInv, PutInv, ReceiveInv, ReceiveEndInv, ResumeInv, AbandonInv, ExitInv
     DEF ClientStep

-----------------------------------------------------------------------------
(* close(): it changes the queue only when no client is left.                *)

\* A step that leaves clients, worker, lock and responses alone.
LEMMA CloserMoveInv ==
  ASSUME QueueInv, UNCHANGED <<encoding, mode, st, lock, worker, responses>>,
         queue' \in Seq(Clients \cup {Stop}), IsInjective(queue'),
         ToSet(queue') \subseteq ToSet(queue) \cup {Stop}, ToSet(queue) \subseteq ToSet(queue'),
         cpc' \in {"open", "draining", "joining", "closed"}, SentinelKept'
  PROVE  QueueInv'
  <1>1. EncodingInv' /\ enc' = enc
    BY EncodingFromQueue, EncodingSame DEF encoding
  <1>2. TypeOK'
    BY <1>1 DEF QueueInv, TypeOK, EncodingInv, worker, responses, Draining
  <1>3. ModelLocked' /\ WorkerStage'
    BY DEF QueueInv, ModelLocked, WorkerStage, worker
  <1>4. RequestsKept'
    <2>1. \A c \in Clients : c \in ToSet(queue') <=> c \in ToSet(queue)
      BY ConstantFacts
    <2>2. \A c \in Clients : c \in Held' \cup ended' <=> c \in Held \cup ended
      BY <2>1 DEF Held, worker, responses
    <2>3. Stop \notin ToSet(batch) \cup ToSet(deferred) \cup running
      BY WorkerFacts, ConstantFacts DEF ToSet
    <2>4. OnePlace'
      BY <2>3 DEF QueueInv, RequestsKept, OnePlace, worker
    <2> QED BY <1>1, <2>2, <2>4 DEF QueueInv, RequestsKept, worker, responses
  <1> QED BY <1>1, <1>2, <1>3, <1>4 DEF QueueInv, EncodingInv

LEMMA SetClosedInv ==
  ASSUME QueueInv, SetClosed
  PROVE  QueueInv'
  <1>1. /\ cpc = "open" /\ cpc' = "draining"
        /\ UNCHANGED <<encoding, mode, st, queue, lock, worker, responses>>
    BY DEF SetClosed
  <1>2. SentinelKept'
    BY <1>1 DEF QueueInv, SentinelKept, worker
  <1> QED BY <1>1, <1>2, WorkerFacts, CloserMoveInv DEF OnePlace

LEMMA PutStopInv ==
  ASSUME QueueInv, PutStop
  PROVE  QueueInv'
  <1>1. /\ cpc = "draining" /\ live = {} /\ queue' = Append(queue, Stop) /\ cpc' = "joining"
        /\ UNCHANGED <<encoding, mode, st, lock, worker, responses>>
    BY DEF PutStop
  <1>2. Stop \notin ToSet(queue) /\ wpc # "exit"
    BY <1>1 DEF QueueInv, SentinelKept
  <1>3. /\ queue' \in Seq(Clients \cup {Stop}) /\ ToSet(queue') = ToSet(queue) \cup {Stop}
        /\ IsInjective(queue')
    <2>1. queue \in Seq(Clients \cup {Stop}) /\ Stop \in Clients \cup {Stop} /\ IsInjective(queue)
      BY WorkerFacts DEF OnePlace
    <2> QED BY <1>1, <1>2, <2>1, AppendFacts
  <1>4. live' = {}
    BY <1>1 DEF live
  <1>5. SentinelKept'
    BY <1>1, <1>2, <1>3, <1>4 DEF SentinelKept, worker
  <1> QED BY <1>1, <1>3, <1>5, CloserMoveInv

LEMMA JoinWorkerInv ==
  ASSUME QueueInv, JoinWorker
  PROVE  QueueInv'
  <1>1. /\ cpc = "joining" /\ wpc = "exit" /\ cpc' = "closed"
        /\ UNCHANGED <<encoding, mode, st, queue, lock, worker, responses>>
    BY DEF JoinWorker
  <1>2. live' = live
    BY <1>1 DEF live
  <1>3. SentinelKept'
    BY <1>1, <1>2 DEF QueueInv, SentinelKept, worker
  <1> QED BY <1>1, <1>3, WorkerFacts, CloserMoveInv DEF OnePlace

-----------------------------------------------------------------------------
(* The specification.                                                        *)

LEMMA EncodingInitInv ==
  ASSUME NEW limit \in Nat \ {0}, EncodingInit(limit)
  PROVE  EncodingInv
  <1>1. /\ jobLimit \in Nat \ {0} /\ leader = FALSE /\ pending = << >> /\ cached = << >> /\ inflight = {}
        /\ enc = [c \in Clients |-> "none"] /\ outcome = [c \in Clients |-> "none"]
    BY DEF EncodingInit
  <1>2. EncodingTypeOK
    <2>1. CacheSize \in Nat /\ Len(<< >>) = 0
      BY CompletionAssumption
    <2>2. cached \in Seq(Keys) /\ pending \in Seq(Clients) /\ Len(cached) <= CacheSize
      BY <1>1, <2>1
    <2> QED BY <1>1, <2>2 DEF EncodingTypeOK
  <1>3. OneEncoder
    BY <1>1, EmptyFacts DEF OneEncoder, Owns
  <1>4. JobsLed
    BY <1>1, EmptyFacts DEF JobsLed, Leads
  <1> QED BY <1>2, <1>3, <1>4 DEF EncodingInv

LEMMA InitQueueInv == Init => QueueInv
  <1> SUFFICES ASSUME Init PROVE QueueInv
    OBVIOUS
  <1>1. EncodingInv
    <2>1. mode.jobs \in Nat \ {0} /\ EncodingInit(mode.jobs)
      BY CompletionAssumption DEF Init
    <2> QED BY <2>1, EncodingInitInv
  <1>2. /\ mode \in Modes /\ st = [c \in Clients |-> "out"] /\ queue = << >> /\ lock = Free /\ cpc = "open"
        /\ wpc = "get" /\ batch = << >> /\ running = {} /\ policy = "none" /\ deferred = << >>
        /\ sent = [c \in Clients |-> 0] /\ unread = [c \in Clients |-> 0] /\ ended = {}
        /\ \A c \in Clients : enc[c] = "none"
    BY DEF Init, EncodingInit
  <1>3. TypeOK
    BY <1>1, <1>2, ConstantFacts, EmptyFacts DEF TypeOK, EncodingInv, Draining
  <1>4. ModelLocked /\ WorkerStage
    BY <1>2, ConstantFacts DEF ModelLocked, WorkerStage, InSession, Locked, Draining
  <1>5. OnePlace /\ Held = {}
    BY <1>2, EmptyFacts DEF OnePlace, Held
  <1>6. RequestsKept
    BY <1>2, <1>5 DEF RequestsKept
  <1>7. SentinelKept
    BY <1>2, EmptyFacts DEF SentinelKept
  <1> QED BY <1>1, <1>3, <1>4, <1>6, <1>7 DEF QueueInv, EncodingInv

LEMMA StutterQueueInv ==
  ASSUME QueueInv, UNCHANGED vars
  PROVE  QueueInv'
  <1>1. /\ UNCHANGED <<encoding, mode, st, lock, worker, responses>> /\ queue' = queue /\ cpc' = cpc
    BY DEF vars
  <1>2. SentinelKept'
    <2>1. live' = live
      BY <1>1 DEF live
    <2> QED BY <1>1, <2>1 DEF QueueInv, SentinelKept, worker
  <1>3. cpc' \in {"open", "draining", "joining", "closed"}
    BY <1>1 DEF QueueInv, TypeOK
  <1> QED BY <1>1, <1>2, <1>3, WorkerFacts, CloserMoveInv DEF OnePlace

LEMMA NextQueueInv == QueueInv /\ [Next]_vars => QueueInv'
  BY ClientStepInv, WorkerStepInv, SetClosedInv, PutStopInv, JoinWorkerInv, StutterQueueInv
     DEF Next, CloserStep

\* The safety of the completion engine: the inductive invariant of which the next
\* theorems are the parts (OpenAICompletionEngine, its worker and its sessions).
THEOREM CompletionSafety == Spec => []QueueInv
  BY InitQueueInv, NextQueueInv, PTL DEF Spec

\* Every variable keeps its type; a batch keeps its limit, the prompt cache its size,
\* and the worker generates only with the model lock (_batch_worker).
THEOREM CompletionTypes == Spec => []TypeOK
  <1>1. QueueInv => TypeOK
    BY DEF QueueInv
  <1> QED BY <1>1, CompletionSafety, PTL

\* Two clients never encode one prompt at once, and the cache lists a prompt once
\* (_encode_prompt and its in-flight table).
THEOREM OneClientEncodes == Spec => []OneEncoder
  <1>1. QueueInv => OneEncoder
    BY DEF QueueInv
  <1> QED BY <1>1, CompletionSafety, PTL

\* No batch of prompts waits without a client that encodes it (_encode_prompt_job).
THEOREM EveryJobIsLed == Spec => []JobsLed
  <1>1. QueueInv => JobsLed
    BY DEF QueueInv
  <1> QED BY <1>1, CompletionSafety, PTL

\* The model has one user: a client on the direct path, also while its stream is
\* suspended, or the worker (_model_lock).
THEOREM ModelHasOneUser == Spec => []ModelLocked
  <1>1. QueueInv => ModelLocked
    BY DEF QueueInv
  <1> QED BY <1>1, CompletionSafety, PTL

\* A request whose client waits is in one place until its last response: none is lost
\* or run twice between queue, batch, deferred ones and session (_generation_queue).
THEOREM RequestsAreKept == Spec => []RequestsKept
  <1>1. QueueInv => RequestsKept
    BY DEF QueueInv
  <1> QED BY <1>1, CompletionSafety, PTL

\* close() puts the sentinel when no client is left, and only an online session can
\* lose it before the worker exits (close, _batch_worker).
THEOREM SentinelIsKept == Spec => []SentinelKept
  <1>1. QueueInv => SentinelKept
    BY DEF QueueInv
  <1> QED BY <1>1, CompletionSafety, PTL

\* No token follows the last response of a request, whatever still lists it: the
\* direct path, a batch that runs it again, or a session (request.done).
THEOREM EndedStaysEnded == Spec => EndedIsFinal
  <1> DEFINE Final == \A c \in ended : c \in ended' /\ sent'[c] = sent[c] /\ unread'[c] <= unread[c]
  <1>1. ASSUME QueueInv, [Next]_vars
        PROVE  Final
    <2> SUFFICES ASSUME NEW c \in ended
                 PROVE  c \in ended' /\ sent'[c] = sent[c] /\ unread'[c] <= unread[c]
      OBVIOUS
    <2>1. /\ c \in Clients /\ c \notin running /\ sent[c] \in Nat /\ unread[c] \in Nat
          /\ st[c] \in {"waiting", "reading", "gone"}
          /\ sent \in [Clients -> Nat] /\ unread \in [Clients -> Nat]
      BY <1>1, WorkerFacts, ClientFacts DEF Held
    <2>2. CASE UNCHANGED responses
      BY <2>1, <2>2 DEF responses
    <2>3. ASSUME NEW d \in Clients, DirectToken(d)
          PROVE  c \in ended' /\ sent'[c] = sent[c] /\ unread'[c] <= unread[c]
      <3>1. d # c /\ sent' = [sent EXCEPT ![d] = @ + 1] /\ unread' = unread /\ ended' = ended
        BY <2>1, <2>3 DEF DirectToken
      <3> QED BY <2>1, <3>1
    <2>4. ASSUME NEW d \in Clients, Receive(d)
          PROVE  c \in ended' /\ sent'[c] = sent[c] /\ unread'[c] <= unread[c]
      <3>1. PICK n \in 1..unread[d] : unread' = [unread EXCEPT ![d] = @ - n]
        BY <2>4 DEF Receive
      <3>2. sent' = sent /\ ended' = ended
        BY <2>4 DEF Receive
      <3>3. unread'[c] = IF c = d THEN unread[c] - n ELSE unread[c]
        BY <2>1, <3>1
      <3>4. unread'[c] <= unread[c]
        BY <2>1, <3>3
      <3> QED BY <3>2, <3>4
    <2>5. ASSUME NEW d \in Clients, Token(d)
          PROVE  c \in ended' /\ sent'[c] = sent[c] /\ unread'[c] <= unread[c]
      <3>1. /\ d # c /\ sent' = [sent EXCEPT ![d] = @ + 1] /\ unread' = [unread EXCEPT ![d] = @ + 1]
            /\ ended' = ended
        BY <2>1, <2>5 DEF Token
      <3> QED BY <2>1, <3>1
    <2>6. CASE ended \subseteq ended' /\ sent' = sent /\ unread' = unread
      BY <2>1, <2>6
    <2>7. ASSUME NEW d \in Clients, Enter(d) \/ ClientStep(d)
          PROVE  UNCHANGED responses \/ DirectToken(d) \/ Receive(d)
      BY <2>7 DEF Enter, ClientStep, Encode, EncodeFailed, CheckAlone, TryLock, DirectEnd, Submit, Put,
                  ReceiveEnd, Resume, Abandon, Exit, responses
    <2>8. ASSUME WorkerStep
          PROVE  \/ UNCHANGED responses \/ \E d \in Clients : Token(d)
                 \/ ended \subseteq ended' /\ sent' = sent /\ unread' = unread
      BY <2>8 DEF WorkerStep, Get, Lock, DrainOne, DrainEnd, RunGroup, GroupRaises, BatchDone, Finish,
                  Reject, SessionRaises, LeaveSession, Join, IdleTake, IdleLeave, IdleTimeout, responses
    <2>9. ASSUME SetClosed \/ CloserStep \/ UNCHANGED vars
          PROVE  UNCHANGED responses
      BY <2>9 DEF SetClosed, CloserStep, PutStop, JoinWorker, vars
    <2> QED BY <1>1, <2>2, <2>3, <2>4, <2>5, <2>6, <2>7, <2>8, <2>9 DEF Next
  <1>2. QueueInv /\ [Next]_vars => [Final]_vars
    BY <1>1
  <1> QED BY <1>2, CompletionSafety, PTL DEF EndedIsFinal, Spec
=============================================================================
