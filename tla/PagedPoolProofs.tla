--------------------------- MODULE PagedPoolProofs ---------------------------
(***************************************************************************)
(* The page pool keeps exact reference counts, for every finite pool, every *)
(* finite set of owners and every order of the free list.                   *)
(***************************************************************************)
EXTENDS PagedPool, FiniteSetTheorems, TLAPS

\* Referrers is finite, so that its cardinality can be counted up and down.
LEMMA ReferrersFinite == \A p \in Pages : IsFiniteSet(Referrers(p))
  BY OwnersAssumption, FS_Subset DEF Referrers

\* The pages a reservation takes: distinct, free, and as many as asked for.
LEMMA PicksFacts ==
  ASSUME TypeOK, NEW k \in Nat, NEW f \in Picks(k)
  PROVE  /\ f \in Seq(Pages)
         /\ Len(f) = k
         /\ Range(f) \subseteq free
         /\ IsInjective(f)
  <1>1. f \in [1..k -> free] /\ IsInjective(f)
    BY DEF Picks, Injection
  <1>2. f \in [1..k -> Pages]
    BY <1>1 DEF TypeOK
  <1>3. f \in Seq(Pages) /\ Len(f) = k
    BY <1>2
  <1>4. Range(f) \subseteq free
    BY <1>1 DEF Range
  <1>5. QED
    BY <1>1, <1>3, <1>4

\* What appending free pages to a table does to the set of pages it lists.
LEMMA AppendRange ==
  ASSUME NEW s \in Seq(Pages), NEW t \in Seq(Pages)
  PROVE  Range(s \o t) = Range(s) \cup Range(t)
  <1>1. ASSUME NEW x \in Range(s \o t)
        PROVE  x \in Range(s) \cup Range(t)
    <2>1. PICK i \in 1..(Len(s) + Len(t)) : x = (s \o t)[i]
      BY <1>1 DEF Range
    <2>2. CASE i <= Len(s)
      BY <2>1, <2>2 DEF Range
    <2>3. CASE i > Len(s)
      <3>1. x = t[i - Len(s)] /\ i - Len(s) \in 1..Len(t)
        BY <2>1, <2>3
      <3>2. QED
        BY <3>1 DEF Range
    <2>4. QED
      BY <2>1, <2>2, <2>3
  <1>2. ASSUME NEW x \in Range(s)
        PROVE  x \in Range(s \o t)
    <2>1. PICK i \in 1..Len(s) : x = s[i]
      BY <1>2 DEF Range
    <2>2. i \in 1..(Len(s) + Len(t)) /\ (s \o t)[i] = s[i]
      BY <2>1
    <2>3. QED
      BY <2>1, <2>2 DEF Range
  <1>3. ASSUME NEW x \in Range(t)
        PROVE  x \in Range(s \o t)
    <2>1. PICK i \in 1..Len(t) : x = t[i]
      BY <1>3 DEF Range
    <2>2. i + Len(s) \in 1..(Len(s) + Len(t)) /\ (s \o t)[i + Len(s)] = t[i]
      BY <2>1
    <2>3. QED
      BY <2>1, <2>2 DEF Range
  <1>4. QED
    BY <1>1, <1>2, <1>3

LEMMA AppendInjective ==
  ASSUME NEW s \in Seq(Pages), NEW t \in Seq(Pages),
         IsInjective(s), IsInjective(t), Range(s) \cap Range(t) = {}
  PROVE  IsInjective(s \o t)
  <1> SUFFICES ASSUME NEW i \in 1..(Len(s) + Len(t)), NEW j \in 1..(Len(s) + Len(t)),
                      (s \o t)[i] = (s \o t)[j]
               PROVE  i = j
    BY DEF IsInjective
  <1>1. CASE i <= Len(s) /\ j <= Len(s)
    BY <1>1 DEF IsInjective
  <1>2. CASE i > Len(s) /\ j > Len(s)
    <2>1. /\ i - Len(s) \in 1..Len(t) /\ j - Len(s) \in 1..Len(t)
          /\ t[i - Len(s)] = t[j - Len(s)]
      BY <1>2
    <2>2. i - Len(s) = j - Len(s)
      BY <2>1 DEF IsInjective
    <2>3. QED
      BY <2>2
  <1>3. CASE i <= Len(s) /\ j > Len(s)
    <2>1. i \in 1..Len(s) /\ j - Len(s) \in 1..Len(t) /\ s[i] = t[j - Len(s)]
      BY <1>3
    <2>2. QED
      BY <2>1 DEF Range
  <1>4. CASE i > Len(s) /\ j <= Len(s)
    <2>1. j \in 1..Len(s) /\ i - Len(s) \in 1..Len(t) /\ s[j] = t[i - Len(s)]
      BY <1>4
    <2>2. QED
      BY <2>1 DEF Range
  <1>5. QED
    BY <1>1, <1>2, <1>3, <1>4

-----------------------------------------------------------------------------
\* A reservation, complete or cut short by an empty pool, preserves PoolInv.
LEMMA GrowInv ==
  ASSUME PoolInv, NEW o \in Owners, NEW k \in Nat, NEW f \in Picks(k), Grow(o, f)
  PROVE  PoolInv'
  <1>1. TypeOK /\ f \in Seq(Pages) /\ Range(f) \subseteq free /\ IsInjective(f)
    BY PicksFacts DEF PoolInv
  <1>2. TypeOK'
    BY <1>1 DEF TypeOK, Grow
  <1>3. table[o] \in Seq(Pages) /\ table'[o] = table[o] \o f
        /\ \A q \in Owners \ {o} : table'[q] = table[q]
    BY <1>1 DEF TypeOK, Grow
  <1>4. Held(o)' = Held(o) \cup Range(f) /\ \A q \in Owners \ {o} : Held(q)' = Held(q)
    BY <1>1, <1>3, AppendRange DEF Held
  <1>5. \A p \in Range(f) : refcount[p] = 0 /\ Referrers(p) = {}
    <2>1. \A p \in Range(f) : refcount[p] = 0 /\ p \in Pages
      BY <1>1 DEF PoolInv, FreeExact, TypeOK
    <2>2. QED
      BY <2>1, ReferrersFinite, FS_EmptySet DEF PoolInv, RefcountExact
  <1>6. RefcountExact'
    <2> SUFFICES ASSUME NEW p \in Pages
                 PROVE  refcount'[p] = Cardinality(Referrers(p)')
      BY DEF RefcountExact
    <2>1. CASE p \in Range(f)
      <3>1. Referrers(p)' = {o}
        BY <1>4, <1>5, <2>1 DEF Referrers
      <3>2. Cardinality({o}) = 1
        BY FS_Singleton
      <3>3. QED
        BY <2>1, <3>1, <3>2 DEF Grow
    <2>2. CASE p \notin Range(f)
      <3>1. Referrers(p)' = Referrers(p)
        BY <1>4, <2>2 DEF Referrers
      <3>2. QED
        BY <2>2, <3>1 DEF Grow, PoolInv, RefcountExact
    <2>3. QED
      BY <2>1, <2>2
  <1>7. FreeExact'
    BY <1>1 DEF PoolInv, FreeExact, TypeOK, Grow
  <1>8. NoPageTwice'
    <2>1. Held(o) \cap Range(f) = {}
      BY <1>5 DEF Referrers
    <2>2. IsInjective(table'[o])
      BY <1>1, <1>3, <2>1, AppendInjective DEF PoolInv, NoPageTwice, Held
    <2>3. QED
      BY <1>3, <2>2 DEF PoolInv, NoPageTwice
  <1>9. QED
    BY <1>2, <1>6, <1>7, <1>8 DEF PoolInv

\* Sharing the first pages of a table adds one referrer to each of them.
LEMMA AliasInv ==
  ASSUME PoolInv, NEW src \in Owners, NEW dst \in Owners, NEW k \in Nat, Alias(src, dst, k)
  PROVE  PoolInv'
  <1> DEFINE shared == SubSeq(table[src], 1, k)
  <1>1. TypeOK /\ table[src] \in Seq(Pages) /\ k \in 1..Len(table[src]) /\ table[dst] = << >>
    BY DEF PoolInv, TypeOK, Alias
  <1>2. /\ shared \in Seq(Pages) /\ Len(shared) = k
        /\ \A i \in 1..k : shared[i] = table[src][i]
    BY <1>1
  <1>3. Range(shared) \subseteq Held(src) /\ IsInjective(shared)
    <2>1. IsInjective(table[src])
      BY DEF PoolInv, NoPageTwice
    <2>2. Range(shared) \subseteq Held(src)
      BY <1>1, <1>2 DEF Range, Held
    <2>3. IsInjective(shared)
      BY <1>1, <1>2, <2>1 DEF IsInjective
    <2>4. QED
      BY <2>2, <2>3
  <1>4. /\ table' = [table EXCEPT ![dst] = shared] /\ free' = free
        /\ refcount' = [p \in Pages |-> IF p \in Range(shared) THEN refcount[p] + 1 ELSE refcount[p]]
    BY DEF Alias
  <1> HIDE DEF shared
  <1>5. TypeOK'
    BY <1>1, <1>2, <1>4 DEF TypeOK
  <1>6. Held(dst) = {} /\ Held(dst)' = Range(shared)
        /\ \A q \in Owners \ {dst} : Held(q)' = Held(q)
    BY <1>1, <1>4 DEF TypeOK, Held, Range
  <1>7. RefcountExact'
    <2> SUFFICES ASSUME NEW p \in Pages
                 PROVE  refcount'[p] = Cardinality(Referrers(p)')
      BY DEF RefcountExact
    <2>1. refcount[p] = Cardinality(Referrers(p)) /\ dst \notin Referrers(p)
      BY <1>6 DEF PoolInv, RefcountExact, Referrers
    <2>2. CASE p \in Range(shared)
      <3>1. Referrers(p)' = Referrers(p) \cup {dst}
        BY <1>6, <2>2 DEF Referrers
      <3>2. Cardinality(Referrers(p) \cup {dst}) = Cardinality(Referrers(p)) + 1
        BY <2>1, ReferrersFinite, FS_AddElement
      <3>3. QED
        BY <1>4, <2>1, <2>2, <3>1, <3>2
    <2>3. CASE p \notin Range(shared)
      <3>1. Referrers(p)' = Referrers(p)
        BY <1>6, <2>3 DEF Referrers
      <3>2. QED
        BY <1>4, <2>1, <2>3, <3>1
    <2>4. QED
      BY <2>2, <2>3
  <1>8. FreeExact'
    <2>1. \A p \in Range(shared) : refcount[p] # 0
      <3>1. \A p \in Range(shared) : p \in Pages /\ src \in Referrers(p)
        BY <1>2, <1>3 DEF Range, Referrers
      <3>2. QED
        BY <3>1, ReferrersFinite, FS_EmptySet DEF PoolInv, RefcountExact
    <2>2. QED
      BY <1>1, <1>4, <2>1 DEF PoolInv, FreeExact, TypeOK
  <1>9. NoPageTwice'
    BY <1>1, <1>3, <1>4 DEF PoolInv, NoPageTwice, TypeOK
  <1>10. QED
    BY <1>5, <1>7, <1>8, <1>9 DEF PoolInv

\* Releasing a table drops one referrer of each page and frees the orphans.
LEMMA ReleaseInv ==
  ASSUME PoolInv, NEW o \in Owners, Release(o)
  PROVE  PoolInv'
  <1>1. TypeOK /\ table[o] \in Seq(Pages) /\ Held(o) \subseteq Pages
    BY DEF PoolInv, TypeOK, Held, Range
  <1>2. TypeOK'
    BY <1>1 DEF TypeOK, Release
  <1>3. Held(o)' = {} /\ \A q \in Owners \ {o} : Held(q)' = Held(q)
    BY <1>1 DEF TypeOK, Held, Range, Release
  <1>4. RefcountExact' /\ \A p \in Held(o) : refcount[p] >= 1
    <2> SUFFICES ASSUME NEW p \in Pages
                 PROVE  /\ refcount'[p] = Cardinality(Referrers(p)')
                        /\ p \in Held(o) => refcount[p] >= 1
      BY <1>1 DEF RefcountExact
    <2>1. refcount[p] = Cardinality(Referrers(p)) /\ IsFiniteSet(Referrers(p)) /\ refcount[p] \in Nat
      BY ReferrersFinite, <1>1 DEF PoolInv, RefcountExact, TypeOK
    <2>2. CASE p \in Held(o)
      <3>1. o \in Referrers(p) /\ Referrers(p)' = Referrers(p) \ {o}
        BY <1>3, <2>2 DEF Referrers
      <3>2. Cardinality(Referrers(p) \ {o}) = Cardinality(Referrers(p)) - 1
        BY <2>1, <3>1, FS_RemoveElement
      <3>3. refcount[p] # 0
        BY <2>1, <3>1, FS_EmptySet
      <3>4. QED
        BY <2>1, <2>2, <3>1, <3>2, <3>3 DEF Release
    <2>3. CASE p \notin Held(o)
      <3>1. Referrers(p)' = Referrers(p)
        BY <1>3, <2>3 DEF Referrers
      <3>2. QED
        BY <2>1, <2>3, <3>1 DEF Release
    <2>4. QED
      BY <2>2, <2>3
  <1>5. FreeExact'
    BY <1>1, <1>4 DEF PoolInv, FreeExact, TypeOK, Release
  <1>6. NoPageTwice'
    BY <1>1 DEF PoolInv, NoPageTwice, TypeOK, Release, IsInjective
  <1>7. QED
    BY <1>2, <1>4, <1>5, <1>6 DEF PoolInv

-----------------------------------------------------------------------------
\* Every operation of the pool preserves PoolInv.
LEMMA PoolStep == PoolInv /\ [Next]_poolVars => PoolInv'
  <1> SUFFICES ASSUME PoolInv, [Next]_poolVars
               PROVE  PoolInv'
    OBVIOUS
  <1>1. ASSUME NEW o \in Owners, NEW n \in 1..MaxTable, Reserve(o, n)
        PROVE  PoolInv'
    <2>1. Missing(o, n) \in Nat
      BY MaxTableAssumption DEF Missing, PoolInv, TypeOK
    <2>2. QED
      BY <1>1, <2>1, GrowInv DEF Reserve
  <1>2. ASSUME NEW o \in Owners, NEW n \in 1..MaxTable, ReserveOutOfPages(o, n)
        PROVE  PoolInv'
    <2>1. Cardinality(free) \in Nat
      BY PagesAssumption, FS_Subset, FS_CardinalityType DEF PoolInv, TypeOK
    <2>2. QED
      BY <1>2, <2>1, GrowInv DEF ReserveOutOfPages
  <1>3. ASSUME NEW src \in Owners, NEW dst \in Owners, NEW k \in 1..MaxTable, Alias(src, dst, k)
        PROVE  PoolInv'
    BY <1>3, AliasInv, MaxTableAssumption
  <1>4. ASSUME NEW o \in Owners, Release(o)
        PROVE  PoolInv'
    BY <1>4, ReleaseInv
  <1>5. CASE UNCHANGED poolVars
    BY <1>5 DEF poolVars, PoolInv, TypeOK, RefcountExact, FreeExact, NoPageTwice, Referrers, Held
  <1>6. QED
    BY <1>1, <1>2, <1>3, <1>4, <1>5 DEF Next

\* LayeredPagedKVCache keeps exact counts: in every reachable state a page is
\* counted once per block table or cache entry that lists it, it is free exactly
\* when nobody lists it, and no table lists a page twice.
THEOREM PoolSafety == Spec => []PoolInv
  <1>1. Init => PoolInv
    <2> SUFFICES ASSUME Init PROVE PoolInv
      OBVIOUS
    <2>1. TypeOK
      BY DEF Init, TypeOK
    <2>2. \A p \in Pages : Referrers(p) = {}
      BY DEF Init, Referrers, Held, Range
    <2>3. RefcountExact
      BY <2>2, FS_EmptySet DEF Init, RefcountExact
    <2>4. FreeExact /\ NoPageTwice
      BY DEF Init, FreeExact, NoPageTwice, IsInjective
    <2>5. QED
      BY <2>1, <2>3, <2>4 DEF PoolInv
  <1>2. PoolInv /\ [Next]_poolVars => PoolInv'
    BY PoolStep
  <1>3. QED
    BY <1>1, <1>2, PTL DEF Spec

-----------------------------------------------------------------------------
\* _page_refcount never goes below 0, and block tables list pages of the pool.
THEOREM PoolTypes == Spec => []TypeOK
  <1>1. PoolInv => TypeOK
    BY DEF PoolInv
  <1>2. QED
    BY <1>1, PoolSafety, PTL

\* A page's count is the number of tables and entries that list it: release
\* never hands a page on while somebody reads it, and never loses one.
THEOREM CountsExact == Spec => []RefcountExact
  <1>1. PoolInv => RefcountExact
    BY DEF PoolInv
  <1>2. QED
    BY <1>1, PoolSafety, PTL

\* The free list holds exactly the pages with count 0.
THEOREM FreeListExact == Spec => []FreeExact
  <1>1. PoolInv => FreeExact
    BY DEF PoolInv
  <1>2. QED
    BY <1>1, PoolSafety, PTL

\* A block table never lists a page twice, which free() relies on when it
\* decrements once per listed page without deduplicating.
THEOREM TablesInjective == Spec => []NoPageTwice
  <1>1. PoolInv => NoPageTwice
    BY DEF PoolInv
  <1>2. QED
    BY <1>1, PoolSafety, PTL

=============================================================================
