--------------------------- MODULE CowPagesProofs ---------------------------
(***************************************************************************)
(* The copy-on-write pages keep exact reference counts, cover every length *)
(* and implement a store of independent sequences, for every pool, every   *)
(* page size and every set of requests and values.                         *)
(***************************************************************************)
EXTENDS CowPages, FiniteSetTheorems, SequenceTheorems, TLAPS

-----------------------------------------------------------------------------
\* Positions and pages.  Position q of a sequence is slot q % PageSize of page
\* q \div PageSize, counted from 0.

\* Pages hold at least one token.
LEMMA PageSizePositive == PageSize \in Nat /\ PageSize > 0
  BY CowAssumption

\* A position is its page times the page size plus its offset.
LEMMA Split ==
  ASSUME NEW q \in Nat
  PROVE  /\ q \div PageSize \in Nat /\ q % PageSize \in 0..PageSize - 1
         /\ q = (q \div PageSize) * PageSize + (q % PageSize)
  BY PageSizePositive

\* Positions of one page differ as their offsets do.
LEMMA SamePage ==
  ASSUME NEW q \in Nat, NEW d \in Nat, (q % PageSize) + d < PageSize
  PROVE  (q + d) \div PageSize = q \div PageSize /\ (q + d) % PageSize = (q % PageSize) + d
  <1> DEFINE k == q \div PageSize
             o == (q % PageSize) + d
  <1>1. k \in Nat /\ o \in 0..PageSize - 1 /\ q + d = k * PageSize + o
    BY Split, PageSizePositive
  <1> HIDE DEF k, o
  <1>2. (k * PageSize + o) \div PageSize = k /\ (k * PageSize + o) % PageSize = o
    BY <1>1, PageSizePositive
  <1>3. QED
    BY <1>1, <1>2 DEF k, o

\* A position below k pages is on one of them.
LEMMA PageBelow ==
  ASSUME NEW q \in Nat, NEW k \in Nat, q < k * PageSize
  PROVE  q \div PageSize + 1 \in 1..k
  BY PageSizePositive

\* Ceil(n) pages hold n tokens, ...
LEMMA CeilCovers ==
  ASSUME NEW n \in Nat
  PROVE  Ceil(n) \in Nat /\ n <= Ceil(n) * PageSize
  BY PageSizePositive DEF Ceil

\* ... no fewer pages do, ...
LEMMA CeilFits ==
  ASSUME NEW n \in Nat, NEW k \in Nat, n <= k * PageSize
  PROVE  Ceil(n) <= k
  BY PageSizePositive DEF Ceil

\* ... and any more do too.
LEMMA Covers ==
  ASSUME NEW n \in Nat, NEW k \in Nat, Ceil(n) <= k
  PROVE  n <= k * PageSize
  <1>1. Ceil(n) \in Nat /\ n <= Ceil(n) * PageSize
    BY CeilCovers
  <1>2. Ceil(n) * PageSize <= k * PageSize
    BY <1>1, PageSizePositive
  <1>3. QED
    BY <1>1, <1>2, PageSizePositive

-----------------------------------------------------------------------------
\* The inductive invariant.

\* Position q (from 0) of the sequence whose table is pages, in these tensors.
SlotIn(pages, tensors, q) == tensors[pages[q \div PageSize + 1]][q % PageSize]
Slot(r, q) == SlotIn(table[r], kv, q)

\* An append under way has something to add and fits; it writes only once its
\* table is long enough.
OpOK ==
  \/ Idle
  \/ /\ op \in [rid : known, toks : Seq(Values), taken : Nat]
     /\ op.toks # << >> /\ op.taken <= Len(op.toks)
     /\ length[op.rid] + Len(op.toks) <= MaxLen
     /\ op.taken > 0 => ~Short

\* Requests without a sequence hold nothing.
UnknownEmpty == \A r \in Requests \ known : table[r] = << >> /\ length[r] = 0

\* What the append has written stands behind the sequence.
Written ==
  ~Idle => \A i \in 1..op.taken : Slot(op.rid, length[op.rid] + i - 1) = op.toks[i]

Bookkeeping == TypeOK /\ OpOK /\ UnknownEmpty /\ RefcountExact /\ LengthCovered

CowInv == Bookkeeping /\ Written

\* The requests whose table lists a page.
Referrers(p) == {r \in Requests : p \in Range(table[r])}

\* Few enough requests list a page to count them.
LEMMA ReferrersFinite == \A p : IsFiniteSet(Referrers(p))
  BY CowAssumption, FS_Subset DEF Referrers

\* A page nobody lists.
LEMMA FreePages ==
  ASSUME TypeOK, RefcountExact, NEW p \in free
  PROVE  p \in Pages /\ refcount[p] = 0 /\ Referrers(p) = {}
  BY ReferrersFinite, FS_EmptySet DEF TypeOK, RefcountExact, Referrers

\* Where the append stands: inside its table, and the rest of the page takes the chunk.
LEMMA ChunkFacts ==
  ASSUME Bookkeeping, Writing
  PROVE  /\ op \in [rid : known, toks : Seq(Values), taken : Nat] /\ op.rid \in Requests
         /\ table[op.rid] \in Seq(Pages) /\ length[op.rid] \in Nat
         /\ Position \in Nat /\ Offset \in 0..PageSize - 1
         /\ Take \in 1..Len(op.toks) - op.taken /\ Offset + Take <= PageSize
         /\ PageIndex \in 1..Len(table[op.rid]) /\ Current \in Pages
         /\ op.rid \in Referrers(Current)
         /\ length[op.rid] + Len(op.toks) <= Len(table[op.rid]) * PageSize
  <1>1. /\ op \in [rid : known, toks : Seq(Values), taken : Nat] /\ op.rid \in Requests
        /\ table[op.rid] \in Seq(Pages) /\ length[op.rid] \in Nat
        /\ op.taken < Len(op.toks)
    BY CowAssumption DEF Bookkeeping, TypeOK, OpOK, Writing
  <1>2. Position \in Nat
    BY <1>1 DEF Position
  <1>3. Offset \in 0..PageSize - 1
    BY <1>2, Split DEF Offset
  <1>4. Take \in 1..Len(op.toks) - op.taken /\ Offset + Take <= PageSize
    BY <1>1, <1>3, PageSizePositive DEF Take
  <1>5. length[op.rid] + Len(op.toks) <= Len(table[op.rid]) * PageSize
    <2>1. length[op.rid] + Len(op.toks) \in Nat /\ Len(table[op.rid]) \in Nat
      BY <1>1
    <2>2. Ceil(length[op.rid] + Len(op.toks)) <= Len(table[op.rid])
      BY <2>1, CeilCovers DEF Writing, Short
    <2>3. QED
      BY <2>1, <2>2, Covers
  <1>6. PageIndex \in 1..Len(table[op.rid])
    <2>1. Position < Len(table[op.rid]) * PageSize
      BY <1>1, <1>5, PageSizePositive DEF Position
    <2>2. QED
      BY <1>1, <1>2, <2>1, PageBelow DEF PageIndex
  <1>7. Current \in Pages /\ Current \in Range(table[op.rid])
    BY <1>1, <1>6 DEF Current, Range
  <1>8. QED
    BY <1>1, <1>2, <1>3, <1>4, <1>5, <1>6, <1>7 DEF Referrers

\* A page with the chunk in it is a page.
LEMMA ChunkType ==
  ASSUME Bookkeeping, Writing, NEW page \in [0..PageSize - 1 -> Values \cup {Unset}]
  PROVE  Chunk(page) \in [0..PageSize - 1 -> Values \cup {Unset}]
  <1> SUFFICES ASSUME NEW o \in 0..PageSize - 1, o \in Offset .. (Offset + Take - 1)
               PROVE  op.toks[op.taken + 1 + (o - Offset)] \in Values
    BY PageSizePositive DEF Chunk
  <1>1. /\ op \in [rid : known, toks : Seq(Values), taken : Nat]
        /\ Offset \in Nat /\ Take \in 1..Len(op.toks) - op.taken
    BY ChunkFacts, PageSizePositive
  <1>2. op.taken + 1 + (o - Offset) \in 1..Len(op.toks)
    BY <1>1
  <1>3. QED
    BY <1>1, <1>2

-----------------------------------------------------------------------------
\* What the changes of a table do to the pages it lists.

\* A page appended to a table that did not list it.
LEMMA AppendPage ==
  ASSUME NEW s \in Seq(Pages), NEW p \in Pages, p \notin Range(s), IsInjective(s)
  PROVE  /\ Append(s, p) \in Seq(Pages) /\ Len(Append(s, p)) = Len(s) + 1
         /\ Range(Append(s, p)) = Range(s) \cup {p} /\ IsInjective(Append(s, p))
  <1> DEFINE t == Append(s, p)
  <1>1. /\ t \in Seq(Pages) /\ Len(t) = Len(s) + 1 /\ t[Len(s) + 1] = p
        /\ \A i \in 1..Len(s) : t[i] = s[i]
    OBVIOUS
  <1> HIDE DEF t
  <1>2. DOMAIN t = 1..Len(s) + 1 /\ DOMAIN s = 1..Len(s) /\ Len(s) \in Nat
    BY <1>1
  <1>3. Range(t) = Range(s) \cup {p}
    <2>1. Range(t) \subseteq Range(s) \cup {p}
      BY <1>1, <1>2 DEF Range
    <2>2. \A i \in 1..Len(s) : s[i] \in Range(t)
      BY <1>1, <1>2 DEF Range
    <2>3. p \in Range(t)
      BY <1>1, <1>2 DEF Range
    <2>4. QED
      BY <1>2, <2>1, <2>2, <2>3 DEF Range
  <1>4. IsInjective(t)
    <2>1. \A i \in 1..Len(s) : t[i] # p
      BY <1>1, <1>2 DEF Range
    <2>2. QED
      BY <1>1, <1>2, <2>1 DEF IsInjective
  <1>5. QED
    BY <1>1, <1>3, <1>4 DEF t

\* A page of a table replaced by one it did not list (the copy of a shared page).
LEMMA ReplacePage ==
  ASSUME NEW s \in Seq(Pages), NEW p \in Pages, p \notin Range(s), IsInjective(s),
         NEW k \in 1..Len(s)
  PROVE  LET t == [s EXCEPT ![k] = p]
         IN /\ t \in Seq(Pages) /\ Len(t) = Len(s)
            /\ Range(t) = (Range(s) \ {s[k]}) \cup {p} /\ IsInjective(t)
  <1> DEFINE t == [s EXCEPT ![k] = p]
  <1>1. /\ t \in Seq(Pages) /\ Len(t) = Len(s) /\ t[k] = p
        /\ \A i \in 1..Len(s) \ {k} : t[i] = s[i]
    OBVIOUS
  <1> HIDE DEF t
  <1>2. DOMAIN t = 1..Len(s) /\ DOMAIN s = 1..Len(s) /\ Len(s) \in Nat
    BY <1>1
  <1>3. Range(t) = (Range(s) \ {s[k]}) \cup {p}
    <2>1. \A i \in 1..Len(s) \ {k} : s[i] \in Range(s) /\ s[i] # s[k] /\ s[i] \in Range(t)
      BY <1>1, <1>2 DEF Range, IsInjective
    <2>2. p \in Range(t)
      BY <1>1, <1>2 DEF Range
    <2>3. ASSUME NEW x \in Range(t)
          PROVE  x \in (Range(s) \ {s[k]}) \cup {p}
      BY <1>1, <1>2, <2>1 DEF Range
    <2>4. ASSUME NEW x \in Range(s), x # s[k]
          PROVE  x \in Range(t)
      BY <1>2, <2>1, <2>4 DEF Range
    <2>5. QED
      BY <2>2, <2>3, <2>4
  <1>4. IsInjective(t)
    <2>1. \A i \in 1..Len(s) \ {k} : t[i] # p
      BY <1>1, <1>2 DEF Range
    <2>2. QED
      BY <1>1, <1>2, <2>1 DEF IsInjective
  <1>5. QED
    BY <1>1, <1>3, <1>4 DEF t

\* A prefix of a table (an alias, a truncation).
LEMMA PrefixPages ==
  ASSUME NEW s \in Seq(Pages), IsInjective(s), NEW k \in 0..Len(s)
  PROVE  LET t == SubSeq(s, 1, k)
         IN /\ t \in Seq(Pages) /\ Len(t) = k /\ \A i \in 1..k : t[i] = s[i]
            /\ Range(t) \subseteq Range(s) /\ IsInjective(t)
  <1> DEFINE t == SubSeq(s, 1, k)
  <1>1. t \in Seq(Pages) /\ Len(t) = k /\ \A i \in 1..k : t[i] = s[i]
    OBVIOUS
  <1> HIDE DEF t
  <1>2. DOMAIN t = 1..k /\ DOMAIN s = 1..Len(s) /\ 1..k \subseteq 1..Len(s)
    BY <1>1
  <1>3. Range(t) \subseteq Range(s)
    BY <1>1, <1>2 DEF Range
  <1>4. IsInjective(t)
    BY <1>1, <1>2 DEF IsInjective
  <1>5. QED
    BY <1>1, <1>3, <1>4 DEF t

\* Counts that move with the table of one request stay the numbers of its referrers.
LEMMA CountsFollow ==
  ASSUME TypeOK, RefcountExact, NEW r \in Requests,
         \A q \in Requests \ {r} : table'[q] = table[q],
         \A p \in Pages :
           /\ p \in Range(table'[r]) \ Range(table[r]) => refcount'[p] = refcount[p] + 1
           /\ p \in Range(table[r]) \ Range(table'[r]) => refcount'[p] = refcount[p] - 1
           /\ (p \in Range(table[r]) <=> p \in Range(table'[r])) => refcount'[p] = refcount[p]
  PROVE  \A p \in Pages :
           /\ refcount'[p] = Cardinality({q \in Requests : p \in Range(table'[q])})
           /\ refcount'[p] \in Nat
           /\ p \in Range(table[r]) => refcount[p] >= 1
  <1> SUFFICES ASSUME NEW p \in Pages
               PROVE  /\ refcount'[p] = Cardinality(Referrers(p)') /\ refcount'[p] \in Nat
                      /\ p \in Range(table[r]) => refcount[p] >= 1
    BY DEF Referrers
  <1>1. /\ refcount[p] = Cardinality(Referrers(p)) /\ refcount[p] \in Nat
        /\ IsFiniteSet(Referrers(p))
    BY ReferrersFinite DEF RefcountExact, Referrers, TypeOK
  <1>2. p \in Range(table[r]) => refcount[p] >= 1
    <2>1. p \in Range(table[r]) => r \in Referrers(p)
      BY DEF Referrers
    <2>2. QED
      BY <1>1, <2>1, FS_EmptySet
  <1>3. CASE p \in Range(table'[r]) \ Range(table[r])
    <2>1. r \notin Referrers(p) /\ Referrers(p)' = Referrers(p) \cup {r}
      BY <1>3 DEF Referrers
    <2>2. Cardinality(Referrers(p) \cup {r}) = Cardinality(Referrers(p)) + 1
      BY <1>1, <2>1, FS_AddElement
    <2>3. QED
      BY <1>1, <1>2, <1>3, <2>1, <2>2
  <1>4. CASE p \in Range(table[r]) \ Range(table'[r])
    <2>1. r \in Referrers(p) /\ Referrers(p)' = Referrers(p) \ {r}
      BY <1>4 DEF Referrers
    <2>2. Cardinality(Referrers(p) \ {r}) = Cardinality(Referrers(p)) - 1
      BY <1>1, <2>1, FS_RemoveElement
    <2>3. QED
      BY <1>1, <1>2, <1>4, <2>1, <2>2
  <1>5. CASE p \in Range(table[r]) <=> p \in Range(table'[r])
    <2>1. Referrers(p)' = Referrers(p)
      BY <1>5 DEF Referrers
    <2>2. QED
      BY <1>1, <1>2, <1>5, <2>1
  <1>6. QED
    BY <1>3, <1>4, <1>5

\* Releasing pages of one table drops a reference of each and frees the orphans.
LEMMA ReleaseCounts ==
  ASSUME TypeOK, RefcountExact, NEW r \in Requests, NEW gone \in SUBSET Range(table[r]),
         ReleasePages(gone), \A q \in Requests \ {r} : table'[q] = table[q],
         Range(table'[r]) = Range(table[r]) \ gone, IsInjective(table'[r])
  PROVE  RefcountExact' /\ refcount' \in [Pages -> Nat] /\ free' \subseteq Pages
  <1>1. gone \subseteq Pages /\ \A p \in Pages : refcount[p] \in Nat
    BY DEF TypeOK, Range
  <1>2. \A p \in Pages :
          /\ p \notin Range(table'[r]) \ Range(table[r])
          /\ p \in Range(table[r]) \ Range(table'[r]) => refcount'[p] = refcount[p] - 1
          /\ (p \in Range(table[r]) <=> p \in Range(table'[r])) => refcount'[p] = refcount[p]
    BY DEF ReleasePages
  <1>3. \A p \in Pages :
          /\ refcount'[p] = Cardinality({q \in Requests : p \in Range(table'[q])})
          /\ refcount'[p] \in Nat
          /\ p \in Range(table[r]) => refcount[p] >= 1
    BY <1>2, CountsFollow
  <1>4. \A q \in Requests : IsInjective(table'[q])
    BY DEF RefcountExact
  <1>5. refcount' \in [Pages -> Nat]
    BY <1>3 DEF ReleasePages
  <1>6. free' \subseteq Pages /\ free' = {p \in Pages : refcount'[p] = 0}
    BY <1>1, <1>3, <1>5 DEF ReleasePages, RefcountExact, TypeOK
  <1>7. QED
    BY <1>3, <1>4, <1>5, <1>6 DEF RefcountExact

-----------------------------------------------------------------------------
\* The steps, one lemma per action.

\* The append that starts fits the limit of the row caches and has written nothing.
LEMMA StartAppendKeeps ==
  ASSUME Bookkeeping, NEW r \in Requests, NEW toks \in Strings, StartAppend(r, toks)
  PROVE  Bookkeeping'
  <1>1. PICK n \in 1..MaxAppend : toks \in [1..n -> Values]
    BY DEF Strings
  <1>2. n \in Nat /\ n >= 1
    BY CowAssumption
  <1>3. toks \in Seq(Values) /\ Len(toks) = n /\ toks # << >>
    BY <1>1, <1>2
  <1>4. /\ op' = [rid |-> r, toks |-> toks, taken |-> 0] /\ known' = known \cup {r}
        /\ length[r] + Len(toks) <= MaxLen
        /\ UNCHANGED <<free, refcount, table, length, kv>>
    BY DEF StartAppend
  <1>5. TypeOK'
    BY <1>2, <1>3, <1>4 DEF Bookkeeping, TypeOK
  <1>6. OpOK'
    BY <1>2, <1>3, <1>4 DEF OpOK, Short, Idle
  <1>7. UnknownEmpty' /\ RefcountExact' /\ LengthCovered'
    BY <1>4 DEF Bookkeeping, UnknownEmpty, RefcountExact, LengthCovered
  <1>8. QED
    BY <1>5, <1>6, <1>7 DEF Bookkeeping

\* A new page of the table: nobody lists it, and the append has written nothing yet.
LEMMA GrowTableKeeps ==
  ASSUME Bookkeeping, GrowTable
  PROVE  Bookkeeping'
  <1> DEFINE r == op.rid
  <1>1. ~Idle /\ r \in known /\ known \subseteq Requests /\ op.taken = 0
        /\ op \in [rid : known, toks : Seq(Values), taken : Nat]
    BY DEF Bookkeeping, TypeOK, OpOK, GrowTable, Short
  <1>2. PICK p \in free : /\ free' = free \ {p} /\ refcount' = [refcount EXCEPT ![p] = 1]
                          /\ table' = [table EXCEPT ![r] = Append(@, p)]
    BY DEF GrowTable
  <1>3. UNCHANGED <<known, length, kv, op>>
    BY DEF GrowTable
  <1>4. p \in Pages /\ refcount[p] = 0 /\ p \notin Range(table[r])
    BY <1>1, FreePages DEF Bookkeeping, Referrers
  <1>5. /\ table'[r] \in Seq(Pages) /\ Len(table'[r]) = Len(table[r]) + 1
        /\ Range(table'[r]) = Range(table[r]) \cup {p} /\ IsInjective(table'[r])
        /\ \A q \in Requests \ {r} : table'[q] = table[q]
    <2>1. table[r] \in Seq(Pages) /\ IsInjective(table[r]) /\ table'[r] = Append(table[r], p)
          /\ \A q \in Requests \ {r} : table'[q] = table[q]
      BY <1>1, <1>2 DEF Bookkeeping, TypeOK, RefcountExact
    <2>2. QED
      BY <1>4, <2>1, AppendPage
  <1>6. \A x \in Pages : refcount'[x] = IF x = p THEN 1 ELSE refcount[x]
    BY <1>2, <1>4 DEF Bookkeeping, TypeOK
  <1>7. \A x \in Pages : /\ refcount'[x] = Cardinality({q \in Requests : x \in Range(table'[q])})
                         /\ refcount'[x] \in Nat
    <2>1. \A x \in Pages :
            /\ x \in Range(table'[r]) \ Range(table[r]) => refcount'[x] = refcount[x] + 1
            /\ x \notin Range(table[r]) \ Range(table'[r])
            /\ (x \in Range(table[r]) <=> x \in Range(table'[r])) => refcount'[x] = refcount[x]
      BY <1>4, <1>5, <1>6
    <2>2. r \in Requests
      BY <1>1
    <2> HIDE DEF r
    <2>3. QED
      BY <1>5, <2>1, <2>2, CountsFollow DEF Bookkeeping
  <1>8. TypeOK'
    <2>1. table' \in [Requests -> Seq(Pages)] /\ refcount' \in [Pages -> Nat]
      BY <1>1, <1>2, <1>4, <1>5 DEF Bookkeeping, TypeOK
    <2>2. QED
      BY <1>1, <1>2, <1>3, <2>1 DEF Bookkeeping, TypeOK
  <1>9. OpOK'
    BY <1>1, <1>3 DEF Bookkeeping, OpOK, Idle
  <1>10. UnknownEmpty'
    BY <1>1, <1>3, <1>5 DEF Bookkeeping, UnknownEmpty
  <1>11. RefcountExact'
    <2>1. free' = {x \in Pages : refcount'[x] = 0}
      BY <1>2, <1>4, <1>6 DEF Bookkeeping, RefcountExact
    <2>2. \A q \in Requests : IsInjective(table'[q])
      BY <1>5 DEF Bookkeeping, RefcountExact
    <2>3. QED
      BY <1>7, <2>1, <2>2 DEF RefcountExact
  <1>12. LengthCovered'
    <2>1. \A q \in Requests : table[q] \in Seq(Pages) /\ length[q] \in Nat
                              /\ length[q] <= Len(table[q]) * PageSize
      BY CowAssumption DEF Bookkeeping, TypeOK, LengthCovered
    <2>2. length[r] <= (Len(table[r]) + 1) * PageSize
      BY <1>1, <2>1, PageSizePositive
    <2>3. \A q \in Requests : length'[q] <= Len(table'[q]) * PageSize
      BY <1>3, <1>5, <2>1, <2>2
    <2>4. QED
      BY <2>3 DEF LengthCovered
  <1>13. QED
    BY <1>8, <1>9, <1>10, <1>11, <1>12 DEF Bookkeeping

\* A write in place changes one page and nothing of the bookkeeping.
LEMMA WriteInPlaceKeeps ==
  ASSUME Bookkeeping, WriteInPlace
  PROVE  Bookkeeping'
  <1>1. /\ Writing /\ kv' = [kv EXCEPT ![Current] = Chunk(@)]
        /\ op' = [op EXCEPT !.taken = @ + Take]
        /\ UNCHANGED <<free, refcount, known, table, length>>
    BY DEF WriteInPlace
  <1>2. /\ op \in [rid : known, toks : Seq(Values), taken : Nat]
        /\ Take \in 1..Len(op.toks) - op.taken /\ Current \in Pages
    BY <1>1, ChunkFacts
  <1>3. /\ op'.rid = op.rid /\ op'.toks = op.toks /\ op'.taken = op.taken + Take
        /\ op' \in [rid : known, toks : Seq(Values), taken : Nat]
        /\ op'.taken \in 0..Len(op.toks)
    BY <1>1, <1>2
  <1>4. kv' \in [Pages -> [0..PageSize - 1 -> Values \cup {Unset}]]
    <2>1. kv[Current] \in [0..PageSize - 1 -> Values \cup {Unset}]
      BY <1>2 DEF Bookkeeping, TypeOK
    <2>2. Chunk(kv[Current]) \in [0..PageSize - 1 -> Values \cup {Unset}]
      BY <1>1, <2>1, ChunkType
    <2>3. QED
      BY <1>1, <1>2, <2>2 DEF Bookkeeping, TypeOK
  <1>5. TypeOK'
    BY <1>1, <1>3, <1>4 DEF Bookkeeping, TypeOK
  <1>6. OpOK'
    BY <1>1, <1>3 DEF Bookkeeping, OpOK, Writing, Short, Ceil
  <1>7. UnknownEmpty' /\ RefcountExact' /\ LengthCovered'
    BY <1>1 DEF Bookkeeping, UnknownEmpty, RefcountExact, LengthCovered
  <1>8. QED
    BY <1>5, <1>6, <1>7 DEF Bookkeeping

\* The copy: the shared page loses one of several referrers, the fresh one gains its
\* first, and the table keeps its length.
LEMMA WriteCopyKeeps ==
  ASSUME Bookkeeping, WriteCopy
  PROVE  Bookkeeping'
  <1> DEFINE r == op.rid
  <1>1. /\ Writing /\ refcount[Current] > 1 /\ op' = [op EXCEPT !.taken = @ + Take]
        /\ UNCHANGED <<known, length>>
    BY DEF WriteCopy
  <1>2. PICK p \in free :
          /\ free' = free \ {p}
          /\ refcount' = [refcount EXCEPT ![p] = 1, ![Current] = @ - 1]
          /\ table' = [table EXCEPT ![r][PageIndex] = p]
          /\ kv' = [kv EXCEPT ![p] = Chunk(kv[Current])]
    BY DEF WriteCopy
  <1>3. /\ op \in [rid : known, toks : Seq(Values), taken : Nat] /\ r \in Requests
        /\ table[r] \in Seq(Pages) /\ PageIndex \in 1..Len(table[r])
        /\ Take \in 1..Len(op.toks) - op.taken /\ Current \in Pages
    BY <1>1, ChunkFacts
  <1>4. /\ op'.rid = op.rid /\ op'.toks = op.toks /\ op'.taken = op.taken + Take
        /\ op' \in [rid : known, toks : Seq(Values), taken : Nat]
        /\ op'.taken \in 0..Len(op.toks)
    BY <1>1, <1>3
  <1>5. p \in Pages /\ refcount[p] = 0 /\ p \notin Range(table[r]) /\ p # Current
    BY <1>1, <1>3, FreePages DEF Bookkeeping, Referrers
  <1>6. /\ table'[r] \in Seq(Pages) /\ Len(table'[r]) = Len(table[r])
        /\ Range(table'[r]) = (Range(table[r]) \ {Current}) \cup {p}
        /\ IsInjective(table'[r]) /\ \A q \in Requests \ {r} : table'[q] = table[q]
    <2>1. IsInjective(table[r]) /\ table'[r] = [table[r] EXCEPT ![PageIndex] = p]
          /\ \A q \in Requests \ {r} : table'[q] = table[q]
      BY <1>2, <1>3 DEF Bookkeeping, TypeOK, RefcountExact
    <2>2. Current = table[r][PageIndex]
      BY DEF Current
    <2> HIDE DEF r
    <2>3. QED
      BY <1>3, <1>5, <2>1, <2>2, ReplacePage
  <1>7. \A x \in Pages : refcount'[x] = IF x = p THEN 1
                                        ELSE IF x = Current THEN refcount[x] - 1 ELSE refcount[x]
    BY <1>2, <1>3, <1>5 DEF Bookkeeping, TypeOK
  <1>8. Current \in Range(table[r])
    BY <1>1, ChunkFacts DEF Referrers
  <1>9. \A x \in Pages : /\ refcount'[x] = Cardinality({q \in Requests : x \in Range(table'[q])})
                         /\ refcount'[x] \in Nat
    <2>1. \A x \in Pages :
            /\ x \in Range(table'[r]) \ Range(table[r]) => refcount'[x] = refcount[x] + 1
            /\ x \in Range(table[r]) \ Range(table'[r]) => refcount'[x] = refcount[x] - 1
            /\ (x \in Range(table[r]) <=> x \in Range(table'[r])) => refcount'[x] = refcount[x]
      BY <1>5, <1>6, <1>7, <1>8
    <2> HIDE DEF r
    <2>2. QED
      BY <1>3, <1>6, <2>1, CountsFollow DEF Bookkeeping
  <1>10. TypeOK'
    <2>1. table' \in [Requests -> Seq(Pages)] /\ refcount' \in [Pages -> Nat]
      <3>1. table' = [table EXCEPT ![r] = table'[r]]
        BY <1>2, <1>3 DEF Bookkeeping, TypeOK
      <3>2. DOMAIN refcount' = Pages /\ refcount' = [x \in Pages |-> refcount'[x]]
        BY <1>2 DEF Bookkeeping, TypeOK
      <3>3. table' \in [Requests -> Seq(Pages)]
        BY <1>3, <1>6, <3>1 DEF Bookkeeping, TypeOK
      <3>4. QED
        BY <1>9, <3>2, <3>3
    <2>2. kv' \in [Pages -> [0..PageSize - 1 -> Values \cup {Unset}]]
      <3>1. kv[Current] \in [0..PageSize - 1 -> Values \cup {Unset}]
        BY <1>3 DEF Bookkeeping, TypeOK
      <3>2. Chunk(kv[Current]) \in [0..PageSize - 1 -> Values \cup {Unset}]
        BY <1>1, <3>1, ChunkType
      <3>3. QED
        BY <1>2, <1>5, <3>2 DEF Bookkeeping, TypeOK
    <2>3. QED
      BY <1>1, <1>2, <1>4, <2>1, <2>2 DEF Bookkeeping, TypeOK
  <1>11. OpOK'
    BY <1>1, <1>3, <1>4, <1>6 DEF Bookkeeping, OpOK, Writing, Short, Ceil
  <1>12. UnknownEmpty'
    BY <1>1, <1>3, <1>6 DEF Bookkeeping, UnknownEmpty
  <1>13. RefcountExact'
    <2>1. free' = {x \in Pages : refcount'[x] = 0}
      BY <1>1, <1>2, <1>5, <1>7 DEF Bookkeeping, RefcountExact, TypeOK
    <2>2. \A q \in Requests : IsInjective(table'[q])
      BY <1>6 DEF Bookkeeping, RefcountExact
    <2>3. QED
      BY <1>9, <2>1, <2>2 DEF RefcountExact
  <1>14. LengthCovered'
    BY <1>1, <1>6 DEF Bookkeeping, LengthCovered
  <1>15. QED
    BY <1>10, <1>11, <1>12, <1>13, <1>14 DEF Bookkeeping

\* The length advances within the pages the append made sure of.
LEMMA FinishAppendKeeps ==
  ASSUME Bookkeeping, FinishAppend
  PROVE  Bookkeeping'
  <1> DEFINE r == op.rid
  <1>1. /\ ~Idle /\ ~Short /\ op' = NoOp
        /\ length' = [length EXCEPT ![r] = @ + Len(op.toks)]
        /\ UNCHANGED <<free, refcount, known, table, kv>>
    BY DEF FinishAppend
  <1>2. /\ op \in [rid : known, toks : Seq(Values), taken : Nat] /\ r \in Requests
        /\ table[r] \in Seq(Pages) /\ length[r] \in Nat
        /\ length[r] + Len(op.toks) \in 0..MaxLen
    BY <1>1, CowAssumption DEF Bookkeeping, TypeOK, OpOK
  <1>3. length[r] + Len(op.toks) <= Len(table[r]) * PageSize
    <2>1. length[r] + Len(op.toks) \in Nat /\ Len(table[r]) \in Nat
      BY <1>2
    <2>2. Ceil(length[r] + Len(op.toks)) <= Len(table[r])
      BY <1>1, <2>1, CeilCovers DEF Short
    <2>3. QED
      BY <2>1, <2>2, Covers
  <1>4. length' \in [Requests -> 0..MaxLen]
        /\ \A q \in Requests : length'[q] = IF q = r THEN length[r] + Len(op.toks) ELSE length[q]
    BY <1>1, <1>2 DEF Bookkeeping, TypeOK
  <1>5. TypeOK' /\ OpOK'
    BY <1>1, <1>4 DEF Bookkeeping, TypeOK, OpOK, Idle
  <1>6. UnknownEmpty'
    BY <1>1, <1>2, <1>4 DEF Bookkeeping, UnknownEmpty
  <1>7. RefcountExact'
    BY <1>1 DEF Bookkeeping, RefcountExact
  <1>8. LengthCovered'
    BY <1>1, <1>3, <1>4 DEF Bookkeeping, LengthCovered
  <1>9. QED
    BY <1>5, <1>6, <1>7, <1>8 DEF Bookkeeping

\* A failed append leaves the pages it took to the table that lists them.
LEMMA OutOfPagesKeeps ==
  ASSUME Bookkeeping, OutOfPages
  PROVE  Bookkeeping'
  BY DEF OutOfPages, Bookkeeping, TypeOK, OpOK, Idle, UnknownEmpty, RefcountExact, LengthCovered

\* The target of an alias was empty, and every page it takes over is in use.
LEMMA AliasPrefixKeeps ==
  ASSUME Bookkeeping, NEW src \in Requests, NEW dst \in Requests, NEW n \in 0..MaxLen,
         AliasPrefix(src, dst, n)
  PROVE  Bookkeeping'
  <1> DEFINE shared == SubSeq(table[src], 1, Ceil(n))
  <1>1. /\ Idle /\ src \in known /\ dst \notin known /\ n \in 0..length[src]
        /\ table' = [table EXCEPT ![dst] = shared] /\ length' = [length EXCEPT ![dst] = n]
        /\ refcount' = [p \in Pages |-> IF p \in Range(shared) THEN refcount[p] + 1 ELSE refcount[p]]
        /\ known' = known \cup {dst} /\ UNCHANGED <<free, kv, op>>
    BY DEF AliasPrefix
  <1>2. /\ table[src] \in Seq(Pages) /\ length[src] \in Nat /\ n \in Nat /\ IsInjective(table[src])
        /\ length[src] <= Len(table[src]) * PageSize
        /\ table[dst] = << >> /\ src # dst
    BY <1>1 DEF Bookkeeping, TypeOK, RefcountExact, LengthCovered, UnknownEmpty
  <1>3. Ceil(n) \in 0..Len(table[src])
    <2>1. n <= Len(table[src]) * PageSize
      BY <1>1, <1>2, PageSizePositive
    <2>2. QED
      BY <1>2, <2>1, CeilFits, CeilCovers
  <1>4. /\ shared \in Seq(Pages) /\ Len(shared) = Ceil(n)
        /\ Range(shared) \subseteq Range(table[src]) /\ IsInjective(shared)
    BY <1>2, <1>3, PrefixPages
  <1> HIDE DEF shared
  <1>5. table'[dst] = shared /\ \A q \in Requests \ {dst} : table'[q] = table[q]
    BY <1>1 DEF Bookkeeping, TypeOK
  <1>6. Range(table[dst]) = {} /\ Range(shared) \subseteq Pages
    BY <1>2, <1>4 DEF Range
  <1>7. \A x \in Pages : /\ refcount'[x] = Cardinality({q \in Requests : x \in Range(table'[q])})
                         /\ refcount'[x] \in Nat
    <2>1. \A x \in Pages :
            /\ x \in Range(table'[dst]) \ Range(table[dst]) => refcount'[x] = refcount[x] + 1
            /\ x \notin Range(table[dst]) \ Range(table'[dst])
            /\ (x \in Range(table[dst]) <=> x \in Range(table'[dst])) => refcount'[x] = refcount[x]
      BY <1>1, <1>5, <1>6
    <2>2. QED
      BY <1>5, <2>1, CountsFollow DEF Bookkeeping
  <1>8. TypeOK'
    <2>1. table' \in [Requests -> Seq(Pages)] /\ length' \in [Requests -> 0..MaxLen]
      BY <1>1, <1>4 DEF Bookkeeping, TypeOK
    <2>2. refcount' \in [Pages -> Nat]
      BY <1>1, <1>7
    <2>3. QED
      BY <1>1, <2>1, <2>2 DEF Bookkeeping, TypeOK, Idle
  <1>9. OpOK'
    BY <1>1 DEF OpOK, Idle
  <1>10. UnknownEmpty'
    BY <1>1, <1>5 DEF Bookkeeping, UnknownEmpty, TypeOK
  <1>11. RefcountExact'
    <2>1. \A x \in Range(table[src]) : refcount[x] # 0
      <3>1. SUFFICES ASSUME NEW x \in Range(table[src]), refcount[x] = 0 PROVE FALSE
        OBVIOUS
      <3>2. x \in Pages
        BY <1>2 DEF Range
      <3>3. x \in free
        BY <3>1, <3>2 DEF Bookkeeping, RefcountExact
      <3>4. QED
        BY <3>3, FreePages DEF Bookkeeping, Referrers
    <2>2. \A x \in Pages : refcount[x] \in Nat
      BY DEF Bookkeeping, TypeOK
    <2>3. free' = {x \in Pages : refcount'[x] = 0}
      BY <1>1, <1>4, <2>1, <2>2 DEF Bookkeeping, RefcountExact
    <2>4. \A q \in Requests : IsInjective(table'[q])
      BY <1>4, <1>5 DEF Bookkeeping, RefcountExact
    <2>5. QED
      BY <1>7, <2>3, <2>4 DEF RefcountExact
  <1>12. LengthCovered'
    <2>1. length' = [length EXCEPT ![dst] = n] /\ n <= Len(shared) * PageSize
      BY <1>1, <1>2, <1>4, CeilCovers
    <2>2. QED
      BY <1>5, <2>1 DEF Bookkeeping, LengthCovered, TypeOK
  <1>13. QED
    BY <1>8, <1>9, <1>10, <1>11, <1>12 DEF Bookkeeping

\* Freeing releases every page of the table, which lists none twice.
LEMMA FreeKeeps ==
  ASSUME Bookkeeping, NEW r \in Requests, Free(r)
  PROVE  Bookkeeping'
  <1>1. /\ Idle /\ ReleasePages(Range(table[r])) /\ known' = known \ {r}
        /\ table' = [table EXCEPT ![r] = << >>] /\ length' = [length EXCEPT ![r] = 0]
        /\ UNCHANGED <<kv, op>>
    BY DEF Free
  <1>2. /\ table'[r] = << >> /\ length'[r] = 0
        /\ \A q \in Requests \ {r} : table'[q] = table[q] /\ length'[q] = length[q]
    BY <1>1 DEF Bookkeeping, TypeOK
  <1>3. Range(table'[r]) = {} /\ IsInjective(table'[r])
    BY <1>2 DEF Range, IsInjective
  <1>4. RefcountExact' /\ refcount' \in [Pages -> Nat] /\ free' \subseteq Pages
    BY <1>1, <1>2, <1>3, ReleaseCounts DEF Bookkeeping
  <1>5. TypeOK'
    <2>1. table' \in [Requests -> Seq(Pages)] /\ length' \in [Requests -> 0..MaxLen]
      BY <1>1, CowAssumption DEF Bookkeeping, TypeOK
    <2>2. QED
      BY <1>1, <1>4, <2>1 DEF Bookkeeping, TypeOK, Idle
  <1>6. OpOK'
    BY <1>1 DEF OpOK, Idle
  <1>7. UnknownEmpty'
    BY <1>1, <1>2 DEF Bookkeeping, UnknownEmpty
  <1>8. LengthCovered'
    <2>1. Len(table'[r]) = 0
      BY <1>2
    <2>2. length'[r] <= Len(table'[r]) * PageSize
      BY <1>2, <2>1, PageSizePositive
    <2>3. QED
      BY <1>2, <2>2 DEF Bookkeeping, LengthCovered
  <1>9. QED
    BY <1>4, <1>5, <1>6, <1>7, <1>8 DEF Bookkeeping

\* The length of set_length and truncate: within the length or within the pages.
LEMMA ShortEnough ==
  ASSUME Bookkeeping, NEW r \in Requests, NEW n \in 0..MaxLen,
         n <= length[r] \/ n <= Len(table[r]) * PageSize
  PROVE  /\ table[r] \in Seq(Pages) /\ n \in Nat /\ Ceil(n) \in 0..Len(table[r])
         /\ n <= Len(table[r]) * PageSize
  <1>1. /\ table[r] \in Seq(Pages) /\ n \in Nat /\ length[r] \in Nat /\ Len(table[r]) \in Nat
        /\ length[r] <= Len(table[r]) * PageSize
    BY CowAssumption DEF Bookkeeping, TypeOK, LengthCovered
  <1>2. n <= Len(table[r]) * PageSize
    BY <1>1, PageSizePositive
  <1>3. QED
    BY <1>1, <1>2, CeilFits, CeilCovers

\* set_length moves the length within the pages of the table.
LEMMA SetLengthKeeps ==
  ASSUME Bookkeeping, NEW r \in Requests, NEW n \in 0..MaxLen, SetLength(r, n)
  PROVE  Bookkeeping'
  <1>1. /\ Idle
        /\ r \in known \/ n = 0
        /\ n <= length[r] \/ n <= Len(table[r]) * PageSize
        /\ length' = [length EXCEPT ![r] = n] /\ known' = known \cup {r}
        /\ UNCHANGED <<free, refcount, table, kv, op>>
    BY DEF SetLength
  <1>2. n <= Len(table[r]) * PageSize
    BY <1>1, ShortEnough
  <1>3. TypeOK'
    BY <1>1 DEF Bookkeeping, TypeOK, Idle, SetLength
  <1>4. OpOK'
    BY <1>1 DEF OpOK, Idle, SetLength
  <1>5. UnknownEmpty' /\ RefcountExact'
    BY <1>1 DEF Bookkeeping, UnknownEmpty, RefcountExact, TypeOK
  <1>6. LengthCovered'
    BY <1>1, <1>2 DEF Bookkeeping, LengthCovered, TypeOK
  <1>7. QED
    BY <1>3, <1>4, <1>5, <1>6 DEF Bookkeeping

\* No table lists a page twice, so the pages behind the kept prefix are those released.
LEMMA TruncateKeeps ==
  ASSUME Bookkeeping, NEW r \in Requests, NEW n \in 0..MaxLen, Truncate(r, n)
  PROVE  Bookkeeping'
  <1> DEFINE kept == SubSeq(table[r], 1, Ceil(n))
  <1>1. /\ Idle
        /\ n <= length[r] \/ n <= Len(table[r]) * PageSize
        /\ ReleasePages(Range(table[r]) \ Range(kept))
        /\ table' = [table EXCEPT ![r] = kept] /\ length' = [length EXCEPT ![r] = n]
        /\ known' = known \cup {r} /\ UNCHANGED <<kv, op>>
    BY DEF Truncate
  <1>2. table[r] \in Seq(Pages) /\ n \in Nat /\ Ceil(n) \in 0..Len(table[r])
    BY <1>1, ShortEnough
  <1>3. IsInjective(table[r])
    BY DEF Bookkeeping, RefcountExact
  <1>4. /\ kept \in Seq(Pages) /\ Len(kept) = Ceil(n)
        /\ Range(kept) \subseteq Range(table[r]) /\ IsInjective(kept)
    BY <1>2, <1>3, PrefixPages
  <1> HIDE DEF kept
  <1>5. table'[r] = kept /\ \A q \in Requests \ {r} : table'[q] = table[q]
    BY <1>1 DEF Bookkeeping, TypeOK
  <1>6. RefcountExact' /\ refcount' \in [Pages -> Nat] /\ free' \subseteq Pages
    <2> DEFINE gone == Range(table[r]) \ Range(kept)
    <2>1. /\ gone \in SUBSET Range(table[r]) /\ ReleasePages(gone)
          /\ Range(table'[r]) = Range(table[r]) \ gone /\ IsInjective(table'[r])
      BY <1>1, <1>4, <1>5
    <2> HIDE DEF gone
    <2>2. QED
      BY <1>5, <2>1, ReleaseCounts DEF Bookkeeping
  <1>7. TypeOK'
    <2>1. table' \in [Requests -> Seq(Pages)] /\ length' \in [Requests -> 0..MaxLen]
      BY <1>1, <1>4 DEF Bookkeeping, TypeOK
    <2>2. QED
      BY <1>1, <1>6, <2>1 DEF Bookkeeping, TypeOK, Idle
  <1>8. OpOK'
    BY <1>1 DEF OpOK, Idle
  <1>9. UnknownEmpty'
    BY <1>1, <1>5 DEF Bookkeeping, UnknownEmpty, TypeOK
  <1>10. LengthCovered'
    <2>1. n <= Len(kept) * PageSize
      BY <1>2, <1>4, CeilCovers
    <2>2. QED
      BY <1>1, <1>5, <2>1 DEF Bookkeeping, LengthCovered, TypeOK
  <1>11. QED
    BY <1>6, <1>7, <1>8, <1>9, <1>10 DEF Bookkeeping

-----------------------------------------------------------------------------
\* The theorems.

\* An empty cache.
LEMMA BookkeepingInit == Init => Bookkeeping
  <1> SUFFICES ASSUME Init PROVE Bookkeeping
    OBVIOUS
  <1>1. /\ free = Pages /\ refcount = [p \in Pages |-> 0] /\ known = {}
        /\ table = [r \in Requests |-> << >>] /\ length = [r \in Requests |-> 0]
        /\ kv = [p \in Pages |-> [o \in 0..PageSize - 1 |-> Unset]] /\ op = NoOp
    BY DEF Init
  <1>2. TypeOK
    BY <1>1, CowAssumption DEF TypeOK
  <1>3. OpOK /\ UnknownEmpty
    BY <1>1 DEF OpOK, Idle, UnknownEmpty
  <1>4. \A r \in Requests : Range(table[r]) = {} /\ IsInjective(table[r])
    BY <1>1 DEF Range, IsInjective
  <1>5. RefcountExact
    <2>1. \A p \in Pages : {r \in Requests : p \in Range(table[r])} = {}
      BY <1>4
    <2>2. \A p \in Pages : refcount[p] = Cardinality({r \in Requests : p \in Range(table[r])})
      BY <1>1, <2>1, FS_EmptySet
    <2>3. free = {p \in Pages : refcount[p] = 0}
      BY <1>1
    <2>4. QED
      BY <1>4, <2>2, <2>3 DEF RefcountExact
  <1>6. LengthCovered
    BY <1>1, PageSizePositive DEF LengthCovered
  <1>7. QED
    BY <1>2, <1>3, <1>5, <1>6 DEF Bookkeeping

\* The bookkeeping is inductive: every action keeps it.
LEMMA BookkeepingStep == Bookkeeping /\ [Next]_vars => Bookkeeping'
  <1> SUFFICES ASSUME Bookkeeping, [Next]_vars PROVE Bookkeeping'
    OBVIOUS
  <1>1. CASE \E r \in Requests, toks \in Strings : StartAppend(r, toks)
    BY <1>1, StartAppendKeeps
  <1>2. CASE GrowTable \/ WriteInPlace \/ WriteCopy \/ FinishAppend \/ OutOfPages
    BY <1>2, GrowTableKeeps, WriteInPlaceKeeps, WriteCopyKeeps, FinishAppendKeeps, OutOfPagesKeeps
  <1>3. CASE \E src, dst \in Requests, n \in 0..MaxLen : AliasPrefix(src, dst, n)
    BY <1>3, AliasPrefixKeeps
  <1>4. CASE \E r \in Requests : Free(r)
    BY <1>4, FreeKeeps
  <1>5. CASE \E r \in Requests, n \in 0..MaxLen : SetLength(r, n) \/ Truncate(r, n)
    BY <1>5, SetLengthKeeps, TruncateKeeps
  <1>6. CASE UNCHANGED vars
    <2>1. UNCHANGED <<free, refcount, known, table, length, kv, op>>
      BY <1>6 DEF vars
    <2>2. QED
      BY <2>1 DEF Bookkeeping, TypeOK, OpOK, Idle, Short, UnknownEmpty, RefcountExact,
                  LengthCovered, Ceil
  <1>7. QED
    BY <1>1, <1>2, <1>3, <1>4, <1>5, <1>6 DEF Next

\* Types, the append under way, empty unknown requests, exact counts and covered
\* lengths hold in every history of PagedKVCache, for every pool, page size and limit.
THEOREM CowSafety == Spec => []Bookkeeping
  BY BookkeepingInit, BookkeepingStep, PTL DEF Spec

\* The variables keep their types.
THEOREM CowTypes == Spec => []TypeOK
  <1>1. Bookkeeping => TypeOK
    BY DEF Bookkeeping
  <1>2. QED
    BY <1>1, CowSafety, PTL

\* _page_refcounts counts the tables that list a page, no table lists a page twice,
\* and _free_pages are the pages counted 0: also after copies, failed appends,
\* aliases and truncations.
THEOREM CowCountsExact == Spec => []RefcountExact
  <1>1. Bookkeeping => RefcountExact
    BY DEF Bookkeeping
  <1>2. QED
    BY <1>1, CowSafety, PTL

\* The length of a sequence never exceeds what its pages hold.
THEOREM CowLengthsCovered == Spec => []LengthCovered
  <1>1. Bookkeeping => LengthCovered
    BY DEF Bookkeeping
  <1>2. QED
    BY <1>1, CowSafety, PTL

-----------------------------------------------------------------------------
\* Running out of pages.

\* The places in the tables, and the page at each.
Places == UNION {{r} \X (1..Len(table[r])) : r \in Requests}
PageAt == [x \in Places |-> table[x[1]][x[2]]]

\* A place is a request and a position of its table.
LEMMA PlacesAre ==
  ASSUME TypeOK
  PROVE  /\ \A x \in Places : /\ x = <<x[1], x[2]>> /\ x[1] \in Requests
                              /\ x[2] \in 1..Len(table[x[1]])
         /\ \A r \in Requests : \A i \in 1..Len(table[r]) : <<r, i>> \in Places
         /\ PageAt \in [Places -> Pages]
  <1>1. \A x \in Places : x = <<x[1], x[2]>> /\ x[1] \in Requests /\ x[2] \in 1..Len(table[x[1]])
    BY DEF Places
  <1>2. \A r \in Requests : \A i \in 1..Len(table[r]) : <<r, i>> \in Places
    BY DEF Places
  <1>3. ASSUME NEW x \in Places PROVE table[x[1]][x[2]] \in Pages
    <2>1. x[1] \in Requests /\ x[2] \in 1..Len(table[x[1]])
      BY <1>1
    <2>2. table[x[1]] \in Seq(Pages)
      BY <2>1 DEF TypeOK
    <2>3. QED
      BY <2>1, <2>2
  <1>4. QED
    BY <1>1, <1>2, <1>3 DEF PageAt

\* The demanded places: finitely many, all the places there are, and those an append
\* needs besides.
LEMMA DemandedAre ==
  ASSUME Bookkeeping, ~Idle
  PROVE  /\ IsFiniteSet(Demanded) /\ Places \subseteq Demanded
         /\ Short => <<op.rid, Len(table[op.rid]) + 1>> \in Demanded \ Places
  <1> DEFINE need == Ceil(length[op.rid] + Len(op.toks))
             m == Max({Len(table[op.rid]), need})
  <1>1. op.rid \in Requests /\ op.toks \in Seq(Values)
    BY DEF Bookkeeping, TypeOK, OpOK
  <1>2. length[op.rid] \in Nat /\ Len(op.toks) \in Nat /\ Len(table[op.rid]) \in Nat
    BY <1>1 DEF Bookkeeping, TypeOK
  <1>3. need \in Nat
    <2>1. PICK n : n = length[op.rid] + Len(op.toks)
      OBVIOUS
    <2>2. n \in Nat
      BY <1>2, <2>1
    <2>3. QED
      BY <2>1, <2>2, CeilCovers
  <1>4. m \in Nat /\ Len(table[op.rid]) <= m /\ need <= m
    <2> HIDE DEF need
    <2>1. PICK k : k = Len(table[op.rid])
      OBVIOUS
    <2>2. k \in Nat
      BY <1>2, <2>1
    <2>3. \E x \in {k, need} : \A y \in {k, need} : x >= y
      BY <2>2, <1>3
    <2>4. Max({k, need}) \in {k, need} /\ \A y \in {k, need} : Max({k, need}) >= y
      BY <2>3 DEF Max
    <2>5. QED
      BY <2>1, <2>2, <2>4, <1>3
  <1>5. \A r \in Requests : /\ Demand(r) \in Nat /\ Len(table[r]) <= Demand(r)
    <2> TAKE r \in Requests
    <2>1. Len(table[r]) \in Nat
      BY DEF Bookkeeping, TypeOK
    <2>2. CASE r = op.rid
      <3>1. Demand(r) = m
        BY <2>2 DEF Demand
      <3>2. QED
        BY <3>1, <2>2, <1>4
    <2>3. CASE r # op.rid
      BY <2>1, <2>3 DEF Demand
    <2>4. QED
      BY <2>2, <2>3
  <1> DEFINE Some(r) == {r} \X (1..Demand(r))
  <1>6. \A r \in Requests : IsFiniteSet(Some(r))
    <2> TAKE r \in Requests
    <2>1. PICK n \in Nat : n = Demand(r)
      BY <1>5
    <2>2. IsFiniteSet({r})
      BY FS_Singleton
    <2>3. n \in Int /\ 1 \in Int
      BY <2>1
    <2>4. IsFiniteSet(1..n)
      BY <2>3, FS_Interval
    <2>5. QED
      BY <2>1, <2>2, <2>4, FS_Product
  <1>7. IsFiniteSet({Some(r) : r \in Requests})
    <2> HIDE DEF Some
    <2> DEFINE f == [r \in Requests |-> Some(r)]
    <2>1. f \in Surjection(Requests, {Some(r) : r \in Requests})
      BY DEF Surjection
    <2>2. QED
      BY <2>1, FS_Surjection, CowAssumption
  <1>8. IsFiniteSet(Demanded)
    <2>1. Demanded = UNION {Some(r) : r \in Requests}
      BY DEF Demanded
    <2>2. QED
      BY <2>1, <1>6, <1>7, FS_UNION
  <1>9. Places \subseteq Demanded
    <2>1. ASSUME NEW r \in Requests PROVE 1..Len(table[r]) \subseteq 1..Demand(r)
      <3>1. Len(table[r]) \in Nat
        BY DEF Bookkeeping, TypeOK
      <3>2. QED
        BY <3>1, <1>5
    <2>2. QED
      BY <2>1 DEF Places, Demanded
  <1>10. ASSUME Short PROVE <<op.rid, Len(table[op.rid]) + 1>> \in Demanded \ Places
    <2>1. Len(table[op.rid]) < need
      BY <1>10 DEF Short
    <2>2. Len(table[op.rid]) + 1 \in 1..Demand(op.rid)
      <3>1. Demand(op.rid) = m
        BY DEF Demand
      <3>2. PICK k : k = Len(table[op.rid])
        OBVIOUS
      <3> HIDE DEF need, m
      <3>3. QED
        BY <3>1, <3>2, <2>1, <1>2, <1>3, <1>4
    <2>3. <<op.rid, Len(table[op.rid]) + 1>> \in Demanded
      BY <1>1, <2>2 DEF Demanded
    <2>4. <<op.rid, Len(table[op.rid]) + 1>> \notin Places
      <3>1. Len(table[op.rid]) + 1 \notin 1..Len(table[op.rid])
        BY <1>2
      <3>2. QED
        BY <3>1 DEF Places
    <2>5. QED
      BY <2>3, <2>4
  <1>11. QED
    BY <1>8, <1>9, <1>10

\* With no page free every page is in some table.
LEMMA AllPlaced ==
  ASSUME Bookkeeping, free = {}, NEW p \in Pages
  PROVE  \E x \in Places : table[x[1]][x[2]] = p
  <1>1. refcount[p] # 0 /\ refcount[p] = Cardinality(Referrers(p))
    BY DEF Bookkeeping, RefcountExact, Referrers
  <1>2. Referrers(p) # {}
    BY <1>1, FS_EmptySet
  <1>3. PICK r \in Requests : p \in Range(table[r])
    BY <1>2 DEF Referrers
  <1>4. table[r] \in Seq(Pages)
    BY DEF Bookkeeping, TypeOK
  <1>5. PICK i \in 1..Len(table[r]) : table[r][i] = p
    BY <1>3, <1>4 DEF Range
  <1>6. <<r, i>> \in Places
    BY PlacesAre DEF Bookkeeping
  <1>7. QED
    BY <1>5, <1>6

\* A page that some tables share has one more place than it needs.
LEMMA SharedPlaces ==
  ASSUME Bookkeeping, NEW p \in Pages, refcount[p] > 1
  PROVE  \E x, y \in Places : x # y /\ table[x[1]][x[2]] = p /\ table[y[1]][y[2]] = p
  <1>1. Cardinality(Referrers(p)) > 1
    BY DEF Bookkeeping, RefcountExact, Referrers
  <1>2. PICK r \in Referrers(p) : TRUE
    BY <1>1, FS_EmptySet
  <1>3. PICK s \in Referrers(p) : s # r
    <2>1. ASSUME Referrers(p) = {r} PROVE FALSE
      <3>1. Cardinality(Referrers(p)) = 1
        BY <2>1, FS_Singleton, ReferrersFinite
      <3>2. QED
        BY <1>1, <3>1
    <2>2. QED
      BY <1>2, <2>1
  <1>4. ASSUME NEW q \in Referrers(p)
        PROVE  q \in Requests /\ \E i \in 1..Len(table[q]) : table[q][i] = p
    <2>1. q \in Requests /\ p \in Range(table[q])
      BY DEF Referrers
    <2>2. table[q] \in Seq(Pages)
      BY <2>1 DEF Bookkeeping, TypeOK
    <2>3. QED
      BY <2>1, <2>2 DEF Range
  <1>5. PICK i \in 1..Len(table[r]) : table[r][i] = p
    BY <1>2, <1>4
  <1>6. PICK j \in 1..Len(table[s]) : table[s][j] = p
    BY <1>3, <1>4
  <1>7. <<r, i>> \in Places /\ <<s, j>> \in Places
    BY <1>2, <1>3, <1>4, PlacesAre DEF Bookkeeping
  <1>8. <<r, i>> # <<s, j>>
    BY <1>3
  <1>9. QED
    BY <1>5, <1>6, <1>7, <1>8

\* An append that finds no page is asking for more places than there are pages.
LEMMA StarvedDemand == Bookkeeping => NeverOutOfPages
  <1> SUFFICES ASSUME Bookkeeping, Starved
               PROVE  Cardinality(Pages) < Cardinality(Demanded)
    BY DEF NeverOutOfPages
  <1>1. free = {} /\ ~Idle
    BY DEF Starved, Short, Writing
  <1>2. IsFiniteSet(Demanded) /\ Places \subseteq Demanded
    BY <1>1, DemandedAre
  <1>3. ASSUME NEW S \in SUBSET Demanded, NEW z \in Demanded, z \notin S, S \subseteq Places,
               \A p \in Pages : \E x \in S : table[x[1]][x[2]] = p
        PROVE  Cardinality(Pages) < Cardinality(Demanded)
    <2> DEFINE f == [x \in S |-> table[x[1]][x[2]]]
    <2>1. f \in [S -> Pages]
      <3>1. \A x \in Places : PageAt[x] = table[x[1]][x[2]] /\ PageAt[x] \in Pages
        BY PlacesAre DEF Bookkeeping, PageAt
      <3>2. QED
        BY <3>1, <1>3
    <2>2. f \in Surjection(S, Pages)
      BY <2>1, <1>3 DEF Surjection
    <2>3. IsFiniteSet(S)
      BY <1>2, FS_Subset
    <2>4. Cardinality(Pages) <= Cardinality(S)
      BY <2>2, <2>3, FS_Surjection
    <2>5. Cardinality(S) < Cardinality(Demanded)
      BY <1>2, <1>3, FS_Subset, FS_CardinalityType
    <2>6. QED
      BY <2>3, <2>4, <2>5, <1>2, CowAssumption, FS_CardinalityType
  <1>4. CASE Short
    <2>1. PICK z : z \in Demanded \ Places
      BY <1>1, <1>4, DemandedAre
    <2>2. QED
      BY <1>1, <1>2, <1>3, <2>1, AllPlaced
  <1>5. CASE Writing /\ refcount[Current] > 1
    <2>1. Current \in Pages
      BY <1>5, ChunkFacts
    <2>2. PICK y, z \in Places : /\ y # z /\ table[y[1]][y[2]] = Current
                                /\ table[z[1]][z[2]] = Current
      BY <1>5, <2>1, SharedPlaces
    <2>3. \A p \in Pages : \E x \in Places \ {z} : table[x[1]][x[2]] = p
      BY <1>1, <2>2, AllPlaced
    <2>4. QED
      BY <1>2, <1>3, <2>2, <2>3
  <1>6. QED
    BY <1>4, <1>5 DEF Starved

\* An append raises only when the rows would not fit with pages of their own: sharing
\* a prefix, and copying a shared page to write it, never cost a page more than the
\* row caches put into the pool.
THEOREM CowNeverOutOfPages == Spec => []NeverOutOfPages
  BY CowSafety, StarvedDemand, PTL

-----------------------------------------------------------------------------
\* The refinement: what an append writes stays behind the sequence, and in front of
\* it nothing that any sequence holds ever changes.

\* Slots in front of a write position on the page of that position are not written.
LEMMA SlotBefore ==
  ASSUME NEW q \in Nat, NEW k \in Nat, q < k, q \div PageSize = k \div PageSize
  PROVE  q % PageSize < k % PageSize
  BY Split, PageSizePositive

\* The contents of a sequence, slot by slot.
LEMMA ContentsAre ==
  ASSUME TypeOK, NEW r \in Requests
  PROVE  /\ Contents(r) = [i \in 1..length[r] |-> Slot(r, i - 1)]
         /\ DOMAIN Contents(r) = 1..length[r] /\ length[r] \in Nat
         /\ table[r] \in Seq(Pages) /\ Len(table[r]) \in Nat
  BY CowAssumption DEF TypeOK, Contents, Slot, SlotIn

\* Every slot a sequence holds, and every slot the append wrote, is on a page of its
\* table.
LEMMA InTable ==
  ASSUME Bookkeeping, NEW r \in Requests, NEW q \in Nat, q < Len(table[r]) * PageSize
  PROVE  /\ q \div PageSize + 1 \in 1..Len(table[r]) /\ q % PageSize \in 0..PageSize - 1
         /\ table[r][q \div PageSize + 1] \in Pages
         /\ table[r][q \div PageSize + 1] \in Range(table[r])
  <1>1. table[r] \in Seq(Pages) /\ Len(table[r]) \in Nat
    BY DEF Bookkeeping, TypeOK
  <1>2. q \div PageSize + 1 \in 1..Len(table[r])
    BY <1>1, PageBelow
  <1>3. q % PageSize \in 0..PageSize - 1
    BY Split
  <1> DEFINE k == q \div PageSize + 1
  <1> HIDE DEF k
  <1>4. k \in 1..Len(table[r]) => table[r][k] \in Pages /\ table[r][k] \in Range(table[r])
    BY <1>1 DEF Range
  <1>5. QED
    BY <1>2, <1>3, <1>4 DEF k

\* The page of the write position holds the chunk from there on and, in front of it,
\* what it held.
LEMMA ChunkSlots ==
  ASSUME Bookkeeping, Writing
  PROVE  /\ \A q \in Nat : q < Position /\ q \div PageSize + 1 = PageIndex
              => Chunk(kv[Current])[q % PageSize] = kv[Current][q % PageSize]
         /\ \A d \in 0..Take - 1 :
              /\ (Position + d) \div PageSize + 1 = PageIndex
              /\ Chunk(kv[Current])[(Position + d) % PageSize] = op.toks[op.taken + 1 + d]
  <1>1. /\ Position \in Nat /\ Offset \in 0..PageSize - 1 /\ Offset = Position % PageSize
        /\ PageIndex = Position \div PageSize + 1
        /\ Take \in Nat /\ Offset + Take <= PageSize
        /\ op.taken \in Nat
    BY ChunkFacts DEF Offset, PageIndex
  <1>2. ASSUME NEW q \in Nat, q < Position, q \div PageSize + 1 = PageIndex
        PROVE  Chunk(kv[Current])[q % PageSize] = kv[Current][q % PageSize]
    <2>1. q \div PageSize = Position \div PageSize
      BY <1>1, <1>2, Split
    <2>2. q % PageSize < Offset /\ q % PageSize \in 0..PageSize - 1
      BY <1>1, <1>2, <2>1, SlotBefore, Split
    <2>3. q % PageSize \notin Offset .. (Offset + Take - 1)
      BY <1>1, <2>2
    <2>4. QED
      BY <2>2, <2>3 DEF Chunk
  <1>3. ASSUME NEW d \in 0..Take - 1
        PROVE  /\ (Position + d) \div PageSize + 1 = PageIndex
               /\ Chunk(kv[Current])[(Position + d) % PageSize] = op.toks[op.taken + 1 + d]
    <2>1. d \in Nat /\ (Position % PageSize) + d < PageSize
      BY <1>1, PageSizePositive
    <2>2. (Position + d) \div PageSize = Position \div PageSize
          /\ (Position + d) % PageSize = Offset + d
      BY <1>1, <2>1, SamePage
    <2>3. Offset + d \in 0..PageSize - 1 /\ Offset + d \in Offset .. (Offset + Take - 1)
          /\ (Offset + d) - Offset = d
      BY <1>1, <2>1, PageSizePositive
    <2>4. Chunk(kv[Current])[Offset + d] = op.toks[op.taken + 1 + d]
      BY <2>3 DEF Chunk
    <2>5. QED
      BY <1>1, <2>2, <2>4
  <1>4. QED
    BY <1>2, <1>3

\* What a write may do to the slots: nothing in front of its position, nothing of
\* another request.
SlotsKept ==
  \A r \in Requests, q \in Nat :
    q < Len(table[r]) * PageSize /\ (r = op.rid => q < Position)
      => SlotIn(table'[r], kv', q) = SlotIn(table[r], kv, q)

ChunkWritten ==
  \A d \in 0..Take - 1 : SlotIn(table'[op.rid], kv', Position + d) = op.toks[op.taken + 1 + d]

\* Nobody else lists a page with one reference, and no table lists it twice: only
\* slots from the write position on change.
LEMMA WriteInPlaceSlots ==
  ASSUME Bookkeeping, WriteInPlace
  PROVE  SlotsKept /\ ChunkWritten
  <1>1. /\ Writing /\ refcount[Current] <= 1 /\ kv' = [kv EXCEPT ![Current] = Chunk(@)]
        /\ table' = table
    BY DEF WriteInPlace
  <1>2. /\ op.rid \in Requests /\ Current \in Pages /\ PageIndex \in 1..Len(table[op.rid])
        /\ op.rid \in Referrers(Current) /\ Current = table[op.rid][PageIndex]
        /\ Position \in Nat
    BY <1>1, ChunkFacts DEF Current
  <1>3. \A x \in Pages : kv'[x] = IF x = Current THEN Chunk(kv[Current]) ELSE kv[x]
    BY <1>1, <1>2 DEF Bookkeeping, TypeOK
  <1>4. Referrers(Current) = {op.rid}
    <2>1. /\ IsFiniteSet(Referrers(Current)) /\ Cardinality(Referrers(Current)) = refcount[Current]
          /\ refcount[Current] \in Nat
      BY <1>2, ReferrersFinite DEF Bookkeeping, RefcountExact, Referrers, TypeOK
    <2>2. /\ Cardinality(Referrers(Current) \ {op.rid}) = Cardinality(Referrers(Current)) - 1
          /\ IsFiniteSet(Referrers(Current) \ {op.rid})
      BY <1>2, <2>1, FS_RemoveElement
    <2>3. Cardinality(Referrers(Current) \ {op.rid}) \in Nat
      BY <2>2, FS_CardinalityType
    <2>4. Referrers(Current) \ {op.rid} = {}
      BY <1>1, <2>1, <2>2, <2>3, FS_EmptySet
    <2>5. QED
      BY <1>2, <2>4
  <1>5. SlotsKept
    <2> SUFFICES ASSUME NEW r \in Requests, NEW q \in Nat,
                        q < Len(table[r]) * PageSize, r = op.rid => q < Position
                 PROVE  kv'[table[r][q \div PageSize + 1]][q % PageSize]
                          = kv[table[r][q \div PageSize + 1]][q % PageSize]
      BY <1>1 DEF SlotsKept, SlotIn
    <2> DEFINE k == q \div PageSize + 1
    <2>1. /\ k \in 1..Len(table[r]) /\ table[r][k] \in Pages /\ table[r][k] \in Range(table[r])
          /\ table[r] \in Seq(Pages) /\ IsInjective(table[r])
      BY InTable DEF Bookkeeping, TypeOK, RefcountExact
    <2>2. CASE table[r][k] # Current
      BY <1>3, <2>1, <2>2
    <2>3. CASE table[r][k] = Current
      <3>1. r = op.rid
        BY <1>4, <2>1, <2>3 DEF Referrers
      <3>2. k = PageIndex
        BY <1>2, <2>1, <2>3, <3>1 DEF IsInjective
      <3>3. Chunk(kv[Current])[q % PageSize] = kv[Current][q % PageSize]
        BY <1>1, <3>1, <3>2, ChunkSlots
      <3>4. QED
        BY <1>2, <1>3, <2>3, <3>3
    <2>4. QED
      BY <2>2, <2>3
  <1>6. ChunkWritten
    BY <1>1, <1>2, <1>3, ChunkSlots DEF ChunkWritten, SlotIn
  <1>7. QED
    BY <1>5, <1>6

\* Nobody lists the copy, and in front of the write position it is the page copied.
LEMMA WriteCopySlots ==
  ASSUME Bookkeeping, WriteCopy
  PROVE  SlotsKept /\ ChunkWritten
  <1> DEFINE w == op.rid
  <1>1. Writing
    BY DEF WriteCopy
  <1>2. PICK p \in free :
          /\ table' = [table EXCEPT ![w][PageIndex] = p]
          /\ kv' = [kv EXCEPT ![p] = Chunk(kv[Current])]
    BY DEF WriteCopy
  <1>3. /\ w \in Requests /\ PageIndex \in 1..Len(table[w]) /\ Position \in Nat
        /\ table[w] \in Seq(Pages) /\ Current = table[w][PageIndex]
    BY <1>1, ChunkFacts DEF Current
  <1>4. p \in Pages /\ \A r \in Requests : p \notin Range(table[r])
    BY FreePages DEF Bookkeeping, Referrers
  <1>5. \A x \in Pages : kv'[x] = IF x = p THEN Chunk(kv[Current]) ELSE kv[x]
    BY <1>2, <1>4 DEF Bookkeeping, TypeOK
  <1>6. /\ \A r \in Requests \ {w} : table'[r] = table[r]
        /\ \A k \in 1..Len(table[w]) : table'[w][k] = IF k = PageIndex THEN p ELSE table[w][k]
    BY <1>2, <1>3 DEF Bookkeeping, TypeOK
  <1>7. SlotsKept
    <2> SUFFICES ASSUME NEW r \in Requests, NEW q \in Nat,
                        q < Len(table[r]) * PageSize, r = op.rid => q < Position
                 PROVE  kv'[table'[r][q \div PageSize + 1]][q % PageSize]
                          = kv[table[r][q \div PageSize + 1]][q % PageSize]
      BY DEF SlotsKept, SlotIn
    <2> DEFINE k == q \div PageSize + 1
    <2>1. k \in 1..Len(table[r]) /\ table[r][k] \in Pages /\ table[r][k] # p
      BY <1>4, InTable
    <2>2. CASE r = w /\ k = PageIndex
      <3>1. Chunk(kv[Current])[q % PageSize] = kv[Current][q % PageSize]
        BY <1>1, <2>2, ChunkSlots
      <3>2. QED
        BY <1>3, <1>4, <1>5, <1>6, <2>1, <2>2, <3>1
    <2>3. CASE ~(r = w /\ k = PageIndex)
      <3>1. table'[r][k] = table[r][k]
        BY <1>6, <2>1, <2>3
      <3>2. QED
        BY <1>5, <2>1, <3>1
    <2>4. QED
      BY <2>2, <2>3
  <1>8. ChunkWritten
    <2>1. table'[w][PageIndex] = p /\ kv'[p] = Chunk(kv[Current])
      BY <1>3, <1>4, <1>5, <1>6
    <2>2. QED
      BY <1>1, <2>1, ChunkSlots DEF ChunkWritten, SlotIn
  <1>9. QED
    BY <1>7, <1>8

\* Either write keeps what every sequence holds and puts its chunk behind the rest of
\* what the append wrote.
LEMMA WriteKeeps ==
  ASSUME Bookkeeping, Written, Bookkeeping', Writing, SlotsKept, ChunkWritten,
         op' = [op EXCEPT !.taken = @ + Take], length' = length
  PROVE  Written' /\ \A r \in Requests : Contents(r)' = Contents(r)
  <1> DEFINE w == op.rid
  <1>1. /\ op \in [rid : known, toks : Seq(Values), taken : Nat] /\ w \in Requests
        /\ length[w] \in Nat /\ Take \in 1..Len(op.toks) - op.taken
        /\ length[w] + Len(op.toks) <= Len(table[w]) * PageSize
        /\ Position = length[w] + op.taken /\ Len(table[w]) \in Nat
    BY ChunkFacts DEF Position, Bookkeeping, TypeOK
  <1>2. /\ op'.rid = w /\ op'.toks = op.toks /\ op'.taken = op.taken + Take
        /\ op.taken \in Nat /\ Take \in Nat /\ Len(op.toks) \in Nat
        /\ op.taken + Take <= Len(op.toks)
    BY <1>1
  <1> HIDE DEF w
  <1>3. Written'
    <2> SUFFICES ASSUME NEW i \in 1..op.taken + Take
                 PROVE  SlotIn(table'[w], kv', length[w] + i - 1) = op.toks[i]
      BY <1>2 DEF Written, Slot, w
    <2>1. CASE i \in 1..op.taken
      <3>1. SlotIn(table[w], kv, length[w] + i - 1) = op.toks[i]
        BY <2>1 DEF Written, Slot, Writing, w
      <3>2. /\ length[w] + i - 1 \in Nat /\ length[w] + i - 1 < Position
            /\ length[w] + i - 1 < length[w] + Len(op.toks)
        BY <1>1, <1>2, <2>1
      <3>3. length[w] + i - 1 < Len(table[w]) * PageSize
        <4> DEFINE capacity == Len(table[w]) * PageSize
        <4>1. capacity \in Nat /\ length[w] + Len(op.toks) <= capacity
          BY <1>1, PageSizePositive
        <4> HIDE DEF capacity
        <4>2. length[w] + i - 1 < capacity
          BY <1>1, <1>2, <3>2, <4>1
        <4>3. QED
          BY <4>2 DEF capacity
      <3>4. QED
        BY <1>1, <3>1, <3>2, <3>3 DEF SlotsKept, w
    <2>2. CASE i \in op.taken + 1 .. op.taken + Take
      <3>1. i - op.taken - 1 \in 0..Take - 1
        BY <1>1, <2>2
      <3>2. /\ Position + (i - op.taken - 1) = length[w] + i - 1
            /\ op.taken + 1 + (i - op.taken - 1) = i
        <4>1. i \in Nat
          BY <1>2
        <4>2. QED
          BY <1>1, <1>2, <4>1
      <3>3. SlotIn(table'[w], kv', Position + (i - op.taken - 1))
              = op.toks[op.taken + 1 + (i - op.taken - 1)]
        BY <3>1 DEF ChunkWritten, w
      <3>4. QED
        BY <3>2, <3>3
    <2>3. QED
      BY <1>1, <2>1, <2>2
  <1>4. ASSUME NEW r \in Requests
        PROVE  Contents(r)' = Contents(r)
    <2>1. \A i \in 1..length[r] : SlotIn(table'[r], kv', i - 1) = SlotIn(table[r], kv, i - 1)
      <3> SUFFICES ASSUME NEW i \in 1..length[r]
                   PROVE  SlotIn(table'[r], kv', i - 1) = SlotIn(table[r], kv, i - 1)
        OBVIOUS
      <3>1. length[r] \in Nat /\ length[r] <= Len(table[r]) * PageSize /\ Len(table[r]) \in Nat
        BY ContentsAre DEF Bookkeeping, LengthCovered
      <3>2. i - 1 \in Nat /\ i - 1 < length[r]
        BY <3>1
      <3>3. i - 1 < Len(table[r]) * PageSize
        BY <3>1, <3>2, PageSizePositive
      <3>4. r = w => i - 1 < Position
        BY <1>1, <3>1, <3>2
      <3>5. QED
        BY <3>2, <3>3, <3>4 DEF SlotsKept, w
    <2>2. QED
      BY <2>1 DEF Contents, SlotIn
  <1>5. QED
    BY <1>3, <1>4

-----------------------------------------------------------------------------
\* The refinement mapping, as CowPages gives it to SequenceStore.
AbsContents == [r \in Requests |-> Contents(r)]
AbsCall == [rid |-> op.rid, toks |-> op.toks]
AbsNoCall == [rid |-> Unset, toks |-> << >>]
AbsVars == <<known, AbsContents, AbsCall>>

\* The store has a call under way exactly when the pages have an append under way.
LEMMA CallUnderWay == OpOK => (Idle <=> AbsCall = AbsNoCall)
  <1>1. CASE Idle
    BY <1>1 DEF Idle, NoOp, AbsCall, AbsNoCall
  <1>2. CASE op \in [rid : known, toks : Seq(Values), taken : Nat] /\ op.toks # << >>
    BY <1>2 DEF Idle, NoOp, AbsCall, AbsNoCall
  <1>3. QED
    BY <1>1, <1>2 DEF OpOK

\* Contents are as long as the length says and hold what slots hold.
LEMMA ContentsType ==
  ASSUME Bookkeeping, NEW r \in Requests
  PROVE  /\ Contents(r) \in Seq(Values \cup {Unset}) /\ Len(Contents(r)) = length[r]
         /\ length[r] \in Nat /\ length[r] <= Len(table[r]) * PageSize
         /\ \A i \in 1..length[r] : Contents(r)[i] = Slot(r, i - 1)
  <1>1. /\ Contents(r) = [i \in 1..length[r] |-> Slot(r, i - 1)] /\ length[r] \in Nat
        /\ Len(table[r]) \in Nat /\ length[r] <= Len(table[r]) * PageSize
    BY ContentsAre DEF Bookkeeping, LengthCovered
  <1>2. ASSUME NEW i \in 1..length[r]
        PROVE  Slot(r, i - 1) \in Values \cup {Unset}
    <2>1. i - 1 \in Nat /\ i - 1 < length[r]
      BY <1>1
    <2>2. i - 1 < Len(table[r]) * PageSize
      BY <1>1, <2>1, PageSizePositive
    <2>3. /\ table[r][(i - 1) \div PageSize + 1] \in Pages
          /\ (i - 1) % PageSize \in 0..PageSize - 1
      BY <2>1, <2>2, InTable
    <2>4. QED
      BY <2>3 DEF Bookkeeping, TypeOK, Slot, SlotIn
  <1>3. QED
    BY <1>1, <1>2

\* A sequence that agrees with another up to its length is a prefix of it.
LEMMA Agree ==
  ASSUME NEW S, NEW s \in Seq(S), NEW t \in Seq(S), Len(s) <= Len(t),
         \A i \in 1..Len(s) : s[i] = t[i]
  PROVE  Store!IsPrefix(s, t)
  <1>1. Len(s) \in Nat /\ Len(t) \in Nat
    OBVIOUS
  <1>2. SubSeq(s, 1, Len(s)) = SubSeq(t, 1, Len(s))
    BY <1>1
  <1>3. QED
    BY <1>2 DEF Store!IsPrefix

\* Whatever leaves the tables and the tensors of the slots a sequence holds alone
\* leaves its contents alone.
LEMMA SameSlots ==
  ASSUME NEW r \in Requests, length'[r] = length[r],
         \A i \in 1..length[r] : SlotIn(table'[r], kv', i - 1) = SlotIn(table[r], kv, i - 1)
  PROVE  Contents(r)' = Contents(r)
  BY DEF Contents, SlotIn

\* The start of an append calls the store.
LEMMA StartAppendStores ==
  ASSUME CowInv, NEW r \in Requests, NEW toks \in Strings, StartAppend(r, toks)
  PROVE  Store!Call
  <1>1. /\ Idle /\ op' = [rid |-> r, toks |-> toks, taken |-> 0] /\ known' = known \cup {r}
        /\ UNCHANGED <<table, length, kv>>
    BY DEF StartAppend
  <1>2. toks \in Seq(Values)
    <2>1. PICK n \in 1..MaxAppend : toks \in [1..n -> Values]
      BY DEF Strings
    <2>2. n \in Nat
      BY CowAssumption
    <2>3. QED
      BY <2>1, <2>2
  <1>3. AbsCall = AbsNoCall /\ AbsCall' = [rid |-> r, toks |-> toks]
    BY <1>1, CallUnderWay DEF CowInv, Bookkeeping, AbsCall
  <1>4. AbsContents' = AbsContents
    BY <1>1 DEF AbsContents, Contents
  <1>5. QED
    BY <1>1, <1>2, <1>3, <1>4 DEF Store!Call, AbsCall, AbsNoCall, AbsContents

\* A page more is not seen by the store.
LEMMA GrowTableStores ==
  ASSUME CowInv, GrowTable
  PROVE  UNCHANGED AbsVars
  <1> DEFINE w == op.rid
  <1>1. /\ w \in Requests /\ UNCHANGED <<known, length, kv, op>>
        /\ \E p \in free : table' = [table EXCEPT ![w] = Append(@, p)]
    BY DEF GrowTable, CowInv, Bookkeeping, OpOK, TypeOK, Short
  <1>2. PICK p \in free : table' = [table EXCEPT ![w] = Append(@, p)]
    BY <1>1
  <1>3. p \in Pages /\ \A r \in Requests : table[r] \in Seq(Pages)
    BY DEF CowInv, Bookkeeping, TypeOK
  <1>4. \A r \in Requests, k \in Nat : k \in 1..Len(table[r]) => table'[r][k] = table[r][k]
    BY <1>1, <1>2, <1>3 DEF CowInv, Bookkeeping, TypeOK
  <1>5. ASSUME NEW r \in Requests
        PROVE  Contents(r)' = Contents(r)
    <2>1. length[r] \in Nat /\ length[r] <= Len(table[r]) * PageSize /\ Len(table[r]) \in Nat
      BY <1>3, ContentsType DEF CowInv
    <2>2. ASSUME NEW i \in 1..length[r]
          PROVE  SlotIn(table'[r], kv', i - 1) = SlotIn(table[r], kv, i - 1)
      <3>1. i - 1 \in Nat /\ i - 1 < length[r]
        BY <2>1
      <3>2. i - 1 < Len(table[r]) * PageSize
        BY <2>1, <3>1, PageSizePositive
      <3>3. (i - 1) \div PageSize + 1 \in 1..Len(table[r])
        BY <2>1, <3>1, <3>2, PageBelow
      <3>4. table'[r][(i - 1) \div PageSize + 1] = table[r][(i - 1) \div PageSize + 1]
        BY <1>4, <2>1, <3>3
      <3>5. QED
        BY <1>1, <3>4 DEF SlotIn
    <2>3. QED
      BY <1>1, <2>2, SameSlots
  <1>6. QED
    BY <1>1, <1>5 DEF AbsVars, AbsContents, AbsCall

\* Nor is a chunk written behind the sequence.
LEMMA WriteStores ==
  ASSUME CowInv, Bookkeeping', WriteInPlace \/ WriteCopy
  PROVE  UNCHANGED AbsVars /\ Written'
  <1>1. /\ Writing /\ op' = [op EXCEPT !.taken = @ + Take] /\ UNCHANGED <<known, length>>
    BY DEF WriteInPlace, WriteCopy
  <1>2. op \in [rid : known, toks : Seq(Values), taken : Nat]
    BY <1>1, ChunkFacts DEF CowInv
  <1>3. SlotsKept /\ ChunkWritten
    BY WriteInPlaceSlots, WriteCopySlots DEF CowInv
  <1>4. Written' /\ \A r \in Requests : Contents(r)' = Contents(r)
    BY <1>1, <1>3, WriteKeeps DEF CowInv
  <1>5. AbsCall' = AbsCall
    BY <1>1, <1>2 DEF AbsCall
  <1>6. QED
    BY <1>1, <1>4, <1>5 DEF AbsVars, AbsContents

\* A concatenation, element by element.
LEMMA Joined ==
  ASSUME NEW S, NEW s \in Seq(S), NEW t \in Seq(S)
  PROVE  s \o t = [i \in 1..Len(s) + Len(t) |-> IF i <= Len(s) THEN s[i] ELSE t[i - Len(s)]]
  <1> DEFINE u == s \o t
             k == Len(s) + Len(t)
  <1>1. /\ u \in Seq(S) /\ Len(u) = k
        /\ \A i \in 1..k : u[i] = IF i <= Len(s) THEN s[i] ELSE t[i - Len(s)]
    BY ConcatProperties
  <1> HIDE DEF u, k
  <1>2. u = [i \in 1..k |-> u[i]]
    BY <1>1
  <1>3. u = [i \in 1..k |-> IF i <= Len(s) THEN s[i] ELSE t[i - Len(s)]]
    BY <1>1, <1>2
  <1>4. QED
    BY <1>3 DEF u, k

\* The append has written all its tokens behind the sequence: advancing the length
\* is the append of the store.
LEMMA FinishAppendStores ==
  ASSUME CowInv, Bookkeeping', FinishAppend
  PROVE  Store!AppendDone
  <1>0. op.rid \in Requests /\ op.toks \in Seq(Values) /\ Len(op.toks) \in Nat
    BY DEF CowInv, Bookkeeping, OpOK, TypeOK, FinishAppend
  <1> PICK w \in Requests : w = op.rid
    BY <1>0
  <1>1. /\ ~Idle /\ op.taken = Len(op.toks) /\ op' = NoOp
        /\ length' = [length EXCEPT ![w] = @ + Len(op.toks)]
        /\ UNCHANGED <<known, table, kv>>
    BY DEF FinishAppend
  <1>3. AbsCall # AbsNoCall /\ AbsCall' = AbsNoCall /\ AbsCall.rid = w /\ AbsCall.toks = op.toks
    BY <1>1, CallUnderWay DEF CowInv, Bookkeeping, AbsCall, AbsNoCall, NoOp
  <1>4. ASSUME NEW r \in Requests \ {w}
        PROVE  Contents(r)' = Contents(r)
    <2>1. length'[r] = length[r]
      BY <1>1 DEF CowInv, Bookkeeping, TypeOK
    <2>2. QED
      BY <1>1, <2>1 DEF Contents
  <1>5. Contents(w)' = Contents(w) \o op.toks
    <2> DEFINE n == length[w]
               m == Len(op.toks)
    <2>1. /\ Contents(w) \in Seq(Values \cup {Unset}) /\ Len(Contents(w)) = n
          /\ n \in Nat /\ m \in Nat /\ \A i \in 1..n : Contents(w)[i] = Slot(w, i - 1)
      BY <1>0, ContentsType DEF CowInv
    <2>2. length'[w] = n + m
      BY <1>1, <1>0 DEF CowInv, Bookkeeping, TypeOK
    <2>3. Contents(w)' = [i \in 1..n + m |-> Slot(w, i - 1)]
      BY <1>1, <2>2 DEF Contents, Slot, SlotIn
    <2>4. \A i \in 1..m : Slot(w, n + i - 1) = op.toks[i]
      BY <1>1 DEF CowInv, Written
    <2> HIDE DEF n, m
    <2>5. \A i \in n + 1 .. n + m : Slot(w, i - 1) = op.toks[i - n]
      <3> SUFFICES ASSUME NEW i \in n + 1 .. n + m
                   PROVE  Slot(w, i - 1) = op.toks[i - n]
        OBVIOUS
      <3>1. i - n \in 1..m /\ n + (i - n) - 1 = i - 1
        BY <2>1
      <3>2. QED
        BY <2>4, <3>1
    <2>6. Contents(w) \o op.toks
            = [i \in 1..n + m |-> IF i <= n THEN Contents(w)[i] ELSE op.toks[i - n]]
      <3>1. op.toks \in Seq(Values \cup {Unset})
        BY <1>0
      <3> DEFINE c == Contents(w)
                 t == op.toks
                 S == Values \cup {Unset}
      <3>2. c \in Seq(S) /\ t \in Seq(S) /\ Len(c) = n /\ Len(t) = m
        BY <2>1, <3>1 DEF m
      <3> HIDE DEF c, t, S
      <3>3. c \o t = [i \in 1..Len(c) + Len(t) |-> IF i <= Len(c) THEN c[i] ELSE t[i - Len(c)]]
        BY <3>2, Joined
      <3>4. c \o t = [i \in 1..n + m |-> IF i <= n THEN c[i] ELSE t[i - n]]
        BY <3>2, <3>3
      <3>5. QED
        BY <3>4 DEF c, t
    <2>7. \A i \in 1..n + m : Slot(w, i - 1) = IF i <= n THEN Contents(w)[i] ELSE op.toks[i - n]
      <3> SUFFICES ASSUME NEW i \in 1..n + m
                   PROVE  Slot(w, i - 1) = IF i <= n THEN Contents(w)[i] ELSE op.toks[i - n]
        OBVIOUS
      <3>1. CASE i \in 1..n
        BY <2>1, <3>1
      <3>2. CASE i \in n + 1 .. n + m
        BY <2>1, <2>5, <3>2
      <3>3. QED
        BY <2>1, <3>1, <3>2
    <2>8. QED
      BY <2>3, <2>6, <2>7
  <1>6. AbsContents' = [AbsContents EXCEPT ![w] = @ \o op.toks]
    BY <1>0, <1>4, <1>5 DEF AbsContents
  <1>7. QED
    BY <1>1, <1>3, <1>6 DEF Store!AppendDone, AbsCall, AbsNoCall, AbsContents

\* An append that raises adds nothing, although some of its tokens are written.
LEMMA OutOfPagesStores ==
  ASSUME CowInv, OutOfPages
  PROVE  Store!AppendRaises
  <1>1. ~Idle /\ op' = NoOp /\ UNCHANGED <<known, table, length, kv>>
    BY DEF OutOfPages, Starved, Short, Writing
  <1>2. AbsCall # AbsNoCall /\ AbsCall' = AbsNoCall
    BY <1>1, CallUnderWay DEF CowInv, Bookkeeping, AbsCall, AbsNoCall, NoOp
  <1>3. AbsContents' = AbsContents
    BY <1>1 DEF AbsContents, Contents
  <1>4. QED
    BY <1>1, <1>2, <1>3 DEF Store!AppendRaises, AbsCall, AbsNoCall, AbsContents

\* The contents of every request are a sequence of what its slots hold.
ContentsOK ==
  \A r \in Requests :
    /\ Contents(r) \in Seq(Values \cup {Unset}) /\ Len(Contents(r)) = length[r]
    /\ \A i \in 1..length[r] : Contents(r)[i] = SlotIn(table[r], kv, i - 1)

\* ContentsOK follows from the bookkeeping (and so, primed, from its next state).
LEMMA ContentsTyped == Bookkeeping => ContentsOK
  BY ContentsType DEF ContentsOK, Slot

\* Contents after a step that are the shorter, or the longer, of two that agree.
LEMMA NewPrefix ==
  ASSUME Bookkeeping, Bookkeeping', NEW s \in Requests, NEW r \in Requests, NEW n \in Nat,
         n <= length[s], n <= length'[r],
         \A i \in 1..n : SlotIn(table'[r], kv', i - 1) = SlotIn(table[s], kv, i - 1)
  PROVE  /\ length'[r] = n => Store!IsPrefix(Contents(r)', Contents(s))
         /\ length[s] = n => Store!IsPrefix(Contents(s), Contents(r)')
  <1>1. ContentsOK /\ ContentsOK'
    <2>1. Bookkeeping' => ContentsOK'
      BY ContentsTyped, PTL
    <2>2. QED
      BY <2>1, ContentsTyped
  <1> DEFINE S == Values \cup {Unset}
             old == Contents(s)
             new == Contents(r)'
  <1>2. /\ old \in Seq(S) /\ Len(old) = length[s]
        /\ \A i \in 1..length[s] : old[i] = SlotIn(table[s], kv, i - 1)
    BY <1>1 DEF ContentsOK
  <1>3. /\ new \in Seq(S) /\ Len(new) = length'[r]
        /\ \A i \in 1..length'[r] : new[i] = SlotIn(table'[r], kv', i - 1)
    BY <1>1 DEF ContentsOK
  <1>4. length[s] \in Nat /\ length'[r] \in Nat
    BY <1>2, <1>3
  <1> HIDE DEF old, new, S
  <1>5. \A i \in 1..n : old[i] = new[i]
    BY <1>2, <1>3, <1>4
  <1>6. length'[r] = n => Store!IsPrefix(new, old)
    BY <1>2, <1>3, <1>4, <1>5, Agree
  <1>7. length[s] = n => Store!IsPrefix(old, new)
    BY <1>2, <1>3, <1>4, <1>5, Agree
  <1>8. QED
    BY <1>6, <1>7 DEF old, new

\* A prefix of a table that covers n tokens holds them where the table does.
LEMMA PrefixSlots ==
  ASSUME NEW pages \in Seq(Pages), NEW n \in Nat, Ceil(n) \in 0..Len(pages), NEW tensors
  PROVE  \A i \in 1..n : SlotIn(SubSeq(pages, 1, Ceil(n)), tensors, i - 1)
                           = SlotIn(pages, tensors, i - 1)
  <1> SUFFICES ASSUME NEW i \in 1..n
               PROVE  SubSeq(pages, 1, Ceil(n))[(i - 1) \div PageSize + 1]
                        = pages[(i - 1) \div PageSize + 1]
    BY DEF SlotIn
  <1> DEFINE c == Ceil(n)
             k == (i - 1) \div PageSize + 1
  <1>1. c \in 0..Len(pages) /\ n <= c * PageSize
    BY CeilCovers
  <1> HIDE DEF c
  <1>2. i - 1 \in Nat /\ i - 1 < c * PageSize
    BY <1>1, PageSizePositive
  <1>3. k \in 1..c
    BY <1>1, <1>2, PageBelow
  <1> HIDE DEF k
  <1>4. SubSeq(pages, 1, c)[k] = pages[k]
    BY <1>1, <1>3
  <1>5. QED
    BY <1>4 DEF c, k

\* The step of another request leaves the rest of the store alone.
LEMMA OthersKept ==
  ASSUME NEW r \in Requests, kv' = kv,
         \A q \in Requests \ {r} : table'[q] = table[q] /\ length'[q] = length[q]
  PROVE  \A q \in Requests \ {r} : AbsContents'[q] = AbsContents[q]
  BY DEF AbsContents, Contents

\* The target of an alias gets a prefix of the source and no one else changes.
LEMMA AliasPrefixStores ==
  ASSUME CowInv, Bookkeeping', NEW src \in Requests, NEW dst \in Requests, NEW n \in 0..MaxLen,
         AliasPrefix(src, dst, n)
  PROVE  Store!Alias(src, dst)
  <1>1. /\ src \in known /\ dst \notin known /\ n \in 0..length[src]
        /\ table' = [table EXCEPT ![dst] = SubSeq(table[src], 1, Ceil(n))]
        /\ length' = [length EXCEPT ![dst] = n] /\ known' = known \cup {dst} /\ kv' = kv
    BY DEF AliasPrefix
  <1>2. /\ table'[dst] = SubSeq(table[src], 1, Ceil(n)) /\ length'[dst] = n
        /\ \A q \in Requests \ {dst} : table'[q] = table[q] /\ length'[q] = length[q]
    BY <1>1 DEF CowInv, Bookkeeping, TypeOK
  <1>3. /\ n \in Nat /\ n <= length[src] /\ table[src] \in Seq(Pages)
        /\ Ceil(n) \in 0..Len(table[src])
    BY <1>1, ShortEnough DEF CowInv, Bookkeeping, TypeOK
  <1>4. \A i \in 1..n : SlotIn(table'[dst], kv', i - 1) = SlotIn(table[src], kv, i - 1)
    <2>1. \A i \in 1..n : SlotIn(SubSeq(table[src], 1, Ceil(n)), kv, i - 1)
                            = SlotIn(table[src], kv, i - 1)
      BY <1>3, PrefixSlots
    <2>2. QED
      BY <1>1, <1>2, <2>1
  <1>5. Store!IsPrefix(Contents(dst)', Contents(src))
    <2>1. n <= length'[dst] /\ Bookkeeping
      BY <1>2, <1>3 DEF CowInv
    <2>2. length'[dst] = n => Store!IsPrefix(Contents(dst)', Contents(src))
      BY <1>3, <1>4, <2>1, NewPrefix
    <2>3. QED
      BY <1>2, <2>2
  <1>6. \A q \in Requests \ {dst} : AbsContents'[q] = AbsContents[q]
    BY <1>1, <1>2, OthersKept
  <1>7. AbsContents'[dst] = Contents(dst)' /\ AbsContents[src] = Contents(src)
    BY DEF AbsContents
  <1>8. QED
    BY <1>1, <1>5, <1>6, <1>7 DEF Store!Alias, Store!Only, AbsContents

\* Freeing empties one sequence.
LEMMA FreeStores ==
  ASSUME CowInv, NEW r \in Requests, Free(r)
  PROVE  Store!Free(r)
  <1>1. /\ known' = known \ {r} /\ table' = [table EXCEPT ![r] = << >>]
        /\ length' = [length EXCEPT ![r] = 0] /\ kv' = kv
    BY DEF Free
  <1>2. length'[r] = 0 /\ \A q \in Requests \ {r} : table'[q] = table[q] /\ length'[q] = length[q]
    BY <1>1 DEF CowInv, Bookkeeping, TypeOK
  <1>3. AbsContents'[r] = << >>
    <2>1. AbsContents'[r] = Contents(r)'
      BY DEF AbsContents
    <2>2. Contents(r)' = << >>
      BY <1>2 DEF Contents
    <2>3. QED
      BY <2>1, <2>2
  <1>4. \A q \in Requests \ {r} : AbsContents'[q] = AbsContents[q]
    BY <1>1, <1>2, OthersKept
  <1>5. QED
    BY <1>1, <1>3, <1>4 DEF Store!Free, Store!Only, AbsContents

\* set_length and truncate both keep the pages of what stays: they shorten the
\* sequence or lengthen it within its pages.
LEMMA NewLengthStores ==
  ASSUME CowInv, Bookkeeping', NEW r \in Requests, NEW n \in 0..MaxLen,
         SetLength(r, n) \/ Truncate(r, n)
  PROVE  Store!Shorten(r) \/ Store!Lengthen(r)
  <1>1. /\ r \in known \/ n = 0
        /\ n <= length[r] \/ n <= Len(table[r]) * PageSize
        /\ table' = [table EXCEPT ![r] = SubSeq(table[r], 1, Ceil(n))] \/ table' = table
        /\ length' = [length EXCEPT ![r] = n] /\ known' = known \cup {r} /\ kv' = kv
    BY DEF SetLength, Truncate
  <1>2. /\ length'[r] = n
        /\ table'[r] = SubSeq(table[r], 1, Ceil(n)) \/ table'[r] = table[r]
        /\ \A q \in Requests \ {r} : table'[q] = table[q] /\ length'[q] = length[q]
    BY <1>1 DEF CowInv, Bookkeeping, TypeOK
  <1>3. /\ n \in Nat /\ length[r] \in Nat /\ table[r] \in Seq(Pages)
        /\ Ceil(n) \in 0..Len(table[r])
    BY <1>1, ShortEnough, CowAssumption DEF CowInv, Bookkeeping, TypeOK
  <1>4. \A i \in 1..n : SlotIn(table'[r], kv', i - 1) = SlotIn(table[r], kv, i - 1)
    <2>1. CASE table'[r] = SubSeq(table[r], 1, Ceil(n))
      BY <1>1, <1>3, <2>1, PrefixSlots
    <2>2. CASE table'[r] = table[r]
      BY <1>1, <2>2 DEF SlotIn
    <2>3. QED
      BY <1>2, <2>1, <2>2
  <1>5. \A q \in Requests \ {r} : AbsContents'[q] = AbsContents[q]
    BY <1>1, <1>2, OthersKept
  <1>6. AbsContents'[r] = Contents(r)' /\ AbsContents[r] = Contents(r)
    BY DEF AbsContents
  <1>7. CASE n <= length[r]
    <2>1. Store!IsPrefix(Contents(r)', Contents(r))
      BY <1>2, <1>3, <1>4, <1>7, NewPrefix DEF CowInv
    <2>2. QED
      BY <1>1, <1>5, <1>6, <2>1 DEF Store!Shorten, Store!Only, AbsContents
  <1>8. CASE length[r] < n
    <2>1. \A i \in 1..length[r] : SlotIn(table'[r], kv', i - 1) = SlotIn(table[r], kv, i - 1)
      BY <1>3, <1>4, <1>8
    <2>2. Store!IsPrefix(Contents(r), Contents(r)')
      <3>1. length[r] <= length[r] /\ length[r] <= length'[r] /\ Bookkeeping
        BY <1>2, <1>3, <1>8 DEF CowInv
      <3>2. length[r] = length[r] => Store!IsPrefix(Contents(r), Contents(r)')
        BY <1>3, <2>1, <3>1, NewPrefix
      <3>3. QED
        BY <3>2
    <2>3. r \in known
      BY <1>1, <1>3, <1>8
    <2>4. known' = known
      BY <1>1, <2>3
    <2>5. QED
      BY <1>5, <1>6, <2>2, <2>3, <2>4 DEF Store!Lengthen, Store!Only, AbsContents
  <1>9. QED
    BY <1>3, <1>7, <1>8

-----------------------------------------------------------------------------
\* The strengthened invariant, and the implementation.

\* No append is under way at first.
LEMMA CowInvInit == Init => CowInv
  BY BookkeepingInit DEF CowInv, Written, Init, Idle

\* The strengthened invariant is inductive.
LEMMA CowInvStep == CowInv /\ [Next]_vars => CowInv'
  <1> SUFFICES ASSUME CowInv, [Next]_vars PROVE CowInv'
    OBVIOUS
  <1>1. Bookkeeping'
    BY BookkeepingStep DEF CowInv
  <1>2. Written'
    <2>1. CASE WriteInPlace \/ WriteCopy
      BY <1>1, <2>1, WriteStores
    <2>2. CASE \E r \in Requests, toks \in Strings : StartAppend(r, toks)
      BY <2>2 DEF StartAppend, Written
    <2>3. CASE GrowTable
      <3>1. op' = op /\ op.taken = 0
        BY <2>3 DEF GrowTable, CowInv, Bookkeeping, OpOK, Short
      <3>2. QED
        BY <3>1 DEF Written
    <2>4. CASE FinishAppend \/ OutOfPages
      BY <2>4 DEF FinishAppend, OutOfPages, Written, Idle
    <2>5. CASE \/ \E src, dst \in Requests, n \in 0..MaxLen : AliasPrefix(src, dst, n)
               \/ \E r \in Requests : Free(r)
               \/ \E r \in Requests, n \in 0..MaxLen : SetLength(r, n) \/ Truncate(r, n)
      <3>1. Idle /\ op' = op
        BY <2>5 DEF AliasPrefix, Free, SetLength, Truncate
      <3>2. QED
        BY <3>1 DEF Written, Idle
    <2>6. CASE UNCHANGED vars
      BY <2>6 DEF vars, CowInv, Written, Slot, SlotIn, Idle
    <2>7. QED
      BY <2>1, <2>2, <2>3, <2>4, <2>5, <2>6 DEF Next
  <1>3. QED
    BY <1>1, <1>2 DEF CowInv

\* An empty cache is an empty store.
LEMMA StoreInit == Init => Store!Init
  <1> SUFFICES ASSUME Init PROVE Store!Init
    OBVIOUS
  <1>1. known = {} /\ length = [r \in Requests |-> 0] /\ op = NoOp
    BY DEF Init
  <1>2. \A r \in Requests : Contents(r) = << >>
    BY <1>1 DEF Contents
  <1>3. QED
    BY <1>1, <1>2 DEF Store!Init, NoOp

\* Every step of the pages is a step of the store or none.
LEMMA StoreStep == CowInv /\ CowInv' /\ [Next]_vars => Store!Next \/ UNCHANGED AbsVars
  <1> SUFFICES ASSUME CowInv, CowInv', [Next]_vars
               PROVE  Store!Next \/ UNCHANGED AbsVars
    OBVIOUS
  <1>1. Bookkeeping'
    BY DEF CowInv
  <1>2. CASE \E r \in Requests, toks \in Strings : StartAppend(r, toks)
    BY <1>2, StartAppendStores DEF Store!Next
  <1>3. CASE GrowTable \/ WriteInPlace \/ WriteCopy
    BY <1>1, <1>3, GrowTableStores, WriteStores
  <1>4. CASE FinishAppend \/ OutOfPages
    BY <1>1, <1>4, FinishAppendStores, OutOfPagesStores DEF Store!Next
  <1>5. CASE \/ \E src, dst \in Requests, n \in 0..MaxLen : AliasPrefix(src, dst, n)
             \/ \E r \in Requests : Free(r)
             \/ \E r \in Requests, n \in 0..MaxLen : SetLength(r, n) \/ Truncate(r, n)
    <2>1. AbsCall = AbsNoCall /\ AbsCall' = AbsCall
      <3>1. Idle /\ op' = op
        BY <1>5 DEF AliasPrefix, Free, SetLength, Truncate
      <3>2. QED
        BY <3>1 DEF Idle, NoOp, AbsCall, AbsNoCall
    <2>2. \E r \in Requests :
            \/ Store!Shorten(r) \/ Store!Lengthen(r) \/ Store!Free(r)
            \/ \E src \in Requests : Store!Alias(src, r)
      BY <1>1, <1>5, AliasPrefixStores, FreeStores, NewLengthStores
    <2>3. QED
      BY <2>1, <2>2 DEF Store!Next, AbsCall, AbsNoCall
  <1>6. CASE UNCHANGED vars
    BY <1>6 DEF vars, AbsVars, AbsContents, AbsCall, Contents
  <1>7. QED
    BY <1>2, <1>3, <1>4, <1>5, <1>6 DEF Next

\* PagedKVCache implements a store of independent sequences: whatever pages requests
\* share, an operation on one changes the contents of no other, and an append adds
\* exactly its tokens or, when the pool runs out half-way, none.
THEOREM CowImplements == Spec => StoreSpec
  <1>1. CowInv /\ CowInv' /\ [Next]_vars
          => [Store!Next]_<<known, [r \in Requests |-> Contents(r)],
                           [rid |-> op.rid, toks |-> op.toks]>>
    BY StoreStep DEF AbsVars, AbsContents, AbsCall
  <1>2. QED
    BY <1>1, StoreInit, CowInvInit, CowInvStep, PTL DEF Spec, StoreSpec, Store!Spec

=============================================================================
