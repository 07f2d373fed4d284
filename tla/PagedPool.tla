----------------------------- MODULE PagedPool -----------------------------
(***************************************************************************)
(* The page pool of runtime/paged.py, class LayeredPagedKVCache, as its    *)
(* clients see it: a free list, a reference count per page, and one page   *)
(* table per owner.  An owner is either a live sequence (the request's     *)
(* block table, `_sequences[rid].page_ids`) or an entry of the prefix      *)
(* cache (the `keep` list whose pages it retained).  All layers share one  *)
(* block table, so the layer dimension does not appear.                    *)
(*                                                                         *)
(* The free list is a LIFO in the code.  Here it is a set and an           *)
(* allocation may take any of its pages, so the results hold for every     *)
(* order of the list.                                                      *)
(***************************************************************************)
EXTENDS Naturals, Sequences, FiniteSets, Functions

CONSTANTS Pages,     \* the physical pages of the pool
          Owners,    \* everything that may hold a reference to a page
          MaxTable   \* bound: the longest page table of the model

ASSUME PagesAssumption == IsFiniteSet(Pages)
ASSUME OwnersAssumption == IsFiniteSet(Owners)
ASSUME MaxTableAssumption == MaxTable \in Nat

VARIABLES free,      \* self._free_pages
          refcount,  \* self._page_refcount
          table      \* page_ids of every owner; << >> when it has none

poolVars == <<free, refcount, table>>

Held(o) == Range(table[o])

\* The owners that list page p.
Referrers(p) == {o \in Owners : p \in Held(o)}

TypeOK ==
  /\ free \in SUBSET Pages
  /\ refcount \in [Pages -> Nat]
  /\ table \in [Owners -> Seq(Pages)]

Init ==
  /\ free = Pages
  /\ refcount = [p \in Pages |-> 0]
  /\ table = [o \in Owners |-> << >>]

(***************************************************************************)
(* reserve(request_id, total_tokens): pop pages until the table has        *)
(* `required` of them.  The caller is refused (RuntimeError) when the pool *)
(* runs dry half-way, and keeps the pages it already got.                  *)
(***************************************************************************)
\* The pages a request takes to grow its table by k pages.
Picks(k) == Injection(1..k, free)

\* Mutant: the pages taken stay in the free list.
GrowKeepsFree(o, f) ==
  /\ refcount' = [p \in Pages |-> IF p \in Range(f) THEN 1 ELSE refcount[p]]
  /\ table' = [table EXCEPT ![o] = @ \o f]
  /\ UNCHANGED free

Grow(o, f) ==
  /\ free' = free \ Range(f)
  /\ refcount' = [p \in Pages |-> IF p \in Range(f) THEN 1 ELSE refcount[p]]
  /\ table' = [table EXCEPT ![o] = @ \o f]

\* How many pages the table of o lacks to hold `required` of them.
Missing(o, required) == IF required > Len(table[o]) THEN required - Len(table[o]) ELSE 0

Reserve(o, required) ==
  /\ Missing(o, required) <= Cardinality(free)
  /\ \E f \in Picks(Missing(o, required)) : Grow(o, f)

ReserveOutOfPages(o, required) ==
  /\ Missing(o, required) > Cardinality(free)
  /\ \E f \in Picks(Cardinality(free)) : Grow(o, f)

\* Mutant: a shared page gets no reference.
AliasWithoutRetain(src, dst, k) ==
  /\ k \in 1..Len(table[src]) /\ table[dst] = << >>
  /\ table' = [table EXCEPT ![dst] = SubSeq(table[src], 1, k)]
  /\ UNCHANGED <<free, refcount>>

(***************************************************************************)
(* Hand the first k pages of src to dst without a copy, one more reference *)
(* each.  share_prefix (sequence to sequence), PagedPrefixCache.share_into *)
(* (entry to sequence) and PagedPrefixCache.remember (sequence to entry)   *)
(* are this one operation.                                                 *)
(***************************************************************************)
Alias(src, dst, k) ==
  LET shared == SubSeq(table[src], 1, k)
  IN /\ k \in 1..Len(table[src])
     /\ table[dst] = << >>
     /\ table' = [table EXCEPT ![dst] = shared]
     /\ refcount' = [p \in Pages |-> IF p \in Range(shared)
                                     THEN refcount[p] + 1 ELSE refcount[p]]
     /\ UNCHANGED free

\* Mutant: two references are dropped per page.
ReleaseTwice(o) ==
  /\ table[o] # << >>
  /\ table' = [table EXCEPT ![o] = << >>]
  /\ refcount' = [p \in Pages |-> IF p \in Held(o) THEN refcount[p] - 2 ELSE refcount[p]]
  /\ free' = free \cup {p \in Held(o) : refcount[p] <= 2}

\* Mutant: a page returns to the pool although somebody still refers to it.
ReleaseShared(o) ==
  /\ table[o] # << >>
  /\ table' = [table EXCEPT ![o] = << >>]
  /\ refcount' = [p \in Pages |-> IF p \in Held(o) THEN refcount[p] - 1 ELSE refcount[p]]
  /\ free' = free \cup Held(o)

(***************************************************************************)
(* free(request_id), and _drop_entry of the prefix cache: every page loses *)
(* one reference and returns to the pool when that was the last one.       *)
(***************************************************************************)
Release(o) ==
  /\ table[o] # << >>
  /\ table' = [table EXCEPT ![o] = << >>]
  /\ refcount' = [p \in Pages |-> IF p \in Held(o)
                                  THEN IF refcount[p] <= 1 THEN 0 ELSE refcount[p] - 1
                                  ELSE refcount[p]]
  /\ free' = free \cup {p \in Held(o) : refcount[p] <= 1}

Next ==
  \/ \E o \in Owners, n \in 1..MaxTable : Reserve(o, n) \/ ReserveOutOfPages(o, n)
  \/ \E src, dst \in Owners, k \in 1..MaxTable : Alias(src, dst, k)
  \/ \E o \in Owners : Release(o)

Spec == Init /\ [][Next]_poolVars

-----------------------------------------------------------------------------
(* Properties *)

\* A page's count is the number of block tables and cache entries that list it:
\* a count too low hands a live page to somebody else, one too high leaks it.
RefcountExact == \A p \in Pages : refcount[p] = Cardinality(Referrers(p))

\* "0 means the page is in the free pool", and only then.
FreeExact == \A p \in Pages : p \in free <=> refcount[p] = 0

\* "a sequence never lists the same page twice": free() decrements once per
\* listed page and relies on it.
NoPageTwice == \A o \in Owners : IsInjective(table[o])

PoolInv == TypeOK /\ RefcountExact /\ FreeExact /\ NoPageTwice

=============================================================================
