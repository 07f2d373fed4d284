------------------------------ MODULE CowPages ------------------------------
(***************************************************************************)
(* PagedKVCache of runtime/paged.py: sequences over reference-counted      *)
(* pages that are copied before a shared one is written.                   *)
(*                                                                         *)
(* append() is cut where it can fail or where a page changes: it grows the *)
(* table one page at a time, then writes one chunk per page, copying a     *)
(* shared page first, and only then advances the length.  Allocation may   *)
(* raise in both loops.  Pages keep what their last owner wrote, as the    *)
(* tensors do.                                                             *)
(***************************************************************************)
EXTENDS Naturals, Sequences, FiniteSetsExt, Functions

CONSTANTS Pages,     \* the pool
          PageSize,  \* tokens per page
          Requests,  \* request ids
          Values,    \* KV values
          Unset,     \* what torch.empty left in a slot
          MaxLen,    \* max_seq_len of the row caches built on this class
          MaxAppend  \* bound: tokens of one append

ASSUME CowAssumption ==
  /\ IsFiniteSet(Pages) /\ IsFiniteSet(Requests)
  /\ PageSize \in Nat \ {0} /\ MaxLen \in Nat /\ MaxAppend \in Nat \ {0}
  /\ Unset \notin Values

VARIABLES free,      \* _free_pages
          refcount,  \* _page_refcounts
          known,     \* the keys of _sequences
          table,     \* page_ids
          length,    \* length
          kv,        \* the tensors: page -> offset -> value
          op         \* the append under way: rid, toks, taken (token_offset)

vars == <<free, refcount, known, table, length, kv, op>>

Ceil(n) == (n + PageSize - 1) \div PageSize
NoOp == [rid |-> Unset, toks |-> << >>, taken |-> 0]
Idle == op = NoOp

Init ==
  /\ free = Pages /\ refcount = [p \in Pages |-> 0]
  /\ known = {} /\ table = [r \in Requests |-> << >>] /\ length = [r \in Requests |-> 0]
  /\ kv = [p \in Pages |-> [o \in 0..PageSize - 1 |-> Unset]]
  /\ op = NoOp

\* Mutant: no limit of max_seq_len.
StartAppendUnbounded(r, toks) ==
  /\ Idle /\ length[r] <= MaxLen
  /\ known' = known \cup {r}
  /\ op' = [rid |-> r, toks |-> toks, taken |-> 0]
  /\ UNCHANGED <<free, refcount, table, length, kv>>

\* append(r, toks); the row caches refuse to grow past max_seq_len.
StartAppend(r, toks) ==
  /\ Idle /\ length[r] + Len(toks) <= MaxLen
  /\ known' = known \cup {r}
  /\ op' = [rid |-> r, toks |-> toks, taken |-> 0]
  /\ UNCHANGED <<free, refcount, table, length, kv>>

Short == ~Idle /\ Len(table[op.rid]) < Ceil(length[op.rid] + Len(op.toks))

\* One round of _ensure_capacity.
GrowTable ==
  /\ Short
  /\ \E p \in free :
       /\ free' = free \ {p} /\ refcount' = [refcount EXCEPT ![p] = 1]
       /\ table' = [table EXCEPT ![op.rid] = Append(@, p)]
  /\ UNCHANGED <<known, length, kv, op>>

\* The chunk at hand: its page in the table, and what it writes there.
Position == length[op.rid] + op.taken
PageIndex == Position \div PageSize + 1
Current == table[op.rid][PageIndex]
Offset == Position % PageSize
Take == LET room == PageSize - Offset
            rest == Len(op.toks) - op.taken
        IN IF room < rest THEN room ELSE rest
Chunk(page) ==
  [o \in 0..PageSize - 1 |->
     IF o \in Offset .. (Offset + Take - 1) THEN op.toks[op.taken + 1 + (o - Offset)] ELSE page[o]]

Writing == ~Idle /\ ~Short /\ op.taken < Len(op.toks)

\* Mutant: writes a shared page without a copy.
WriteShared ==
  /\ Writing
  /\ kv' = [kv EXCEPT ![Current] = Chunk(@)]
  /\ op' = [op EXCEPT !.taken = @ + Take]
  /\ UNCHANGED <<free, refcount, known, table, length>>

\* _prepare_page_for_write returns the page itself when nobody else lists it.
WriteInPlace ==
  /\ Writing /\ refcount[Current] <= 1
  /\ kv' = [kv EXCEPT ![Current] = Chunk(@)]
  /\ op' = [op EXCEPT !.taken = @ + Take]
  /\ UNCHANGED <<free, refcount, known, table, length>>

\* Mutant: keeps its reference to the page it copied.
WriteCopyKeepsReference ==
  /\ Writing /\ refcount[Current] > 1
  /\ \E p \in free :
       /\ free' = free \ {p}
       /\ refcount' = [refcount EXCEPT ![p] = 1]
       /\ table' = [table EXCEPT ![op.rid][PageIndex] = p]
       /\ kv' = [kv EXCEPT ![p] = Chunk(kv[Current])]
  /\ op' = [op EXCEPT !.taken = @ + Take]
  /\ UNCHANGED <<known, length>>

\* Otherwise it copies the page, drops its reference and writes the copy.
WriteCopy ==
  /\ Writing /\ refcount[Current] > 1
  /\ \E p \in free :
       /\ free' = free \ {p}
       /\ refcount' = [refcount EXCEPT ![p] = 1, ![Current] = @ - 1]
       /\ table' = [table EXCEPT ![op.rid][PageIndex] = p]
       /\ kv' = [kv EXCEPT ![p] = Chunk(kv[Current])]
  /\ op' = [op EXCEPT !.taken = @ + Take]
  /\ UNCHANGED <<known, length>>

FinishAppend ==
  /\ ~Idle /\ ~Short /\ op.taken = Len(op.toks)
  /\ length' = [length EXCEPT ![op.rid] = @ + Len(op.toks)]
  /\ op' = NoOp
  /\ UNCHANGED <<free, refcount, known, table, kv>>

\* RuntimeError from _allocate_page, in either loop: what was taken stays taken.
Starved == free = {} /\ (Short \/ (Writing /\ refcount[Current] > 1))

OutOfPages ==
  /\ Starved
  /\ op' = NoOp
  /\ UNCHANGED <<free, refcount, known, table, length, kv>>

AliasPrefix(src, dst, n) ==
  LET shared == SubSeq(table[src], 1, Ceil(n))
  IN /\ Idle /\ src \in known /\ dst \notin known /\ n \in 0..length[src]
     /\ table' = [table EXCEPT ![dst] = shared] /\ length' = [length EXCEPT ![dst] = n]
     /\ refcount' = [p \in Pages |-> IF p \in Range(shared) THEN refcount[p] + 1 ELSE refcount[p]]
     /\ known' = known \cup {dst}
     /\ UNCHANGED <<free, kv, op>>

\* Mutant: the last reference does not return the page to the pool.
ReleasePagesLeak(gone) ==
  /\ refcount' = [p \in Pages |-> IF p \in gone THEN refcount[p] - 1 ELSE refcount[p]]
  /\ UNCHANGED free

\* _release_page for each page of a set.
ReleasePages(gone) ==
  /\ refcount' = [p \in Pages |-> IF p \in gone THEN refcount[p] - 1 ELSE refcount[p]]
  /\ free' = free \cup {p \in gone : refcount[p] = 1}

Free(r) ==
  /\ Idle /\ r \in known
  /\ ReleasePages(Range(table[r]))
  /\ known' = known \ {r}
  /\ table' = [table EXCEPT ![r] = << >>] /\ length' = [length EXCEPT ![r] = 0]
  /\ UNCHANGED <<kv, op>>

\* set_length(r, n) keeps the pages; n may exceed the length within them.
SetLength(r, n) ==
  /\ Idle /\ (r \in known \/ n = 0)
  /\ n <= length[r] \/ n <= Len(table[r]) * PageSize
  /\ length' = [length EXCEPT ![r] = n]
  /\ known' = known \cup {r}
  /\ UNCHANGED <<free, refcount, table, kv, op>>

\* Mutant: keeps only the full pages.
TruncateFloor(r, n) ==
  LET kept == SubSeq(table[r], 1, n \div PageSize)
  IN /\ Idle /\ (r \in known \/ n = 0)
     /\ n <= length[r] \/ n <= Len(table[r]) * PageSize
     /\ ReleasePages(Range(table[r]) \ Range(kept))
     /\ table' = [table EXCEPT ![r] = kept] /\ length' = [length EXCEPT ![r] = n]
     /\ known' = known \cup {r}
     /\ UNCHANGED <<kv, op>>

\* truncate(r, n), that is set_length(release_pages=True).
Truncate(r, n) ==
  LET kept == SubSeq(table[r], 1, Ceil(n))
  IN /\ Idle /\ (r \in known \/ n = 0)
     /\ n <= length[r] \/ n <= Len(table[r]) * PageSize
     /\ ReleasePages(Range(table[r]) \ Range(kept))
     /\ table' = [table EXCEPT ![r] = kept] /\ length' = [length EXCEPT ![r] = n]
     /\ known' = known \cup {r}
     /\ UNCHANGED <<kv, op>>

Strings == UNION {[1..n -> Values] : n \in 1..MaxAppend}

Next ==
  \/ \E r \in Requests, toks \in Strings : StartAppend(r, toks)
  \/ GrowTable \/ WriteInPlace \/ WriteCopy \/ FinishAppend \/ OutOfPages
  \/ \E src, dst \in Requests, n \in 0..MaxLen : AliasPrefix(src, dst, n)
  \/ \E r \in Requests : Free(r)
  \/ \E r \in Requests, n \in 0..MaxLen : SetLength(r, n) \/ Truncate(r, n)

Spec == Init /\ [][Next]_vars

-----------------------------------------------------------------------------
(* Properties *)

TypeOK ==
  /\ free \subseteq Pages /\ refcount \in [Pages -> Nat] /\ known \subseteq Requests
  /\ table \in [Requests -> Seq(Pages)] /\ length \in [Requests -> 0..MaxLen]
  /\ kv \in [Pages -> [0..PageSize - 1 -> Values \cup {Unset}]]
  /\ op = NoOp \/ (op.rid \in known /\ op.toks \in Seq(Values) /\ op.taken \in 0..Len(op.toks))

\* Refcounts survive copies, failed appends and truncations: a page is counted once
\* per table that lists it, no table lists it twice, and it is free exactly at 0.
RefcountExact ==
  /\ \A p \in Pages : refcount[p] = Cardinality({r \in Requests : p \in Range(table[r])})
  /\ \A r \in Requests : IsInjective(table[r])
  /\ free = {p \in Pages : refcount[p] = 0}

\* A sequence of n tokens has pages for them, whatever failed half-way.
LengthCovered == \A r \in Requests : length[r] <= Len(table[r]) * PageSize

\* The tensors materialize(r) would return.
Contents(r) ==
  [i \in 1..length[r] |-> kv[table[r][(i - 1) \div PageSize + 1]][(i - 1) % PageSize]]

Store == INSTANCE SequenceStore WITH
           exists <- known,
           contents <- [r \in Requests |-> Contents(r)],
           call <- [rid |-> op.rid, toks |-> op.toks],
           NoCall <- [rid |-> Unset, toks |-> << >>]

\* "Shared pages are reference counted and copy-on-write during append, so this is
\* safe ... even when the target extends a partially filled last page": the pages
\* implement a store of independent sequences.
StoreSpec == Store!Spec

\* The places in the tables that the requests fill or are about to fill, one page
\* each if none were shared.
Demand(r) ==
  IF r = op.rid THEN Max({Len(table[r]), Ceil(length[r] + Len(op.toks))}) ELSE Len(table[r])
Demanded == UNION {{r} \X (1..Demand(r)) : r \in Requests}

\* An append raises only when the rows, each with pages of its own, would not fit:
\* neither sharing nor the copies it costs later need a page more.  The row caches
\* rely on it: they size the pool as rows * ceil(max_seq_len / page_size).
NeverOutOfPages == Starved => Cardinality(Pages) < Cardinality(Demanded)

=============================================================================
