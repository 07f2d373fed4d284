--------------------------- MODULE PrefillGroups ---------------------------
(***************************************************************************)
(* How PagedEngine batches the prefill of an admitted wave                 *)
(* (runtime/paged_serving.py, _shared_prefix_prefill_groups and the plain  *)
(* grouping of step): pure operators, no state.                            *)
(*                                                                         *)
(* A row is a record: rid, shared (tokens found in the prefix cache),      *)
(* suffix (tokens left to prefill) and pages (length of its block table).  *)
(* A group is a record: rows, len (tokens per row of its forward pass) and *)
(* padded.                                                                 *)
(***************************************************************************)
EXTENDS Subsequences, SequencesExt, FiniteSetsExt

CONSTANTS PageSize,       \* tokens per page
          MaxSeq,         \* max_seq
          SuffixBuckets,  \* TORCHINFERNO_PAGED_PREFIX_SUFFIX_BUCKETS, a sequence
          MaxPadding      \* ..._PADDED_SUFFIX_MAX_PADDING_TOKENS

ASSUME GroupsAssumption ==
  PageSize \in Nat \ {0} /\ MaxSeq \in Nat /\ SuffixBuckets \in Seq(Nat)

RowSet == [rid : Nat, shared : Nat, suffix : Nat \ {0}, pages : Nat]

Ceil(n) == (n + PageSize - 1) \div PageSize

\* _paged_prefix_suffix_bucket: the first configured bucket that holds n tokens.
Bucket(n) ==
  LET fits == {i \in DOMAIN SuffixBuckets : n <= SuffixBuckets[i]}
  IN IF fits = {} THEN n ELSE SuffixBuckets[Min(fits)]

\* The rows grouped by key, groups and rows in order of first appearance.
GroupsBy(rows, keys) ==
  LET firsts == {i \in DOMAIN rows : \A j \in 1..i - 1 : keys[j] # keys[i]}
  IN [g \in 1..Cardinality(firsts) |->
        Subsequence(rows, {i \in DOMAIN rows : keys[i] = keys[Nth(firsts, g)]})]

ExactGroups(rows) ==
  LET by == GroupsBy(rows, [i \in DOMAIN rows |-> rows[i].suffix])
  IN [g \in DOMAIN by |-> [rows |-> by[g], len |-> Head(by[g]).suffix, padded |-> FALSE]]

\* What a padded forward pass of len tokens per row needs beyond the tables: the
\* pages, named by their request and their place in its table, and how many.
Lacking(rows, len) ==
  UNION {{row.rid} \X (row.pages + 1 .. Ceil(row.shared + len)) : row \in Range(rows)}
ExtraPages(rows, len) == Cardinality(Lacking(rows, len))

SuffixTokens(rows) == FoldLeft(LAMBDA acc, row : acc + row.suffix, 0, rows)

\* Mutant: forgets the limit of max_seq.
CanPadPastMaxSeq(rows, len, free) ==
  LET active == SuffixTokens(rows)
      padding == Len(rows) * len - active
  IN /\ \A row \in Range(rows) : row.suffix <= len
     /\ padding <= MaxPadding /\ padding <= active
     /\ ExtraPages(rows, len) <= free

\* At most 100% of padding, nobody past max_seq, and the extra pages are free.
CanPad(rows, len, free) ==
  LET active == SuffixTokens(rows)
      padding == Len(rows) * len - active
  IN /\ \A row \in Range(rows) : row.suffix <= len /\ row.shared + len <= MaxSeq
     /\ padding <= MaxPadding /\ padding <= active
     /\ ExtraPages(rows, len) <= free

\* One group per bucket, padded to the bucket when that is allowed.
BucketGroup(rows, free) ==
  LET b == Bucket(Head(rows).suffix)
  IN IF Len(rows) > 1 /\ CanPad(rows, b, free)
     THEN <<[rows |-> rows, len |-> b, padded |-> TRUE]>>
     ELSE ExactGroups(rows)

\* Mutant: trusts the test of each bucket alone.
BucketedUnsummed(rows, free) ==
  LET by == GroupsBy(rows, [i \in DOMAIN rows |-> Bucket(rows[i].suffix)])
      grouped == FlattenSeq([g \in DOMAIN by |-> BucketGroup(by[g], free)])
  IN IF Len(by) <= 1 THEN ExactGroups(rows) ELSE grouped

\* Every bucket was tested against all the free pages; together they must fit too.
Bucketed(rows, free) ==
  LET by == GroupsBy(rows, [i \in DOMAIN rows |-> Bucket(rows[i].suffix)])
      grouped == FlattenSeq([g \in DOMAIN by |-> BucketGroup(by[g], free)])
      padded == {g \in Range(grouped) : g.padded}
      paddedExtra == Cardinality(UNION {Lacking(g.rows, g.len) : g \in padded})
  IN IF Len(by) <= 1 \/ paddedExtra > free THEN ExactGroups(rows) ELSE grouped

(***************************************************************************)
(* pad and bucketed are environment flags, graph says whether the suffix   *)
(* graph path is enabled for this wave.                                    *)
(***************************************************************************)
SharedGroups(rows, free, pad, bucketed, graph) ==
  LET lens == {row.suffix : row \in Range(rows)}
      len == IF graph THEN Bucket(Max(lens)) ELSE Max(lens)
  IN IF Cardinality(lens) <= 1 \/ ~pad THEN ExactGroups(rows)
     ELSE IF CanPad(rows, len, free) THEN <<[rows |-> rows, len |-> len, padded |-> TRUE]>>
     ELSE IF bucketed THEN Bucketed(rows, free) ELSE ExactGroups(rows)

\* Mutant: a wave with cached rows forgets its plain rows.
WaveGroupsSharedOnly(rows, free, pad, bucketed, graph) ==
  LET shared == Subsequence(rows, {i \in DOMAIN rows : rows[i].shared > 0})
  IN IF shared # << >> THEN SharedGroups(shared, free, pad, bucketed, graph) ELSE ExactGroups(rows)

\* The rows with a cached prefix first, then the plain ones by prompt length.
WaveGroups(rows, free, pad, bucketed, graph) ==
  SharedGroups(Subsequence(rows, {i \in DOMAIN rows : rows[i].shared > 0}), free, pad, bucketed, graph)
    \o ExactGroups(Subsequence(rows, {i \in DOMAIN rows : rows[i].shared = 0}))

=============================================================================
