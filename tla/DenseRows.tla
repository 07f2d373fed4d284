----------------------------- MODULE DenseRows -----------------------------
(***************************************************************************)
(* The cache rows of ContinuousBatchEngine (runtime/serving.py): a fixed   *)
(* set of physical rows, each at any time a free active row, a free prefix *)
(* row, the copy source of a reusable prefix, or held by one request.      *)
(* Rows change sides: adopting a finished request's row as a reusable      *)
(* prefix gives a prefix row to the active side in exchange.               *)
(*                                                                         *)
(* A reusable prefix lives in reusable_prefixes, _prefix_order and the     *)
(* radix index at once; entries is the three together, oldest first.       *)
(***************************************************************************)
EXTENDS Integers, Sequences, FiniteSets, FiniteSetsExt

CONSTANTS MaxActive,    \* max_active_requests
          PrefixRows,   \* prefix_cache_capacity
          MaxLen        \* max_seq_len of the cache

ASSUME RowsAssumption == MaxActive \in Nat \ {0} /\ PrefixRows \in Nat /\ MaxLen \in Nat

Rows == 0..MaxActive + PrefixRows - 1

Junk == "junk"    \* a cell that is cleared, or written by a padding row

VARIABLES freeActive,   \* _free_active_rows, kept in descending order
          freePrefix,   \* _free_prefix_rows
          entries,      \* sequence of [tokens, row, common, indexed]
          kv            \* row -> position -> the token whose KV is there

rows == <<freeActive, freePrefix, entries, kv>>

RowsInit ==
  /\ freeActive = 0..MaxActive - 1
  /\ freePrefix = MaxActive..MaxActive + PrefixRows - 1
  /\ entries = << >>
  /\ kv = [w \in Rows |-> [i \in 1..MaxLen |-> Junk]]

(***************************************************************************)
(* Cells.                                                                  *)
(***************************************************************************)
\* The cells of a row once toks are written behind its first `from` positions.
Put(cells, from, toks) ==
  [i \in 1..MaxLen |-> IF i > from /\ i <= from + Len(toks) THEN toks[i - from] ELSE cells[i]]

\* An acquired row: cleared, then given the first n cells of a source row.
CopyOf(source, n) == [i \in 1..MaxLen |-> IF i <= n THEN kv[source][i] ELSE Junk]

Blank == [i \in 1..MaxLen |-> Junk]

HoldsPrefix(cells, tokens) == \A i \in DOMAIN tokens : cells[i] = tokens[i]

(***************************************************************************)
(* Active rows.  The free list is in descending order, so pop() returns    *)
(* the lowest free row.                                                    *)
(***************************************************************************)
\* The ways to give each member of G a free row, the lowest ones.
ActiveRowsFor(G) ==
  {f \in [G -> freeActive] :
     /\ \A r, q \in G : r # q => f[r] # f[q]
     /\ \A r \in G, w \in freeActive : w < f[r] => \E q \in G : f[q] = w}

\* Rows a padded batch may write besides its own: free ones.
PadRows == SUBSET (freeActive \cup freePrefix)

(***************************************************************************)
(* Prefix rows.                                                            *)
(***************************************************************************)
\* Mutant: a pinned prefix is evicted like any other.
EvictableAll(pin) == DOMAIN entries

Evictable(pin) == {i \in DOMAIN entries : ~(pin /\ entries[i].common)}

Without(list, i) ==
  [k \in 1..Len(list) - 1 |-> IF k < i THEN list[k] ELSE list[k + 1]]

\* Mutant: an evicted prefix stays in the index.
PrefixRowChoicesStale(pin) ==
  IF freePrefix # {} THEN {[row |-> p, left |-> entries] : p \in freePrefix}
  ELSE {[row |-> entries[i].row, left |-> entries] :
          i \in {i \in Evictable(pin) : \A k \in Evictable(pin) : i <= k}}

\* What _acquire_prefix_row may return, with the entries that are left: a free row,
\* or the row of the oldest entry that is not pinned; nothing if there is neither.
PrefixRowChoices(pin) ==
  IF freePrefix # {} THEN {[row |-> p, left |-> entries] : p \in freePrefix}
  ELSE {[row |-> entries[i].row, left |-> Without(entries, i)] :
          i \in {i \in Evictable(pin) : \A k \in Evictable(pin) : i <= k}}

\* A new entry is the one its radix node routes to; an older entry with the same
\* tokens under another route stays reusable, but no lookup returns it any more.
WithEntry(list, tokens, w, common) ==
  [k \in 1..Len(list) + 1 |->
     IF k > Len(list) THEN [tokens |-> tokens, row |-> w, common |-> common, indexed |-> TRUE]
     ELSE [tokens |-> list[k].tokens, row |-> list[k].row, common |-> list[k].common,
           indexed |-> list[k].indexed /\ list[k].tokens # tokens]]

\* The entry that has the route of the common prefix tokens, if there is one.
Holders(list, tokens) == {i \in DOMAIN list : list[i].common /\ list[i].tokens = tokens}

\* The entries without the one that a common prefix stored again replaces, and the
\* row that this frees.
Replaced(list, tokens) ==
  IF Holders(list, tokens) = {} THEN [left |-> list, freed |-> {}]
  ELSE LET i == CHOOSE i \in Holders(list, tokens) : TRUE
       IN [left |-> Without(list, i), freed |-> {list[i].row}]

(***************************************************************************)
(* Lookup: the deepest indexed entry the prompt starts with.  The last     *)
(* prompt token is always recomputed, for its logits.                      *)
(***************************************************************************)
IsPrefixOf(s, t) == Len(s) <= Len(t) /\ \A i \in DOMAIN s : s[i] = t[i]

Matches(prompt) ==
  {i \in DOMAIN entries : entries[i].indexed /\ IsPrefixOf(entries[i].tokens, prompt)}

Deepest(prompt) ==
  CHOOSE i \in Matches(prompt) :
    \A k \in Matches(prompt) : Len(entries[k].tokens) <= Len(entries[i].tokens)

\* The deepest common prefix of the prompt, indexed or not, if it is shallower than
\* the entry a lookup returned and that one is not a common prefix itself.
Shallower(prompt) ==
  LET commons == {i \in DOMAIN entries :
                    entries[i].common /\ IsPrefixOf(entries[i].tokens, prompt)}
  IN {k \in commons : /\ ~entries[Deepest(prompt)].common
                      /\ Len(entries[k].tokens) > 0
                      /\ Len(entries[k].tokens) < Len(entries[Deepest(prompt)].tokens)
                      /\ \A i \in commons : Len(entries[i].tokens) <= Len(entries[k].tokens)}

NoRow == -1
Miss == [tokens |-> 0, row |-> NoRow]

HitOn(prompt, i) ==
  LET n == Min({Len(entries[i].tokens), Len(prompt) - 1})
  IN IF n = 0 THEN Miss ELSE [tokens |-> n, row |-> entries[i].row]

\* What the prompt may reuse: how many tokens, from which row.  A lookup that may be
\* demoted takes the shallower common prefix when the suffix is too long, or the extra
\* tokens are too few, for the deepest entry to be worth it.
Hits(prompt, demoted) ==
  IF Matches(prompt) = {} THEN {Miss}
  ELSE {HitOn(prompt, i) : i \in {Deepest(prompt)} \cup (IF demoted THEN Shallower(prompt) ELSE {})}

CommonCount(prompts) ==
  Max({n \in 0..MaxLen : \A s, t \in prompts : n <= Len(s) /\ \A i \in 1..n : s[i] = t[i]})

-----------------------------------------------------------------------------
RowsOf(list) == {list[i].row : i \in DOMAIN list}
DistinctRows(list) == \A i, k \in DOMAIN list : i # k => list[i].row # list[k].row
EntryRows == RowsOf(entries)

=============================================================================
