-------------------------- MODULE DenseEngineProofs --------------------------
(***************************************************************************)
(* Proofs about DenseEngine: row ownership (RowsHaveOneOwner), admission   *)
(* (AdmissionFits), the types and budgets of the state (DenseTypes),       *)
(* pinned prefixes (PinnedPrefixesStay) and the KV that prefixes and       *)
(* requests are read from (DenseKVMatches).                                *)
(*                                                                         *)
(* DenseInv is inductive: the partition of the rows, that the entries form *)
(* a list, and in which phase the requests are that a pass still has to    *)
(* serve.  The lemmas first say what the operators on entries do to the    *)
(* rows behind them, then what each way of moving rows does to the         *)
(* partition; the steps that move no row all follow from StepKeepsRows.    *)
(* FitInv adds that a batch fits the free rows, ServeInv what each request *)
(* has generated and filled in its phase, Missed that what a lookup missed *)
(* is not there when its batch is prefilled, and KVInv, on top of the      *)
(* first two, which cells stand behind an entry, a lookup that has not     *)
(* been copied yet, and a request that holds a row.                        *)
(***************************************************************************)
EXTENDS DenseEngine, TLAPS, FiniteSetTheorems

\* A list of entries, as far as its rows are concerned.
IsList(list) == Len(list) \in Nat /\ DOMAIN list = 1..Len(list)

LEMMA WithoutRows ==
  ASSUME NEW list, IsList(list), DistinctRows(list), NEW i \in DOMAIN list
  PROVE  /\ IsList(Without(list, i)) /\ DistinctRows(Without(list, i))
         /\ RowsOf(Without(list, i)) = RowsOf(list) \ {list[i].row}
         /\ \A k \in DOMAIN list : k # i => \E j \in DOMAIN Without(list, i) : Without(list, i)[j] = list[k]
<1> DEFINE short == Without(list, i)
           n == Len(list)
<1>1. n \in Nat \ {0} /\ i \in 1..n /\ DOMAIN short = 1..n - 1
  BY DEF IsList, Without
<1>3. \A k \in DOMAIN short : short[k] = IF k < i THEN list[k] ELSE list[k + 1]
  BY <1>1 DEF Without
<1> HIDE DEF short
<1>2. IsList(short)
  <2>1. n - 1 \in Nat /\ DOMAIN short = 1..n - 1
    BY <1>1
  <2> DEFINE m == n - 1
  <2>2. m \in Nat /\ DOMAIN short = 1..m
    BY <2>1
  <2> HIDE DEF m
  <2>3. Len(short) = m
    BY <2>2
  <2> QED BY <2>2, <2>3 DEF IsList
<1>4. \A k \in 1..n : k # i => \E j \in DOMAIN short : short[j] = list[k]
  <2> SUFFICES ASSUME NEW k \in 1..n, k # i PROVE \E j \in DOMAIN short : short[j] = list[k]
    OBVIOUS
  <2>1. CASE k < i
    <3>1. k \in DOMAIN short /\ short[k] = list[k]
      BY <1>1, <1>3, <2>1
    <3> QED BY <3>1
  <2>2. CASE k > i
    <3>1. k - 1 \in DOMAIN short /\ ~(k - 1 < i) /\ (k - 1) + 1 = k
      BY <1>1, <2>2
    <3>2. short[k - 1] = list[k]
      BY <1>3, <3>1
    <3> QED BY <3>1, <3>2
  <2> QED BY <1>1, <2>1, <2>2
<1>5. DistinctRows(short)
  <2> SUFFICES ASSUME NEW j \in DOMAIN short, NEW k \in DOMAIN short, j < k
               PROVE short[j].row # short[k].row
    BY <1>1 DEF DistinctRows
  <2> DEFINE at(x) == IF x < i THEN x ELSE x + 1
  <2>1. at(j) \in DOMAIN list /\ at(k) \in DOMAIN list /\ at(j) # at(k)
    BY <1>1 DEF IsList
  <2>2. short[j] = list[at(j)] /\ short[k] = list[at(k)]
    BY <1>3
  <2> QED BY <2>1, <2>2 DEF DistinctRows
<1>6. RowsOf(short) = RowsOf(list) \ {list[i].row}
  <2>1. ASSUME NEW w \in RowsOf(short) PROVE w \in RowsOf(list) \ {list[i].row}
    <3>1. PICK j \in DOMAIN short : w = short[j].row
      BY DEF RowsOf
    <3> DEFINE k == IF j < i THEN j ELSE j + 1
    <3>2. k \in DOMAIN list /\ k # i /\ short[j] = list[k]
      BY <1>1, <1>3 DEF IsList
    <3> QED BY <3>1, <3>2 DEF RowsOf, DistinctRows
  <2>2. ASSUME NEW w \in RowsOf(list) \ {list[i].row} PROVE w \in RowsOf(short)
    <3>1. PICK k \in 1..n : w = list[k].row /\ k # i
      BY DEF RowsOf, IsList
    <3>2. PICK j \in DOMAIN short : short[j] = list[k]
      BY <1>4, <3>1
    <3> QED BY <3>1, <3>2 DEF RowsOf
  <2> QED BY <2>1, <2>2
<1> QED BY <1>1, <1>2, <1>4, <1>5, <1>6 DEF IsList, short

LEMMA WithoutOrigin ==
  ASSUME NEW list, IsList(list), NEW i \in DOMAIN list
  PROVE  \A j \in DOMAIN Without(list, i) : \E k \in DOMAIN list : Without(list, i)[j] = list[k]
<1>1. Len(list) \in Nat /\ DOMAIN list = 1..Len(list) /\ DOMAIN Without(list, i) = 1..Len(list) - 1
  BY DEF IsList, Without
<1> SUFFICES ASSUME NEW j \in DOMAIN Without(list, i)
             PROVE  \E k \in DOMAIN list : Without(list, i)[j] = list[k]
  OBVIOUS
<1>2. Without(list, i)[j] = IF j < i THEN list[j] ELSE list[j + 1]
  BY <1>1 DEF Without
<1>3. j \in DOMAIN list /\ j + 1 \in DOMAIN list
  BY <1>1
<1> QED BY <1>2, <1>3

LEMMA WithEntryRows ==
  ASSUME NEW list, IsList(list), DistinctRows(list), NEW tokens, NEW w, NEW common,
         w \notin RowsOf(list)
  PROVE  LET new == WithEntry(list, tokens, w, common)
         IN /\ IsList(new) /\ DistinctRows(new) /\ RowsOf(new) = RowsOf(list) \cup {w}
            /\ \A k \in DOMAIN list :
                 /\ k \in DOMAIN new /\ new[k].row = list[k].row
                 /\ new[k].tokens = list[k].tokens /\ new[k].common = list[k].common
<1> DEFINE new == WithEntry(list, tokens, w, common)
           n == Len(list)
<1>1. n \in Nat /\ DOMAIN list = 1..n /\ DOMAIN new = 1..n + 1
  BY DEF IsList, WithEntry
<1>2. IsList(new)
  BY <1>1 DEF IsList
<1>0. new[n + 1] = [tokens |-> tokens, row |-> w, common |-> common, indexed |-> TRUE]
  BY <1>1 DEF WithEntry
<1>3. new[n + 1].row = w
  BY <1>0
<1>4. \A k \in 1..n : new[k].row = list[k].row /\ new[k].tokens = list[k].tokens
                     /\ new[k].common = list[k].common
  BY <1>1 DEF WithEntry
<1> HIDE DEF new
<1>5. RowsOf(new) = RowsOf(list) \cup {w}
  <2>1. \A k \in DOMAIN new : k \in 1..n \/ k = n + 1
    BY <1>1
  <2>2. \A k \in 1..n : k \in DOMAIN new
    BY <1>1
  <2>3. n + 1 \in DOMAIN new
    BY <1>1
  <2> QED BY <1>1, <1>3, <1>4, <2>1, <2>2, <2>3 DEF RowsOf
<1>6. DistinctRows(new)
  BY <1>1, <1>3, <1>4 DEF DistinctRows, RowsOf
<1> QED BY <1>1, <1>2, <1>4, <1>5, <1>6 DEF new

LEMMA NewEntry ==
  ASSUME NEW list, IsList(list), NEW tokens, NEW w, NEW common
  PROVE  \E k \in DOMAIN WithEntry(list, tokens, w, common) :
           WithEntry(list, tokens, w, common)[k]
             = [tokens |-> tokens, row |-> w, common |-> common, indexed |-> TRUE]
<1> DEFINE n == Len(list)
<1>1. n \in Nat
  BY DEF IsList
<1>2. n + 1 \in 1..n + 1 /\ n + 1 > n
  BY <1>1
<1>3. /\ n + 1 \in DOMAIN WithEntry(list, tokens, w, common)
      /\ WithEntry(list, tokens, w, common)[n + 1]
           = [tokens |-> tokens, row |-> w, common |-> common, indexed |-> TRUE]
  BY <1>2 DEF WithEntry
<1> QED BY <1>3

\* The prefix side: its rows, each in the free list or behind one entry.
PrefixSide == freePrefix \cup EntryRows
PrefixSideOK == IsList(entries) /\ DistinctRows(entries) /\ freePrefix \cap EntryRows = {}

LEMMA ChoiceRows ==
  ASSUME PrefixSideOK, NEW pin, NEW choice \in PrefixRowChoices(pin)
  PROVE  /\ IsList(choice.left) /\ DistinctRows(choice.left)
         /\ choice.row \in PrefixSide /\ choice.row \notin RowsOf(choice.left)
         /\ (freePrefix \ {choice.row}) \cup RowsOf(choice.left) = PrefixSide \ {choice.row}
         /\ (freePrefix \ {choice.row}) \cap RowsOf(choice.left) = {}
         /\ \A i \in DOMAIN entries : pin /\ entries[i].common =>
              \E j \in DOMAIN choice.left : choice.left[j] = entries[i]
<1>1. CASE freePrefix # {}
  <2>1. PICK p \in freePrefix : choice = [row |-> p, left |-> entries]
    BY <1>1 DEF PrefixRowChoices
  <2>2. choice.row = p /\ choice.left = entries
    BY <2>1
  <2> QED BY <2>2 DEF PrefixSideOK, PrefixSide, EntryRows
<1>2. CASE freePrefix = {}
  <2>1. PICK i \in Evictable(pin) : choice = [row |-> entries[i].row, left |-> Without(entries, i)]
    BY <1>2 DEF PrefixRowChoices
  <2>2. choice.row = entries[i].row /\ choice.left = Without(entries, i)
    BY <2>1
  <2>3. i \in DOMAIN entries /\ ~(pin /\ entries[i].common)
    BY <2>1 DEF Evictable
  <2>4. /\ IsList(choice.left) /\ DistinctRows(choice.left)
        /\ RowsOf(choice.left) = EntryRows \ {choice.row}
        /\ \A k \in DOMAIN entries : k # i => \E j \in DOMAIN choice.left : choice.left[j] = entries[k]
    BY <2>2, <2>3, WithoutRows DEF PrefixSideOK, EntryRows
  <2>5. choice.row \in EntryRows
    BY <2>2, <2>3 DEF EntryRows, RowsOf
  <2> QED BY <1>2, <2>3, <2>4, <2>5 DEF PrefixSide
<1> QED BY <1>1, <1>2

\* A list as it is, or without one of its entries, whose row is freed.
Leftovers(list) ==
  {[left |-> list, freed |-> {}]}
    \cup {[left |-> Without(list, i), freed |-> {list[i].row}] : i \in DOMAIN list}

LEMMA LeftoverRows ==
  ASSUME NEW list, IsList(list), DistinctRows(list), NEW old \in Leftovers(list)
  PROVE  /\ IsList(old.left) /\ DistinctRows(old.left)
         /\ RowsOf(old.left) = RowsOf(list) \ old.freed /\ old.freed \subseteq RowsOf(list)
         /\ \A j \in DOMAIN old.left : \E i \in DOMAIN list : old.left[j] = list[i]
<1>1. CASE old = [left |-> list, freed |-> {}]
  <2>1. old.left = list /\ old.freed = {}
    BY <1>1
  <2> QED BY <2>1
<1>2. ASSUME NEW i \in DOMAIN list, old = [left |-> Without(list, i), freed |-> {list[i].row}]
      PROVE  /\ IsList(old.left) /\ DistinctRows(old.left)
             /\ RowsOf(old.left) = RowsOf(list) \ old.freed /\ old.freed \subseteq RowsOf(list)
             /\ \A j \in DOMAIN old.left : \E k \in DOMAIN list : old.left[j] = list[k]
  <2>1. old.left = Without(list, i) /\ old.freed = {list[i].row}
    BY <1>2
  <2>2. \A j \in DOMAIN Without(list, i) : \E k \in DOMAIN list : Without(list, i)[j] = list[k]
    BY WithoutOrigin
  <2>3. /\ IsList(Without(list, i)) /\ DistinctRows(Without(list, i))
        /\ RowsOf(Without(list, i)) = RowsOf(list) \ {list[i].row}
    BY WithoutRows
  <2>4. list[i].row \in RowsOf(list)
    BY DEF RowsOf
  <2> QED BY <2>1, <2>2, <2>3, <2>4
<1> QED BY <1>1, <1>2 DEF Leftovers

\* A new entry over the row w: the one that was acquired for it, or one that comes
\* from the active side.  One entry may be replaced by it.
Stores(pin, choice, tokens, w, common) ==
  /\ choice \in PrefixRowChoices(pin)
  /\ w = choice.row \/ w \notin PrefixSide
  /\ \E old \in Leftovers(choice.left) :
       /\ entries' = WithEntry(old.left, tokens, w, common)
       /\ freePrefix' = (freePrefix \ {choice.row}) \cup old.freed

LEMMA PlainStore ==
  ASSUME NEW pin, NEW choice \in PrefixRowChoices(pin), NEW tokens, NEW w, NEW common,
         w = choice.row \/ w \notin PrefixSide,
         entries' = WithEntry(choice.left, tokens, w, common), freePrefix' = freePrefix \ {choice.row}
  PROVE  Stores(pin, choice, tokens, w, common)
<1> DEFINE old == [left |-> choice.left, freed |-> {}]
<1>1. old \in Leftovers(choice.left) /\ old.left = choice.left /\ old.freed = {}
  BY DEF Leftovers
<1> HIDE DEF old
<1> QED BY <1>1 DEF Stores

LEMMA ReplacedLeaves == ASSUME NEW list, NEW tokens PROVE Replaced(list, tokens) \in Leftovers(list)
<1>1. CASE Holders(list, tokens) = {}
  BY <1>1 DEF Replaced, Leftovers
<1>2. CASE Holders(list, tokens) # {}
  <2> DEFINE i == CHOOSE i \in Holders(list, tokens) : TRUE
  <2>1. i \in Holders(list, tokens)
    BY <1>2
  <2>2. i \in DOMAIN list
    BY <2>1 DEF Holders
  <2>3. Replaced(list, tokens) = [left |-> Without(list, i), freed |-> {list[i].row}]
    BY <1>2 DEF Replaced
  <2> HIDE DEF i
  <2> QED BY <2>2, <2>3 DEF Leftovers
<1> QED BY <1>1, <1>2

\* Only an entry of the same tokens is replaced.
LEMMA ReplacedOnly ==
  ASSUME NEW list, IsList(list), DistinctRows(list), NEW tokens, NEW e, \E j \in DOMAIN list : list[j] = e
  PROVE  (\E j \in DOMAIN Replaced(list, tokens).left : Replaced(list, tokens).left[j] = e)
           \/ e.tokens = tokens
<1>1. CASE Holders(list, tokens) = {}
  BY <1>1 DEF Replaced
<1>2. CASE Holders(list, tokens) # {}
  <2> DEFINE i == CHOOSE i \in Holders(list, tokens) : TRUE
  <2>1. i \in DOMAIN list /\ list[i].tokens = tokens
    BY <1>2 DEF Holders
  <2>2. Replaced(list, tokens).left = Without(list, i)
    BY <1>2 DEF Replaced
  <2> HIDE DEF i
  <2>3. \A k \in DOMAIN list : k # i => \E j \in DOMAIN Without(list, i) : Without(list, i)[j] = list[k]
    BY <2>1, WithoutRows
  <2> QED BY <2>1, <2>2, <2>3
<1> QED BY <1>1, <1>2

LEMMA CommonStore ==
  ASSUME NEW pin, NEW choice \in PrefixRowChoices(pin), NEW tokens, StoreCommon(tokens, choice)
  PROVE  Stores(pin, choice, tokens, choice.row, TRUE)
  BY ReplacedLeaves DEF StoreCommon, Stores

LEMMA EntryExchange ==
  ASSUME PrefixSideOK, NEW pin, NEW choice, NEW tokens, NEW w, NEW common,
         Stores(pin, choice, tokens, w, common)
  PROVE  /\ PrefixSideOK' /\ choice.row \in PrefixSide /\ w \in EntryRows'
         /\ PrefixSide' = (PrefixSide \ {choice.row}) \cup {w}
<1>1. /\ IsList(choice.left) /\ DistinctRows(choice.left)
      /\ choice.row \in PrefixSide /\ choice.row \notin RowsOf(choice.left)
      /\ (freePrefix \ {choice.row}) \cup RowsOf(choice.left) = PrefixSide \ {choice.row}
      /\ (freePrefix \ {choice.row}) \cap RowsOf(choice.left) = {}
  BY ChoiceRows DEF Stores
<1>2. PICK old \in Leftovers(choice.left) :
        /\ entries' = WithEntry(old.left, tokens, w, common)
        /\ freePrefix' = (freePrefix \ {choice.row}) \cup old.freed
  BY DEF Stores
<1>3. /\ IsList(old.left) /\ DistinctRows(old.left)
      /\ RowsOf(old.left) = RowsOf(choice.left) \ old.freed /\ old.freed \subseteq RowsOf(choice.left)
  BY <1>1, LeftoverRows
<1>4. w \notin RowsOf(old.left) /\ w \notin freePrefix'
  BY <1>1, <1>2, <1>3 DEF PrefixSide, Stores
<1>5. IsList(entries') /\ DistinctRows(entries') /\ RowsOf(entries') = RowsOf(old.left) \cup {w}
  BY <1>2, <1>3, <1>4, WithEntryRows
<1>6. EntryRows' = RowsOf(old.left) \cup {w}
  BY <1>5 DEF EntryRows
<1>7. PrefixSideOK'
  BY <1>1, <1>2, <1>3, <1>4, <1>5, <1>6 DEF PrefixSideOK
<1>8. PrefixSide' = (PrefixSide \ {choice.row}) \cup {w}
  BY <1>1, <1>2, <1>3, <1>6 DEF PrefixSide
<1> QED BY <1>1, <1>6, <1>7, <1>8

(***************************************************************************)
(* The ways in which a step moves rows.  ActiveSide keeps its size.        *)
(***************************************************************************)
ActiveSide == freeActive \cup HeldRows

Partition ==
  /\ PrefixSideOK
  /\ Rows = ActiveSide \cup PrefixSide /\ ActiveSide \cap PrefixSide = {}
  /\ freeActive \cap HeldRows = {}
  /\ \A r, q \in Held : r # q => row[r] # row[q]
  /\ Cardinality(ActiveSide) = MaxActive

LEMMA PartitionMeans == Partition <=> RowsPartitioned /\ IsList(entries)
  BY DEF Partition, RowsPartitioned, PrefixSideOK, PrefixSide, ActiveSide

LEMMA ActiveSideFinite == ASSUME Partition PROVE IsFiniteSet(ActiveSide)
<1>1. IsFiniteSet(Rows)
  BY RowsAssumption, FS_Interval DEF Rows
<1> QED BY <1>1, FS_Subset DEF Partition

\* No row changes hands.
LEMMA SameOwners ==
  ASSUME Partition, Held' = Held, \A r \in Held : row'[r] = row[r],
         UNCHANGED <<freeActive, freePrefix, entries>>
  PROVE  Partition'
<1>1. HeldRows' = HeldRows
  BY DEF HeldRows
<1>2. EntryRows' = EntryRows
  BY DEF EntryRows
<1>3. ActiveSide' = ActiveSide /\ PrefixSide' = PrefixSide
  BY <1>1, <1>2 DEF ActiveSide, PrefixSide
<1>4. PrefixSideOK'
  BY <1>2 DEF Partition, PrefixSideOK
<1>5. Rows' = Rows
  BY DEF Rows
<1> QED BY <1>1, <1>2, <1>3, <1>4 DEF Partition

\* The requests in G are given free rows.
LEMMA RowsGiven ==
  ASSUME Partition, NEW G, G \cap Held = {}, NEW f \in ActiveRowsFor(G),
         freeActive' = freeActive \ {f[r] : r \in G}, Held' = Held \cup G,
         \A r \in G : row'[r] = f[r], \A r \in Held : row'[r] = row[r],
         UNCHANGED <<freePrefix, entries>>
  PROVE  Partition'
<1> DEFINE taken == {f[r] : r \in G}
<1>1. taken \subseteq freeActive /\ \A r, q \in G : r # q => f[r] # f[q]
  BY DEF ActiveRowsFor
<1>2. HeldRows' = HeldRows \cup taken
  BY DEF HeldRows
<1>3. ActiveSide' = ActiveSide /\ freeActive' \cap HeldRows' = {}
  BY <1>1, <1>2 DEF ActiveSide, Partition
<1>4. PrefixSide' = PrefixSide /\ PrefixSideOK'
  BY DEF PrefixSide, EntryRows, PrefixSideOK, Partition
<1>5. \A r, q \in Held' : r # q => row'[r] # row'[q]
  <2> SUFFICES ASSUME NEW r \in Held \cup G, NEW q \in Held \cup G, r # q PROVE row'[r] # row'[q]
    OBVIOUS
  <2>1. \A p \in Held : row[p] \in HeldRows
    BY DEF HeldRows
  <2>2. \A p \in G : f[p] \in freeActive
    BY <1>1
  <2> QED BY <1>1, <2>1, <2>2 DEF Partition
<1> QED BY <1>3, <1>4, <1>5 DEF Partition

\* r gives its row back.
LEMMA RowReleased ==
  ASSUME Partition, NEW r \in Held, Held' = Held \ {r},
         freeActive' = freeActive \cup {row[r]},
         \A q \in Held \ {r} : row'[q] = row[q], UNCHANGED <<freePrefix, entries>>
  PROVE  Partition'
<1>1. HeldRows' = HeldRows \ {row[r]} /\ row[r] \in HeldRows
  BY DEF HeldRows, Partition
<1>2. ActiveSide' = ActiveSide /\ freeActive' \cap HeldRows' = {}
  BY <1>1 DEF ActiveSide, Partition
<1>3. PrefixSide' = PrefixSide /\ PrefixSideOK'
  BY DEF PrefixSide, EntryRows, PrefixSideOK, Partition
<1> QED BY <1>2, <1>3 DEF Partition

\* r's row becomes a prefix's, and a prefix row takes its place.
LEMMA RowAdopted ==
  ASSUME Partition, NEW r \in Held, Held' = Held \ {r}, \A q \in Held \ {r} : row'[q] = row[q],
         NEW pin, NEW choice \in PrefixRowChoices(pin), AdoptRow(r, choice)
  PROVE  Partition'
<1>1. HeldRows' = HeldRows \ {row[r]} /\ row[r] \in HeldRows
  BY DEF HeldRows, Partition
<1>2. row[r] \notin PrefixSide
  BY <1>1 DEF Partition, ActiveSide
<1>3. /\ PrefixSideOK' /\ choice.row \in PrefixSide
      /\ PrefixSide' = (PrefixSide \ {choice.row}) \cup {row[r]}
  <2>1. PrefixSideOK
    BY DEF Partition
  <2>2. Stores(pin, choice, Prompt[r], row[r], FALSE)
    BY <1>2, PlainStore DEF AdoptRow
  <2> QED BY <2>1, <2>2, EntryExchange
<1>4. ActiveSide' = (ActiveSide \ {row[r]}) \cup {choice.row} /\ freeActive' \cap HeldRows' = {}
  BY <1>1, <1>3 DEF ActiveSide, Partition, AdoptRow
<1>5. Cardinality(ActiveSide') = MaxActive
  <2> DEFINE rest == ActiveSide \ {row[r]}
  <2>1. IsFiniteSet(rest) /\ Cardinality(rest) = MaxActive - 1
    BY <1>1, ActiveSideFinite, FS_RemoveElement DEF Partition, ActiveSide
  <2>2. choice.row \notin rest
    BY <1>3 DEF Partition
  <2>3. Cardinality(rest \cup {choice.row}) = MaxActive - 1 + 1
    BY <2>1, <2>2, FS_AddElement
  <2> QED BY <1>4, <2>3, RowsAssumption
<1>6. Rows = ActiveSide' \cup PrefixSide' /\ ActiveSide' \cap PrefixSide' = {}
  <2>1. row[r] \in ActiveSide
    BY <1>1 DEF ActiveSide
  <2> QED BY <1>2, <1>3, <1>4, <2>1 DEF Partition
<1> QED BY <1>3, <1>4, <1>5, <1>6 DEF Partition

\* A prefix is stored in a row acquired for it.
LEMMA PrefixStored ==
  ASSUME Partition, Held' = Held, \A q \in Held : row'[q] = row[q], UNCHANGED freeActive,
         NEW pin, NEW choice, NEW tokens, NEW common, Stores(pin, choice, tokens, choice.row, common)
  PROVE  Partition'
<1>1. PrefixSideOK' /\ PrefixSide' = PrefixSide
  <2>1. PrefixSideOK
    BY DEF Partition
  <2> QED BY <2>1, EntryExchange
<1>2. HeldRows' = HeldRows
  BY DEF HeldRows
<1>3. ActiveSide' = ActiveSide
  BY <1>2 DEF ActiveSide
<1> QED BY <1>1, <1>2, <1>3 DEF Partition

(***************************************************************************)
(* The invariant: the partition, and where the requests a pass still has   *)
(* to serve are.                                                           *)
(***************************************************************************)
Types ==
  /\ phase \in [Requests -> Phases] /\ row \in [Requests -> Rows \cup {NoRow}]
  /\ todo \subseteq Requests

TodoOK ==
  /\ pc \in {"decode", "burst", "bursting"} => todo \subseteq In("active")
  /\ pc = "advance" => todo \subseteq In("prefilling")
  /\ pc \in {"prefill", "plain", "prepare", "take"} => todo \subseteq In("admitted")

DenseInv == Types /\ TodoOK /\ Partition

LEMMA DenseInvInit == Init => DenseInv
<1> SUFFICES ASSUME Init PROVE DenseInv
  OBVIOUS
<1> USE RowsAssumption
<1>1. /\ freeActive = 0..MaxActive - 1 /\ freePrefix = MaxActive..MaxActive + PrefixRows - 1
      /\ entries = << >> /\ pc = "idle" /\ todo = {}
      /\ phase = [r \in Requests |-> "new"] /\ row = [r \in Requests |-> NoRow]
  BY DEF Init, RowsInit
<1>2. Types /\ TodoOK
  BY <1>1 DEF Types, TodoOK, Phases
<1>3. Held = {} /\ HeldRows = {}
  BY <1>1 DEF Held, HeldRows, Holding
<1>4. PrefixSideOK /\ EntryRows = {}
  BY <1>1 DEF PrefixSideOK, IsList, DistinctRows, EntryRows, RowsOf
<1>5. ActiveSide = 0..MaxActive - 1 /\ Cardinality(ActiveSide) = MaxActive
  <2>1. Cardinality(0..MaxActive - 1) = MaxActive
    BY FS_Interval
  <2> QED BY <1>1, <1>3, <2>1 DEF ActiveSide
<1>6. Rows = ActiveSide \cup PrefixSide /\ ActiveSide \cap PrefixSide = {}
  BY <1>1, <1>4, <1>5 DEF Rows, PrefixSide
<1> QED BY <1>2, <1>3, <1>4, <1>5, <1>6 DEF DenseInv, Partition

LEMMA EntryRowsAre == ASSUME DenseInv, NEW w \in EntryRows PROVE w \in Rows /\ w \in PrefixSide
  BY DEF DenseInv, Partition, PrefixSide

LEMMA HeldRowsAre ==
  ASSUME DenseInv, NEW r \in Held
  PROVE  /\ row[r] \in Rows /\ row[r] \notin PrefixSide /\ row[r] \notin freeActive /\ row[r] \notin EntryRows
         /\ row[r] \notin freePrefix /\ \A q \in Held : q # r => row[q] # row[r]
<1>1. row[r] \in HeldRows
  BY DEF HeldRows
<1>2. row[r] \in ActiveSide /\ row[r] \notin freeActive
  BY <1>1 DEF ActiveSide, DenseInv, Partition
<1>3. row[r] \in Rows /\ row[r] \notin PrefixSide
  BY <1>2 DEF DenseInv, Partition
<1> QED BY <1>2, <1>3 DEF PrefixSide, DenseInv, Partition

\* A step that moves no row and keeps each request on its side.
LEMMA StepKeepsRows ==
  ASSUME DenseInv, Types', TodoOK', Held' = Held,
         UNCHANGED <<row, freeActive, freePrefix, entries>>
  PROVE  DenseInv'
  BY SameOwners DEF DenseInv

(***************************************************************************)
(* The steps that move rows.                                               *)
(***************************************************************************)
LEMMA RetireKeeps == ASSUME DenseInv, NEW r \in Requests, Retire(r) PROVE DenseInv'
<1> USE DEF Retire
<1>1. r \in Held /\ Held' = Held \ {r} /\ \A q \in Held \ {r} : row'[q] = row[q]
  BY DEF DenseInv, Types, Held, Holding
<1>2. Types'
  BY DEF DenseInv, Types, Phases
<1>3. TodoOK'
  BY DEF DenseInv, Types, TodoOK, In
<1>4. Partition
  BY DEF DenseInv
<1>5. CASE ReleaseRow(r)
  BY <1>1, <1>2, <1>3, <1>4, <1>5, RowReleased DEF DenseInv, ReleaseRow
<1>6. ASSUME NEW choice \in PrefixRowChoices(mode.pin), AdoptRow(r, choice) PROVE DenseInv'
  <2> DEFINE pin == mode.pin
  <2>1. choice \in PrefixRowChoices(pin)
    OBVIOUS
  <2> HIDE DEF pin
  <2> QED BY <1>1, <1>2, <1>3, <1>4, <1>6, <2>1, RowAdopted DEF DenseInv
<1> QED BY <1>5, <1>6

LEMMA FillKeeps ==
  ASSUME DenseInv, pc \in {"prefill", "plain"}, NEW G \in SUBSET todo, NEW stops \in SUBSET G,
         NEW pads, Fill(G, stops, pads)
  PROVE  DenseInv' /\ Held' = Held \cup G
<1>1. PICK f \in ActiveRowsFor(G) :
        /\ freeActive' = freeActive \ {f[r] : r \in G}
        /\ row' = [r \in Requests |-> IF r \in G THEN f[r] ELSE row[r]]
  BY DEF Fill
<1>2. G \subseteq In("admitted") /\ G \cap Held = {} /\ G \subseteq Requests
  BY DEF DenseInv, Types, TodoOK, In, Held, Holding
<1>3. Held' = Held \cup G
  BY <1>2 DEF Fill, Held, Holding, In
<1>4. \A r \in G : f[r] \in freeActive
  BY DEF ActiveRowsFor
<1>5. Types'
  <2>1. freeActive \subseteq Rows
    BY DEF DenseInv, Partition, ActiveSide
  <2> QED BY <1>1, <1>2, <1>4, <2>1 DEF Fill, DenseInv, Types, Phases
<1>6. TodoOK'
  BY DEF Fill, DenseInv, Types, TodoOK, In
<1>7. (\A r \in G : row'[r] = f[r]) /\ (\A r \in Held : row'[r] = row[r])
  BY <1>1, <1>2 DEF Held
<1>8. UNCHANGED <<freePrefix, entries>>
  BY DEF Fill
<1>9. Partition'
  BY <1>1, <1>2, <1>3, <1>7, <1>8, RowsGiven DEF DenseInv
<1> QED BY <1>3, <1>5, <1>6, <1>9 DEF DenseInv

LEMMA TakeRowKeeps ==
  ASSUME DenseInv, NEW r \in Requests, TakeRow(r), pc' # "raised"
  PROVE  DenseInv' /\ Held' = Held \cup {r}
<1>1. freeActive # {} /\ pc = "take" /\ r \in todo
  BY DEF TakeRow, Raise
<1>2. PICK f \in ActiveRowsFor({r}) :
        freeActive' = freeActive \ {f[r]} /\ row' = [row EXCEPT ![r] = f[r]]
  BY <1>1 DEF TakeRow
<1>3. phase[r] = "admitted" /\ r \notin Held
  BY <1>1 DEF DenseInv, TodoOK, In, Held, Holding
<1>4. phase' = [phase EXCEPT ![r] = "prefilling"] /\ todo' = todo \ {r}
      /\ UNCHANGED <<freePrefix, entries, pc>>
  BY <1>1 DEF TakeRow
<1>5. Held' = Held \cup {r}
  BY <1>3, <1>4 DEF DenseInv, Types, Held, Holding
<1>6. f[r] \in freeActive /\ {f[q] : q \in {r}} = {f[r]}
  BY DEF ActiveRowsFor
<1>7. Types'
  <2>1. freeActive \subseteq Rows
    BY DEF DenseInv, Partition, ActiveSide
  <2> QED BY <1>2, <1>4, <1>6, <2>1 DEF DenseInv, Types, Phases
<1>8. TodoOK'
  BY <1>1, <1>4 DEF DenseInv, Types, TodoOK, In
<1>9. (\A q \in {r} : row'[q] = f[q]) /\ (\A q \in Held : row'[q] = row[q])
  BY <1>2, <1>3 DEF DenseInv, Types, Held
<1>10. Partition'
  <2> DEFINE G == {r}
  <2>1. /\ G \cap Held = {} /\ f \in ActiveRowsFor(G) /\ freeActive' = freeActive \ {f[q] : q \in G}
        /\ Held' = Held \cup G /\ (\A q \in G : row'[q] = f[q]) /\ (\A q \in Held : row'[q] = row[q])
    BY <1>2, <1>3, <1>5, <1>6, <1>9
  <2> HIDE DEF G
  <2> QED BY <1>4, <2>1, RowsGiven DEF DenseInv
<1> QED BY <1>5, <1>7, <1>8, <1>10 DEF DenseInv

\* A step that may store a prefix in a row acquired for it.
LEMMA StoreStep ==
  ASSUME DenseInv, Types', TodoOK', Held' = Held, UNCHANGED <<row, freeActive>>,
         UNCHANGED <<entries, freePrefix>> \/
           \E pin : \E choice : \E tokens, common : Stores(pin, choice, tokens, choice.row, common)
  PROVE  DenseInv'
<1>1. CASE UNCHANGED <<entries, freePrefix>>
  BY <1>1, SameOwners DEF DenseInv
<1>2. ASSUME NEW pin, NEW choice, NEW tokens, NEW common, Stores(pin, choice, tokens, choice.row, common)
      PROVE  DenseInv'
  BY <1>2, PrefixStored DEF DenseInv
<1> QED BY <1>1, <1>2

LEMMA StoreKeeps == ASSUME DenseInv, NEW r \in Requests, Store(r) PROVE DenseInv'
<1> USE DEF Store
<1>1. Types' /\ TodoOK' /\ Held' = Held /\ UNCHANGED <<row, freeActive>>
  BY DEF DenseInv, Types, Phases, TodoOK, In, Held, Holding
<1>2. ASSUME NEW choice \in PrefixRowChoices(FALSE),
             entries' = WithEntry(choice.left, Prompt[r], choice.row, FALSE),
             freePrefix' = freePrefix \ {choice.row}
      PROVE  Stores(FALSE, choice, Prompt[r], choice.row, FALSE)
  BY <1>2, PlainStore
<1>3. UNCHANGED <<entries, freePrefix>> \/
        \E choice : Stores(FALSE, choice, Prompt[r], choice.row, FALSE)
  BY <1>2
<1> QED BY <1>1, <1>3, StoreStep

LEMMA PrefillCommonKeeps == ASSUME DenseInv, PrefillCommon PROVE DenseInv'
<1> USE DEF PrefillCommon
<1>1. Types' /\ TodoOK' /\ Held' = Held /\ UNCHANGED <<row, freeActive>>
  BY DEF DenseInv, Types, Phases, TodoOK, In, Held, Holding
<1> DEFINE tokens == SubSeq(Prompt[CHOOSE r \in todo : TRUE], 1, SharedPrompts(todo))
<1>2. UNCHANGED <<entries, freePrefix>> \/
        \E choice \in PrefixRowChoices(mode.pin) : StoreCommon(tokens, choice)
  OBVIOUS
<1> HIDE DEF tokens
<1>3. UNCHANGED <<entries, freePrefix>> \/
        \E choice : Stores(mode.pin, choice, tokens, choice.row, TRUE)
  <2>1. PICK pin : pin = mode.pin
    OBVIOUS
  <2> QED BY <1>2, <2>1, CommonStore
<1> QED BY <1>1, <1>3, StoreStep

LEMMA PrepareCommonKeeps == ASSUME DenseInv, PrepareCommon PROVE DenseInv'
<1> USE DEF PrepareCommon
<1>1. Types' /\ TodoOK' /\ Held' = Held /\ UNCHANGED <<row, freeActive>>
  BY DEF DenseInv, Types, Phases, TodoOK, In, Held, Holding, request
<1> DEFINE n == Min({SharedPrompts(todo)} \cup {Len(Prompt[r]) - 1 : r \in todo})
           tokens == SubSeq(Prompt[CHOOSE r \in todo : TRUE], 1, n)
<1>2. UNCHANGED <<entries, freePrefix>> \/
        \E choice \in PrefixRowChoices(mode.pin) : StoreCommon(tokens, choice)
  OBVIOUS
<1> HIDE DEF tokens
<1>3. UNCHANGED <<entries, freePrefix>> \/
        \E choice : Stores(mode.pin, choice, tokens, choice.row, TRUE)
  <2>1. PICK pin : pin = mode.pin
    OBVIOUS
  <2> QED BY <1>2, <2>1, CommonStore
<1> QED BY <1>1, <1>3, StoreStep

LEMMA DenseInvNext == DenseInv /\ [Next]_vars => DenseInv'
<1> SUFFICES ASSUME DenseInv, [Next]_vars PROVE DenseInv'
  OBVIOUS
<1>1. ASSUME NEW r \in Requests, Submit(r) PROVE DenseInv'
  <2> USE <1>1 DEF Submit
  <2>1. Types'
    BY DEF DenseInv, Types, Phases, In, request
  <2>2. TodoOK'
    BY DEF DenseInv, Types, TodoOK, In, request
  <2>3. Held' = Held /\ UNCHANGED <<row, freeActive, freePrefix, entries>>
    BY DEF DenseInv, Types, TodoOK, In, Held, Holding, rows, request
  <2> QED BY <2>1, <2>2, <2>3, StepKeepsRows
<1>2. ASSUME StartStep PROVE DenseInv'
  <2> USE <1>2 DEF StartStep
  <2>1. Types'
    BY DEF DenseInv, Types, Phases, In, request
  <2>2. TodoOK'
    BY DEF DenseInv, Types, TodoOK, In, request
  <2>3. Held' = Held /\ UNCHANGED <<row, freeActive, freePrefix, entries>>
    BY DEF DenseInv, Types, TodoOK, In, Held, Holding, rows, request
  <2> QED BY <2>1, <2>2, <2>3, StepKeepsRows
<1>3. ASSUME Decide PROVE DenseInv'
  <2> USE <1>3 DEF Decide
  <2>1. Types'
    BY DEF DenseInv, Types, Phases, In, request
  <2>2. TodoOK'
    BY DEF DenseInv, Types, TodoOK, In, request
  <2>3. Held' = Held /\ UNCHANGED <<row, freeActive, freePrefix, entries>>
    BY DEF DenseInv, Types, TodoOK, In, Held, Holding, rows, request
  <2> QED BY <2>1, <2>2, <2>3, StepKeepsRows
<1>4. ASSUME Filter PROVE DenseInv'
  <2> USE <1>4 DEF Filter
  <2>1. Types'
    BY DEF DenseInv, Types, Phases, In, request
  <2>2. TodoOK'
    BY DEF DenseInv, Types, TodoOK, In, request
  <2>3. Held' = Held /\ UNCHANGED <<row, freeActive, freePrefix, entries>>
    BY DEF DenseInv, Types, TodoOK, In, Held, Holding, rows, request
  <2> QED BY <2>1, <2>2, <2>3, StepKeepsRows
<1>5. ASSUME DecodeDone PROVE DenseInv'
  <2> USE <1>5 DEF DecodeDone
  <2>1. Types'
    BY DEF DenseInv, Types, Phases, In, request
  <2>2. TodoOK'
    BY DEF DenseInv, Types, TodoOK, In, request
  <2>3. Held' = Held /\ UNCHANGED <<row, freeActive, freePrefix, entries>>
    BY DEF DenseInv, Types, TodoOK, In, Held, Holding, rows, request
  <2> QED BY <2>1, <2>2, <2>3, StepKeepsRows
<1>6. ASSUME StartBurst PROVE DenseInv'
  <2> USE <1>6 DEF StartBurst
  <2>1. Types'
    BY DEF DenseInv, Types, Phases, In, request
  <2>2. TodoOK'
    BY DEF DenseInv, Types, TodoOK, In, request
  <2>3. Held' = Held /\ UNCHANGED <<row, freeActive, freePrefix, entries>>
    BY DEF DenseInv, Types, TodoOK, In, Held, Holding, rows, request
  <2> QED BY <2>1, <2>2, <2>3, StepKeepsRows
<1>7. ASSUME BurstDone PROVE DenseInv'
  <2> USE <1>7 DEF BurstDone
  <2>1. Types'
    BY DEF DenseInv, Types, Phases, In, request
  <2>2. TodoOK'
    BY DEF DenseInv, Types, TodoOK, In, request
  <2>3. Held' = Held /\ UNCHANGED <<row, freeActive, freePrefix, entries>>
    BY DEF DenseInv, Types, TodoOK, In, Held, Holding, rows, request
  <2> QED BY <2>1, <2>2, <2>3, StepKeepsRows
<1>8. ASSUME AdvanceDone PROVE DenseInv'
  <2> USE <1>8 DEF AdvanceDone
  <2>1. Types'
    BY DEF DenseInv, Types, Phases, In, request
  <2>2. TodoOK'
    BY DEF DenseInv, Types, TodoOK, In, request
  <2>3. Held' = Held /\ UNCHANGED <<row, freeActive, freePrefix, entries>>
    BY DEF DenseInv, Types, TodoOK, In, Held, Holding, rows, request
  <2> QED BY <2>1, <2>2, <2>3, StepKeepsRows
<1>9. ASSUME AdmitNone PROVE DenseInv'
  <2> USE <1>9 DEF AdmitNone, AfterPrefill
  <2>1. Types'
    BY DEF DenseInv, Types, Phases, In, request
  <2>2. TodoOK'
    BY DEF DenseInv, Types, TodoOK, In, request
  <2>3. Held' = Held /\ UNCHANGED <<row, freeActive, freePrefix, entries>>
    BY DEF DenseInv, Types, TodoOK, In, Held, Holding, rows, request
  <2> QED BY <2>1, <2>2, <2>3, StepKeepsRows
<1>10. ASSUME PrefillDone PROVE DenseInv'
  <2> USE <1>10 DEF PrefillDone, AfterPrefill
  <2>1. Types'
    BY DEF DenseInv, Types, Phases, In, request
  <2>2. TodoOK'
    BY DEF DenseInv, Types, TodoOK, In, request
  <2>3. Held' = Held /\ UNCHANGED <<row, freeActive, freePrefix, entries>>
    BY DEF DenseInv, Types, TodoOK, In, Held, Holding, rows, request
  <2> QED BY <2>1, <2>2, <2>3, StepKeepsRows
<1>11. ASSUME TakeDone PROVE DenseInv'
  <2> USE <1>11 DEF TakeDone, AfterPrefill
  <2>1. Types'
    BY DEF DenseInv, Types, Phases, In, request
  <2>2. TodoOK'
    BY DEF DenseInv, Types, TodoOK, In, request
  <2>3. Held' = Held /\ UNCHANGED <<row, freeActive, freePrefix, entries>>
    BY DEF DenseInv, Types, TodoOK, In, Held, Holding, rows, request
  <2> QED BY <2>1, <2>2, <2>3, StepKeepsRows
<1>12. ASSUME Release PROVE DenseInv'
  <2> USE <1>12 DEF Release
  <2>1. Types'
    BY DEF DenseInv, Types, Phases, In, request
  <2>2. TodoOK'
    BY DEF DenseInv, Types, TodoOK, In, request
  <2>3. Held' = Held /\ UNCHANGED <<row, freeActive, freePrefix, entries>>
    BY DEF DenseInv, Types, TodoOK, In, Held, Holding, rows, request
  <2> QED BY <2>1, <2>2, <2>3, StepKeepsRows
<1>13. ASSUME Raise PROVE DenseInv'
  <2> USE <1>13 DEF Raise
  <2>1. Types'
    BY DEF DenseInv, Types, Phases, In, request
  <2>2. TodoOK'
    BY DEF DenseInv, Types, TodoOK, In, request
  <2>3. Held' = Held /\ UNCHANGED <<row, freeActive, freePrefix, entries>>
    BY DEF DenseInv, Types, TodoOK, In, Held, Holding, rows, request
  <2> QED BY <2>1, <2>2, <2>3, StepKeepsRows
<1>14. ASSUME NEW G \in SUBSET todo, NEW stops \in SUBSET G, NEW pads, DecodeGroup(G, stops, pads) PROVE DenseInv'
  <2> USE <1>14 DEF DecodeGroup, Ended, Spent, Forward
  <2>1. Types'
    BY DEF DenseInv, Types, Phases, In, request
  <2>2. TodoOK'
    BY DEF DenseInv, Types, TodoOK, In, request
  <2>3. Held' = Held /\ UNCHANGED <<row, freeActive, freePrefix, entries>>
    BY DEF DenseInv, Types, TodoOK, In, Held, Holding, rows, request
  <2> QED BY <2>1, <2>2, <2>3, StepKeepsRows
<1>15. ASSUME NEW G \in SUBSET todo, NEW stops \in SUBSET G, NEW pads, ChunkGroup(G, stops, pads) PROVE DenseInv'
  <2> USE <1>15 DEF ChunkGroup, Ended, Spent
  <2>1. Types'
    BY DEF DenseInv, Types, Phases, In, request
  <2>2. TodoOK'
    BY DEF DenseInv, Types, TodoOK, In, request
  <2>3. Held' = Held /\ UNCHANGED <<row, freeActive, freePrefix, entries>>
    BY DEF DenseInv, Types, TodoOK, In, Held, Holding, rows, request
  <2> QED BY <2>1, <2>2, <2>3, StepKeepsRows
<1>16. ASSUME NEW stops, NEW pads, BurstStep(stops, pads) PROVE DenseInv'
  <2> USE <1>16 DEF BurstStep, Spent, Forward
  <2>1. Types'
    BY DEF DenseInv, Types, Phases, In, request
  <2>2. TodoOK'
    BY DEF DenseInv, Types, TodoOK, In, request
  <2>3. Held' = Held /\ UNCHANGED <<row, freeActive, freePrefix, entries>>
    BY DEF DenseInv, Types, TodoOK, In, Held, Holding, rows, request
  <2> QED BY <2>1, <2>2, <2>3, StepKeepsRows
<1>17. ASSUME NEW batch \in SUBSET In("waiting"), Admit(batch) PROVE DenseInv'
  <2> USE <1>17 DEF Admit
  <2>1. Types'
    BY DEF DenseInv, Types, Phases, In, request
  <2>2. TodoOK'
    BY DEF DenseInv, Types, TodoOK, In, request
  <2>3. Held' = Held /\ UNCHANGED <<row, freeActive, freePrefix, entries>>
    BY DEF DenseInv, Types, TodoOK, In, Held, Holding, rows, request
  <2> QED BY <2>1, <2>2, <2>3, StepKeepsRows
<1>18. ASSUME NEW r \in Requests, Retire(r) \/ Store(r) PROVE DenseInv'
  BY <1>18, RetireKeeps, StoreKeeps
<1>19. ASSUME NEW r \in Requests, TakeRow(r) PROVE DenseInv'
  BY <1>13, <1>19, TakeRowKeeps DEF TakeRow, Raise
<1>20. ASSUME NEW G \in SUBSET todo, NEW stops \in SUBSET G, NEW pads, PrefillPrefixGroup(G, stops, pads) PROVE DenseInv'
  BY <1>13, <1>20, FillKeeps DEF PrefillPrefixGroup, FillOrRaise
<1>21. ASSUME NEW G \in SUBSET todo, NEW stops \in SUBSET G, NEW pads, PrefillPlainGroup(G, stops, pads) PROVE DenseInv'
  BY <1>13, <1>21, FillKeeps DEF PrefillPlainGroup, FillOrRaise
<1>22. ASSUME PrefillCommon \/ PrepareCommon PROVE DenseInv'
  BY <1>22, PrefillCommonKeeps, PrepareCommonKeeps
<1>23. ASSUME UNCHANGED vars PROVE DenseInv'
  <2> USE <1>23 DEF vars, rows, request
  <2>1. Types' /\ TodoOK'
    BY DEF DenseInv, Types, TodoOK, In
  <2>2. Held' = Held
    BY DEF Held
  <2> QED BY <2>1, <2>2, StepKeepsRows
<1>24. ASSUME Step PROVE DenseInv'
  BY <1>24, <1>2, <1>3, <1>4, <1>5, <1>6, <1>7, <1>8, <1>9, <1>10, <1>11, <1>12, <1>13, <1>14, <1>15, <1>16, <1>17, <1>18, <1>19, <1>20, <1>21, <1>22 DEF Step
<1> QED BY <1>1, <1>23, <1>24 DEF Next

\* Every physical row has exactly one owner, and the active side keeps its size, for
\* any number of rows, requests and configurations.
THEOREM RowsHaveOneOwner == Spec => []RowsPartitioned
<1>1. DenseInv => RowsPartitioned
  BY PartitionMeans DEF DenseInv
<1> QED BY <1>1, DenseInvInit, DenseInvNext, PTL DEF Spec

(***************************************************************************)
(* Admission never takes more requests than there are rows.                *)
(***************************************************************************)
\* An engine that decodes before it admits, and leaves the rows of requests that this
\* decode finished to the next step, prefills ahead of any number of active requests.
SafeModes ==
  \A m \in Modes : m.decodeFirst /\ m.defer /\ m.ragged => m.readyCap >= MaxActive

Passing == pc \in {"prefill", "plain", "prepare", "take"}
BeforeAdmission == (pc \in {"filter", "decode"} /\ ~decodeAfter) \/ pc \in {"advance", "admit"}

FitInv ==
  /\ mode \in Modes
  /\ Passing => Cardinality(todo \cup Held) <= MaxActive
  /\ pc = "admit" => In("ending") = {} /\ In("filled") = {}
  /\ BeforeAdmission => In("pending") = {} \/ In("waiting") = {}
  /\ pc \in {"filter", "decode"} /\ ~decodeAfter /\ mode.defer /\ mode.ragged => In("waiting") = {}
  /\ pc # "raised"

LEMMA HeldFinite ==
  ASSUME DenseInv
  PROVE  /\ IsFiniteSet(Held) /\ IsFiniteSet(HeldRows) /\ IsFiniteSet(freeActive)
         /\ Cardinality(Held) \in Nat /\ Cardinality(freeActive) \in Nat
         /\ Cardinality(Held) + Cardinality(freeActive) = MaxActive
<1>1. IsFiniteSet(Held)
  BY EngineAssumption, FS_Subset DEF Held
<1>2. Cardinality(HeldRows) = Cardinality(Held) /\ IsFiniteSet(HeldRows)
  <2> DEFINE f == [r \in Held |-> row[r]]
  <2>1. f \in Bijection(Held, HeldRows)
    BY DEF Bijection, Injection, Surjection, IsInjective, HeldRows, DenseInv, Partition
  <2> QED BY <1>1, <2>1, FS_Bijection DEF ExistsBijection
<1>3. IsFiniteSet(freeActive)
  BY ActiveSideFinite, FS_Subset DEF DenseInv, ActiveSide
<1>4. Cardinality(ActiveSide) = Cardinality(freeActive) + Cardinality(HeldRows)
  <2>1. freeActive \cap HeldRows = {}
    BY DEF DenseInv, Partition
  <2>2. Cardinality(freeActive \cup HeldRows) =
          Cardinality(freeActive) + Cardinality(HeldRows) - Cardinality(freeActive \cap HeldRows)
    BY <1>2, <1>3, FS_Union
  <2>3. Cardinality(freeActive \cap HeldRows) = 0
    BY <2>1, FS_EmptySet
  <2>4. Cardinality(freeActive) \in Nat /\ Cardinality(HeldRows) \in Nat
    BY <1>2, <1>3, FS_CardinalityType
  <2> QED BY <2>2, <2>3, <2>4 DEF ActiveSide
<1> QED BY <1>1, <1>2, <1>3, <1>4, FS_CardinalityType DEF DenseInv, Partition

\* Requests that fit with the held ones have free rows.
LEMMA FreeRowsFit ==
  ASSUME DenseInv, NEW G, G \subseteq Requests, G \cap Held = {}, Cardinality(G \cup Held) <= MaxActive
  PROVE  IsFiniteSet(G) /\ Cardinality(G) \in Nat /\ Cardinality(G) <= Cardinality(freeActive)
<1>1. IsFiniteSet(G)
  BY EngineAssumption, FS_Subset
<1>2. Cardinality(G \cup Held) = Cardinality(G) + Cardinality(Held) - Cardinality(G \cap Held)
  BY <1>1, HeldFinite, FS_Union
<1>3. Cardinality(G \cap Held) = 0
  BY FS_EmptySet
<1> QED BY <1>1, <1>2, <1>3, HeldFinite, FS_CardinalityType, RowsAssumption

LEMMA FewerFit ==
  ASSUME DenseInv, Cardinality(todo \cup Held) <= MaxActive, NEW S, S \subseteq todo \cup Held
  PROVE  Cardinality(S) <= MaxActive
<1>1. IsFiniteSet(todo \cup Held)
  BY EngineAssumption, FS_Subset DEF DenseInv, Types, Held
<1>2. IsFiniteSet(S) /\ Cardinality(S) <= Cardinality(todo \cup Held)
  BY <1>1, FS_Subset
<1> QED BY <1>1, <1>2, FS_CardinalityType, RowsAssumption

LEMMA AdmitFits ==
  ASSUME DenseInv, FitInv, NEW batch \in SUBSET In("waiting"), Admit(batch)
  PROVE  Held' = Held /\ Cardinality(batch \cup Held) <= MaxActive
<1>1. Held' = Held
  BY DEF Admit, DenseInv, Types, Held, Holding, In
<1>2. In("pending") = {} /\ In("ending") = {} /\ In("filled") = {}
  BY DEF Admit, FitInv, BeforeAdmission
<1>3. Held = In("active") \cup In("prefilling")
  BY <1>2 DEF Held, Holding, In
<1>4. IsFiniteSet(batch) /\ batch \cap Held = {}
  BY EngineAssumption, FS_Subset DEF In, Held, Holding
<1>5. Cardinality(batch) <= MaxActive - Cardinality(Held)
  BY <1>3 DEF Admit, Capacity
<1>6. Cardinality(batch \cup Held) = Cardinality(batch) + Cardinality(Held) - Cardinality(batch \cap Held)
  BY <1>4, HeldFinite, FS_Union
<1>7. Cardinality(batch \cap Held) = 0 /\ Cardinality(batch) \in Nat /\ Cardinality(Held) \in Nat
  BY <1>4, HeldFinite, FS_EmptySet, FS_CardinalityType
<1> QED BY <1>1, <1>5, <1>6, <1>7, RowsAssumption

LEMMA FillFits ==
  ASSUME DenseInv, FitInv, pc \in {"prefill", "plain"}, NEW G \in SUBSET todo, NEW stops \in SUBSET G,
         NEW pads, FillOrRaise(G, stops, pads)
  PROVE  FitInv'
<1>1. Cardinality(todo \cup Held) <= MaxActive
  BY DEF FitInv, Passing
<1>2. G \cap Held = {} /\ G \subseteq Requests
  BY DEF DenseInv, Types, TodoOK, In, Held, Holding
<1>3. Cardinality(G) <= Cardinality(freeActive) /\ Cardinality(G) \in Nat
  BY <1>1, <1>2, FewerFit, FreeRowsFit
<1>4. Fill(G, stops, pads)
  BY <1>3, HeldFinite DEF FillOrRaise
<1>5. todo' \cup Held' = todo \cup Held
  <2>1. Held' = Held \cup G
    BY <1>4, FillKeeps
  <2>2. todo' = todo \ G
    BY <1>4 DEF Fill
  <2> QED BY <2>1, <2>2
<1> QED BY <1>1, <1>4, <1>5 DEF Fill, FitInv, Passing, BeforeAdmission

LEMMA TakeFits ==
  ASSUME DenseInv, FitInv, NEW r \in Requests, TakeRow(r)
  PROVE  FitInv'
<1>1. pc = "take" /\ r \in todo /\ Cardinality(todo \cup Held) <= MaxActive
  BY DEF TakeRow, FitInv, Passing
<1>2. r \notin Held
  BY <1>1 DEF DenseInv, TodoOK, In, Held, Holding
<1>3. Cardinality({r}) <= Cardinality(freeActive)
  <2> DEFINE G == {r}
  <2>1. G \subseteq Requests /\ G \cap Held = {} /\ G \cup Held \subseteq todo \cup Held
    BY <1>1, <1>2
  <2>2. Cardinality(G \cup Held) <= MaxActive
    BY <1>1, <2>1, FewerFit
  <2> HIDE DEF G
  <2>3. Cardinality(G) <= Cardinality(freeActive)
    BY <2>1, <2>2, FreeRowsFit
  <2> QED BY <2>3 DEF G
<1>4. freeActive # {}
  <2>1. Cardinality({r}) = 1 /\ Cardinality({}) = 0
    BY FS_Singleton, FS_EmptySet
  <2> QED BY <1>3, <2>1
<1>5. todo' = todo \ {r} /\ pc' = pc /\ mode' = mode
  BY <1>4 DEF TakeRow
<1>6. Held' = Held \cup {r}
  BY <1>1, <1>5, TakeRowKeeps
<1>7. todo' \cup Held' = todo \cup Held
  BY <1>1, <1>5, <1>6
<1> QED BY <1>1, <1>5, <1>7 DEF FitInv, Passing, BeforeAdmission

\* Elsewhere in the step the invariant says nothing.
LEMMA FitElsewhere ==
  ASSUME FitInv, mode' = mode,
         \/ pc' \in {"idle", "flush", "burst", "bursting", "release"}
         \/ pc' \in {"filter", "decode"} /\ decodeAfter'
  PROVE  FitInv'
  BY DEF FitInv, Passing, BeforeAdmission

LEMMA DecideFits == ASSUME SafeModes, DenseInv, FitInv, Decide PROVE FitInv'
<1>1. Cardinality(In("active")) \in Nat /\ Cardinality(In("active")) <= MaxActive
  <2>1. In("active") \subseteq Held
    BY DEF In, Held, Holding
  <2> QED BY <2>1, HeldFinite, FS_Subset, FS_CardinalityType, RowsAssumption
<1>2. mode.readyCap \in Nat
  BY EngineAssumption DEF FitInv
<1>3. ASSUME pc' = "filter", mode.defer, mode.ragged PROVE In("waiting") = {} 
  <2>1. mode.decodeFirst /\ ~PrefillFirst
    BY <1>3 DEF Decide
  <2>2. mode.readyCap >= MaxActive
    BY <1>3, <2>1 DEF SafeModes, FitInv
  <2> QED BY <1>1, <1>2, <2>1, <2>2, RowsAssumption DEF PrefillFirst
<1>4. In("pending") = {} /\ pc' \in {"filter", "advance"} /\ mode' = mode /\ phase' = phase
  BY DEF Decide, request
<1>5. \A p : In(p)' = In(p)
  BY <1>4 DEF In
<1> QED BY <1>3, <1>4, <1>5 DEF FitInv, Passing, BeforeAdmission

LEMMA FitInvNext == SafeModes /\ DenseInv /\ FitInv /\ [Next]_vars => FitInv'
<1> SUFFICES ASSUME SafeModes, DenseInv, FitInv, [Next]_vars PROVE FitInv'
  OBVIOUS
<1>1. ASSUME NEW r \in Requests, Submit(r) PROVE FitInv'
  BY <1>1, FitElsewhere DEF Submit
<1>2. ASSUME \/ StartStep \/ StartBurst \/ BurstDone \/ Release \/ AdmitNone \/ PrefillDone \/ TakeDone
             \/ \E stops \in SUBSET todo, pads \in PadRows : BurstStep(stops, pads)
      PROVE  FitInv'
  BY <1>2, FitElsewhere DEF StartStep, StartBurst, BurstDone, Release, AdmitNone, PrefillDone,
                            TakeDone, AfterPrefill, BurstStep
<1>3. ASSUME Filter PROVE FitInv'
  <2>1. In("pending")' = In("pending") /\ In("waiting")' = In("waiting")
    BY <1>3 DEF Filter, In, DenseInv, Types
  <2> QED BY <1>3, <2>1 DEF Filter, FitInv, Passing, BeforeAdmission
<1>4. ASSUME NEW G \in SUBSET todo, NEW stops \in SUBSET G, NEW pads, DecodeGroup(G, stops, pads)
      PROVE  FitInv'
  <2>1. G \subseteq In("active") /\ Ended(G, stops) \subseteq G
    BY <1>4 DEF DecodeGroup, DenseInv, TodoOK, Ended, Spent
  <2>2. In("waiting")' = In("waiting")
    BY <1>4, <2>1 DEF DecodeGroup, In, DenseInv, Types
  <2>3. ~(mode.ragged /\ mode.defer) => In("pending")' = In("pending")
    BY <1>4, <2>1 DEF DecodeGroup, In, DenseInv, Types, Ragged, RaggedOver
  <2> QED BY <1>4, <2>2, <2>3 DEF DecodeGroup, FitInv, Passing, BeforeAdmission
<1>5. ASSUME DecodeDone PROVE FitInv'
  <2>1. \A p : In(p)' = In(p)
    BY <1>5 DEF DecodeDone, In, request
  <2>2. CASE decodeAfter
    BY <1>5, <2>2, FitElsewhere DEF DecodeDone
  <2>3. CASE ~decodeAfter
    BY <1>5, <2>1, <2>3 DEF DecodeDone, FitInv, Passing, BeforeAdmission
  <2> QED BY <2>2, <2>3
<1>6. ASSUME NEW G \in SUBSET todo, NEW stops \in SUBSET G, NEW pads, ChunkGroup(G, stops, pads)
      PROVE  FitInv'
  <2>1. G \subseteq In("prefilling")
    BY <1>6 DEF ChunkGroup, DenseInv, TodoOK
  <2>2. In("pending")' = In("pending") /\ In("waiting")' = In("waiting")
    BY <1>6, <2>1 DEF ChunkGroup, Ended, Spent, In, DenseInv, Types
  <2> QED BY <1>6, <2>2 DEF ChunkGroup, FitInv, Passing, BeforeAdmission
<1>7. ASSUME AdvanceDone PROVE FitInv'
  <2>1. \A p : In(p)' = In(p)
    BY <1>7 DEF AdvanceDone, In, request
  <2> QED BY <1>7, <2>1 DEF AdvanceDone, Settled, FitInv, Passing, BeforeAdmission
<1>8. ASSUME Decide PROVE FitInv'
  BY <1>8, DecideFits
<1>9. ASSUME NEW batch \in SUBSET In("waiting"), Admit(batch) PROVE FitInv'
  <2>1. Held' = Held /\ Cardinality(batch \cup Held) <= MaxActive
    BY <1>9, AdmitFits
  <2> QED BY <1>9, <2>1 DEF Admit, FitInv, Passing, BeforeAdmission
<1>10. ASSUME NEW r \in Requests, Retire(r) PROVE FitInv'
  <2>1. todo' = todo /\ Held' \subseteq Held /\ UNCHANGED <<mode, pc, decodeAfter>>
    BY <1>10 DEF Retire, Held, Holding, DenseInv, Types
  <2>2. /\ In("waiting")' = In("waiting") /\ In("pending")' \subseteq In("pending")
        /\ In("ending")' \subseteq In("ending") /\ In("filled")' = In("filled")
    BY <1>10 DEF Retire, In, DenseInv, Types
  <2>3. ASSUME Passing PROVE Cardinality(todo' \cup Held') <= MaxActive
    BY <2>1, <2>3, FewerFit DEF FitInv
  <2> QED BY <2>1, <2>2, <2>3 DEF FitInv, Passing, BeforeAdmission
<1>11. ASSUME NEW r \in Requests, Store(r) PROVE FitInv'
  <2>1. todo' = todo /\ Held' = Held /\ UNCHANGED <<mode, pc, decodeAfter>>
    BY <1>11 DEF Store, Held, Holding, DenseInv, Types
  <2>2. /\ In("waiting")' = In("waiting") /\ In("pending")' = In("pending")
        /\ In("ending")' = In("ending") /\ In("filled")' \subseteq In("filled")
    BY <1>11 DEF Store, In, DenseInv, Types
  <2> QED BY <2>1, <2>2 DEF FitInv, Passing, BeforeAdmission
<1>12. ASSUME NEW G \in SUBSET todo, NEW stops \in SUBSET G, NEW pads,
              PrefillPrefixGroup(G, stops, pads) \/ PrefillPlainGroup(G, stops, pads)
       PROVE  FitInv'
  BY <1>12, FillFits DEF PrefillPrefixGroup, PrefillPlainGroup
<1>13. ASSUME NEW r \in Requests, TakeRow(r) PROVE FitInv'
  BY <1>13, TakeFits
<1>14. ASSUME PrefillCommon \/ PrepareCommon PROVE FitInv'
  <2>1. todo' = todo /\ Held' = Held /\ mode' = mode /\ Passing /\ pc' \in {"plain", "take"}
    BY <1>14 DEF PrefillCommon, PrepareCommon, Held, request, Passing
  <2> QED BY <2>1 DEF FitInv, Passing, BeforeAdmission
<1>15. ASSUME UNCHANGED vars PROVE FitInv'
  <2>1. Held' = Held /\ \A p : In(p)' = In(p)
    BY <1>15 DEF vars, request, Held, In
  <2> QED BY <1>15, <2>1 DEF vars, FitInv, Passing, BeforeAdmission
<1>16. ASSUME Step PROVE FitInv'
  BY <1>16, <1>2, <1>3, <1>4, <1>5, <1>6, <1>7, <1>8, <1>9, <1>10, <1>11, <1>12, <1>13, <1>14 DEF Step
<1> QED BY <1>1, <1>15, <1>16 DEF Next

\* In every such configuration a free row is there for each request that is admitted,
\* for any number of rows and requests, in every interleaving of arrivals with steps.
\* With deferred cleanup and a smaller cap the code runs out of rows.
THEOREM AdmissionFits == ASSUME SafeModes PROVE Spec => []RowsSuffice
<1>1. Init => FitInv
  BY DEF Init, FitInv, Passing, BeforeAdmission
<1>2. DenseInv /\ FitInv /\ [Next]_vars => FitInv'
  BY FitInvNext
<1>3. FitInv => RowsSuffice
  BY DEF FitInv, RowsSuffice
<1> QED BY <1>1, <1>2, <1>3, DenseInvInit, DenseInvNext, PTL DEF Spec

(***************************************************************************)
(* What the requests have done.  ServeInv is inductive given DenseInv: the *)
(* counters of each request fit its phase (Progress), and each pass of the *)
(* step finds the requests where it expects them (Stages).                 *)
(***************************************************************************)
Counters ==
  /\ mode \in Modes /\ decodeAfter \in BOOLEAN /\ over \subseteq Requests
  /\ gen \in [Requests -> Nat] /\ seq \in [Requests -> Nat] /\ hit \in [Requests -> Nat]
  /\ src \in [Requests -> Rows \cup {NoRow}]

EntryOK(e) == e.tokens \in Seq(STRING) /\ Len(e.tokens) <= MaxLen
EntriesOK == \A i \in DOMAIN entries : EntryOK(entries[i])

Running == {"filled", "active", "pending", "ending", "done"}

\* A request out of budget is over, and no pass decodes it again.
Fits(r) ==
  /\ hit[r] <= Len(Prompt[r])
  /\ phase[r] \in {"new", "waiting"} => hit[r] = 0
  /\ phase[r] \in {"new", "waiting", "admitted"} => gen[r] = 0 /\ seq[r] = 0 /\ r \notin over
  /\ phase[r] = "prefilling" =>
       gen[r] = 0 /\ hit[r] <= seq[r] /\ seq[r] < Len(Prompt[r]) /\ r \notin over
  /\ phase[r] \in Running => /\ 1 <= gen[r] /\ gen[r] <= MaxNew[r]
                             /\ seq[r] = Len(Prompt[r]) + gen[r] - 1
  /\ phase[r] \in {"filled", "active"} /\ r \notin over => gen[r] < MaxNew[r]
  /\ pc \in {"decode", "burst", "bursting"} /\ r \in todo => gen[r] < MaxNew[r]
  /\ pc \in {"idle", "flush"} /\ mode.decodeFirst /\ phase[r] = "active" => r \notin over

Progress == \A r \in Requests : Fits(r)

\* The prompts of an admission are looked up and filled without a retirement or a
\* chunk in between; whoever is being prefilled has its first chunk before the next
\* admission.
Stages ==
  /\ In("filled") # {} => pc \in {"prefill", "plain"}
  /\ Passing => In("admitted") = todo
  /\ In("admitted") # {} => Passing \/ pc = "raised"
  /\ pc \in {"prefill", "plain"} => mode.chunk = 0
  /\ pc \in {"prepare", "take"} => mode.chunk > 0 /\ \A r \in todo : hit[r] = 0
  /\ Passing \/ pc \in {"admit", "raised"} => In("ending") = {}
  /\ mode.chunk = 0 => In("prefilling") = {}
  /\ pc = "advance" => \A r \in In("prefilling") \ todo : hit[r] < seq[r]
  /\ pc \in {"admit", "prepare"} => \A r \in In("prefilling") : hit[r] < seq[r]
  /\ mode.perStep = 1 /\ pc \in {"prefill", "plain"} => \A r, q \in todo \cup In("filled") : r = q

ServeInv == Counters /\ EntriesOK /\ Progress /\ Stages

LEMMA Budgets ==
  /\ MaxLen \in Nat
  /\ \A r \in Requests :
       /\ Len(Prompt[r]) \in Nat /\ Len(Prompt[r]) >= 1 /\ MaxNew[r] \in Nat /\ MaxNew[r] >= 1
       /\ Len(Prompt[r]) + MaxNew[r] <= MaxLen
<1> SUFFICES ASSUME NEW r \in Requests
             PROVE  /\ Len(Prompt[r]) \in Nat /\ Len(Prompt[r]) >= 1
                    /\ MaxNew[r] \in Nat /\ MaxNew[r] >= 1
                    /\ Len(Prompt[r]) + MaxNew[r] <= MaxLen
  BY RowsAssumption
<1>1. Prompt[r] \in Seq(STRING) /\ Prompt[r] # << >> /\ MaxNew[r] \in Nat \ {0}
      /\ Len(Prompt[r]) + MaxNew[r] <= MaxLen
  BY EngineAssumption
<1>2. Len(Prompt[r]) \in Nat /\ Len(Prompt[r]) # 0
  BY <1>1
<1> QED BY <1>1, <1>2

\* The mode of the session, and how much a chunk and a step take.
LEMMA ModeTypes ==
  ASSUME Counters
  PROVE  mode.chunk \in Nat /\ mode.perStep \in Nat /\ mode.decodeFirst \in BOOLEAN
  BY EngineAssumption DEF Counters

\* A nonempty set of naturals has a least element, and a greatest if it is bounded.
LEMMA LeastElement ==
  ASSUME NEW T \in SUBSET Nat, T # {}
  PROVE  \E x \in T : \A y \in T : x <= y
<1>1. IsWellFoundedOn({ss \in Nat \X Nat : ss[1] < ss[2]}, Nat)
  BY NatLessThanWellFounded DEF OpToRel
<1>2. PICK x \in T : \A y \in T : ~ (<<y, x>> \in {ss \in Nat \X Nat : ss[1] < ss[2]})
  BY <1>1, WFMin
<1>3. \A y \in T : y \in Nat
  OBVIOUS
<1>4. \A y \in T : ~ (y < x)
  BY <1>2, <1>3
<1> QED BY <1>3, <1>4

LEMMA LeastOf ==
  ASSUME NEW T \in SUBSET Nat, T # {}
  PROVE  Min(T) \in T /\ \A y \in T : Min(T) <= y
  BY LeastElement DEF Min

LEMMA GreatestOf ==
  ASSUME NEW T \in SUBSET Nat, T # {}, NEW n \in Nat, \A y \in T : y <= n
  PROVE  Max(T) \in T /\ \A y \in T : y <= Max(T)
<1> DEFINE U == {n - y : y \in T}
<1>0. \A y \in T : y \in Nat /\ n - y \in Nat
  OBVIOUS
<1>1. U \in SUBSET Nat /\ U # {}
  BY <1>0
<1>2. PICK u \in U : \A y \in U : u <= y
  BY <1>1, LeastElement
<1>3. PICK x \in T : u = n - x
  BY <1>2
<1>4. \A y \in T : y <= x
  BY <1>0, <1>2, <1>3
<1> QED BY <1>3, <1>4 DEF Max

\* A lookup: the row of an entry that the prompt starts with, and never its last token.
\* It misses no entry that is as long as a common prefix.
LEMMA FoundOn ==
  ASSUME EntriesOK, NEW r \in Requests, NEW i \in DOMAIN entries, NEW h, h = HitOn(Prompt[r], i)
  PROVE  /\ h.tokens \in Nat /\ h.tokens < Len(Prompt[r]) /\ h.tokens <= Len(entries[i].tokens)
         /\ h.tokens > 0 => h.row = entries[i].row
         /\ h.tokens = 0 => h.row = NoRow /\ (Len(entries[i].tokens) = 0 \/ Len(Prompt[r]) = 1)
<1> DEFINE n == Len(entries[i].tokens)
           l == Len(Prompt[r]) - 1
<1>1. n \in Nat /\ l \in Nat /\ l < Len(Prompt[r]) /\ Len(Prompt[r]) \in Nat
  BY Budgets DEF EntriesOK, EntryOK
<1>2. PICK m : m = Min({n, l})
  OBVIOUS
<1>3. h = IF m = 0 THEN Miss ELSE [tokens |-> m, row |-> entries[i].row]
  BY <1>2 DEF HitOn
<1>4. l = 0 => Len(Prompt[r]) = 1
  BY <1>1
<1> HIDE DEF n, l
<1>5. {n, l} \in SUBSET Nat
  BY <1>1
<1>6. m \in {n, l} /\ m <= n /\ m <= l
  BY <1>2, <1>5, LeastOf
<1>7. h.tokens = m /\ (m # 0 => h.row = entries[i].row) /\ (m = 0 => h.row = NoRow)
  BY <1>3 DEF Miss
<1>8. h.tokens \in Nat /\ h.tokens < Len(Prompt[r]) /\ h.tokens <= n
  BY <1>1, <1>6, <1>7
<1>9. h.tokens = 0 => n = 0 \/ l = 0
  BY <1>6, <1>7
<1> QED BY <1>1, <1>4, <1>7, <1>8, <1>9 DEF n

LEMMA LookupFacts ==
  ASSUME EntriesOK, NEW r \in Requests, NEW demoted, NEW h \in Hits(Prompt[r], demoted)
  PROVE  /\ h.tokens \in Nat /\ h.tokens < Len(Prompt[r])
         /\ h.tokens > 0 =>
              \E i \in DOMAIN entries : /\ h.row = entries[i].row
                                        /\ h.tokens <= Len(entries[i].tokens)
                                        /\ IsPrefixOf(entries[i].tokens, Prompt[r])
         /\ h.tokens = 0 => h.row = NoRow
         /\ h.tokens = 0 => \A i \in Matches(Prompt[r]) : Len(entries[i].tokens) < MinCommon
<1> DEFINE p == Prompt[r]
           M == Matches(p)
           d == Deepest(p)
<1>1. Len(p) \in Nat /\ Len(p) >= 1
  BY Budgets
<1>2. CASE M = {}
  <2>1. h = Miss
    BY <1>2 DEF Hits
  <2>2. h.tokens = 0 /\ h.row = NoRow
    BY <2>1 DEF Miss
  <2> QED BY <1>1, <1>2, <2>2
<1>3. CASE M # {}
  <2> DEFINE T == {Len(entries[k].tokens) : k \in M}
  <2>1. \A k \in M : k \in DOMAIN entries /\ IsPrefixOf(entries[k].tokens, p)
    BY DEF Matches
  <2>2. \A k \in DOMAIN entries : Len(entries[k].tokens) \in Nat /\ Len(entries[k].tokens) <= MaxLen
    BY DEF EntriesOK, EntryOK
  <2>3. T \in SUBSET Nat /\ T # {} /\ \A y \in T : y <= MaxLen
    BY <1>3, <2>1, <2>2
  <2>4. Max(T) \in T /\ \A y \in T : y <= Max(T)
    BY <2>3, RowsAssumption, GreatestOf
  <2>5. \E i \in M : \A k \in M : Len(entries[k].tokens) <= Len(entries[i].tokens)
    BY <2>4
  <2>6. d \in M /\ \A k \in M : Len(entries[k].tokens) <= Len(entries[d].tokens)
    BY <2>5 DEF Deepest
  <2>7. PICK i \in {d} \cup Shallower(p) : h = HitOn(p, i)
    BY <1>3 DEF Hits
  <2>8. i = d \/ (Len(entries[i].tokens) > 0 /\ i \in DOMAIN entries /\ IsPrefixOf(entries[i].tokens, p))
    BY <2>7 DEF Shallower
  <2>9. i \in DOMAIN entries /\ IsPrefixOf(entries[i].tokens, p)
    BY <2>1, <2>6, <2>8
  <2>10. /\ h.tokens \in Nat /\ h.tokens < Len(p) /\ h.tokens <= Len(entries[i].tokens)
         /\ h.tokens > 0 => h.row = entries[i].row
         /\ h.tokens = 0 => h.row = NoRow /\ (Len(entries[i].tokens) = 0 \/ Len(p) = 1)
    BY <2>7, <2>9, FoundOn
  <2>11. ASSUME h.tokens = 0, NEW k \in M PROVE Len(entries[k].tokens) < MinCommon
    <3>1. Len(entries[k].tokens) \in Nat /\ Len(entries[k].tokens) <= Len(p)
      BY <2>1, <2>2 DEF IsPrefixOf
    <3>2. CASE Len(p) = 1
      BY <3>1, <3>2, EngineAssumption
    <3>3. CASE Len(entries[i].tokens) = 0
      <4>1. i = d
        BY <2>8, <3>3
      <4>2. Len(entries[k].tokens) <= 0
        BY <2>6, <3>3, <4>1
      <4> QED BY <3>1, <4>2, EngineAssumption
    <3> QED BY <2>10, <2>11, <3>2, <3>3
  <2> QED BY <2>9, <2>10, <2>11
<1> QED BY <1>2, <1>3

\* What admission looks up.
LEMMA AdmitLooks ==
  ASSUME NEW batch \in SUBSET Requests, Admit(batch)
  PROVE  \/ mode.chunk > 0 /\ pc' = "prepare" /\ UNCHANGED <<hit, src>>
         \/ /\ ~(mode.chunk > 0) /\ pc' = "prefill"
            /\ DOMAIN hit' = Requests /\ DOMAIN src' = Requests
            /\ \A q \in Requests \ batch : hit'[q] = hit[q] /\ src'[q] = src[q]
            /\ \A q \in batch : \E h \in Hits(Prompt[q], mode.graph) :
                 hit'[q] = h.tokens /\ src'[q] = h.row
<1>1. CASE mode.chunk > 0
  BY <1>1 DEF Admit
<1>2. CASE ~(mode.chunk > 0)
  <2>1. /\ pc' = "prefill"
        /\ \E found \in [batch -> Found(batch)] :
             /\ \A r \in batch : found[r] \in Hits(Prompt[r], mode.graph)
             /\ hit' = [r \in Requests |-> IF r \in batch THEN found[r].tokens ELSE hit[r]]
             /\ src' = [r \in Requests |-> IF r \in batch THEN found[r].row ELSE src[r]]
    BY <1>2 DEF Admit
  <2>2. PICK found :
             /\ \A r \in batch : found[r] \in Hits(Prompt[r], mode.graph)
             /\ hit' = [r \in Requests |-> IF r \in batch THEN found[r].tokens ELSE hit[r]]
             /\ src' = [r \in Requests |-> IF r \in batch THEN found[r].row ELSE src[r]]
    BY <2>1
  <2>3. \A q \in batch : found[q] \in Hits(Prompt[q], mode.graph)
                         /\ hit'[q] = found[q].tokens /\ src'[q] = found[q].row
    BY <2>2
  <2> QED BY <1>2, <2>1, <2>2, <2>3
<1> QED BY <1>1, <1>2

\* Where a lookup may point.
LEMMA LookupTypes ==
  ASSUME DenseInv, EntriesOK, NEW r \in Requests, NEW demoted, NEW h \in Hits(Prompt[r], demoted)
  PROVE  h.tokens \in Nat /\ h.tokens < Len(Prompt[r]) /\ h.row \in Rows \cup {NoRow}
<1>1. EntryRows \subseteq Rows
  BY DEF DenseInv, Partition, PrefixSide
<1>2. /\ h.tokens \in Nat /\ h.tokens < Len(Prompt[r])
      /\ h.tokens > 0 => \E i \in DOMAIN entries : h.row = entries[i].row
      /\ h.tokens = 0 => h.row = NoRow
  BY LookupFacts
<1>3. h.tokens > 0 => h.row \in Rows
  BY <1>1, <1>2 DEF EntryRows, RowsOf
<1>4. h.tokens = 0 \/ h.tokens > 0
  BY <1>2
<1> QED BY <1>2, <1>3, <1>4

\* What the prompts of a batch have in common.
LEMMA SharedFacts ==
  ASSUME NEW G \in SUBSET Requests, G # {}
  PROVE  /\ SharedPrompts(G) \in Nat
         /\ \A r \in G : SharedPrompts(G) <= Len(Prompt[r])
         /\ \A r, q \in G : \A i \in 1..SharedPrompts(G) : Prompt[r][i] = Prompt[q][i]
<1>1. CASE Cardinality(G) > 1
  <2> DEFINE P == {Prompt[r] : r \in G}
             T == {n \in 0..MaxLen : \A s, t \in P : n <= Len(s) /\ \A i \in 1..n : s[i] = t[i]}
  <2>1. 0 \in T
    BY Budgets
  <2>2. T \in SUBSET Nat /\ \A y \in T : y <= MaxLen
    BY Budgets
  <2>3. Max(T) \in T
    BY <2>1, <2>2, Budgets, GreatestOf
  <2>4. SharedPrompts(G) = Max(T)
    BY <1>1 DEF SharedPrompts, CommonCount
  <2> DEFINE n == Max(T)
  <2>5. n \in Nat /\ \A s, t \in P : n <= Len(s) /\ \A i \in 1..n : s[i] = t[i]
    BY <2>2, <2>3
  <2> HIDE DEF n
  <2>6. \A r \in G : Prompt[r] \in P
    OBVIOUS
  <2> HIDE DEF P
  <2> QED BY <2>4, <2>5, <2>6 DEF n
<1>2. CASE ~(Cardinality(G) > 1)
  BY <1>2, Budgets DEF SharedPrompts
<1> QED BY <1>1, <1>2

\* Where the entries come from once a prefix is stored: the new one, and old ones
\* whose row was not taken.
LEMMA EntryOrigin ==
  ASSUME PrefixSideOK, NEW pin, NEW choice, NEW tokens, NEW w, NEW common,
         Stores(pin, choice, tokens, w, common), NEW k \in DOMAIN entries'
  PROVE  \/ entries'[k].tokens = tokens /\ entries'[k].row = w
         \/ \E i \in DOMAIN entries : /\ entries'[k].tokens = entries[i].tokens
                                      /\ entries'[k].row = entries[i].row
                                      /\ entries[i].row # choice.row
<1>1. /\ IsList(choice.left) /\ DistinctRows(choice.left) /\ choice.row \notin RowsOf(choice.left)
  BY ChoiceRows DEF Stores
<1>2. \A j \in DOMAIN choice.left : \E i \in DOMAIN entries : choice.left[j] = entries[i]
  <2>1. CASE freePrefix # {}
    <3>1. choice.left = entries
      BY <2>1 DEF Stores, PrefixRowChoices
    <3> QED BY <3>1
  <2>2. CASE freePrefix = {}
    <3>1. PICK i \in DOMAIN entries : choice.left = Without(entries, i)
      BY <2>2 DEF Stores, PrefixRowChoices, Evictable
    <3> QED BY <3>1, WithoutOrigin DEF PrefixSideOK
  <2> QED BY <2>1, <2>2
<1>3. PICK old \in Leftovers(choice.left) : entries' = WithEntry(old.left, tokens, w, common)
  BY DEF Stores
<1>4. PICK list : list = old.left
  OBVIOUS
<1>5. /\ IsList(list) /\ choice.row \notin RowsOf(list)
      /\ \A j \in DOMAIN list : \E i \in DOMAIN entries : list[j] = entries[i]
  <2>1. /\ IsList(list) /\ RowsOf(list) \subseteq RowsOf(choice.left)
        /\ \A j \in DOMAIN list : \E i \in DOMAIN choice.left : list[j] = choice.left[i]
    BY <1>1, <1>4, LeftoverRows
  <2> QED BY <1>1, <1>2, <2>1
<1>6. entries' = WithEntry(list, tokens, w, common)
  BY <1>3, <1>4
<1>7. Len(list) \in Nat /\ DOMAIN list = 1..Len(list)
  BY <1>5 DEF IsList
<1>8. k \in 1..Len(list) + 1
  BY <1>6 DEF WithEntry
<1>9. CASE k > Len(list)
  <2>1. entries'[k] = [tokens |-> tokens, row |-> w, common |-> common, indexed |-> TRUE]
    BY <1>6, <1>8, <1>9 DEF WithEntry
  <2> QED BY <2>1
<1>10. CASE ~(k > Len(list))
  <2>1. k \in DOMAIN list
    BY <1>7, <1>8, <1>10
  <2>2. entries'[k].tokens = list[k].tokens /\ entries'[k].row = list[k].row
    BY <1>6, <1>8, <1>10 DEF WithEntry
  <2>3. list[k].row # choice.row
    BY <1>5, <2>1 DEF RowsOf
  <2>4. PICK i \in DOMAIN entries : list[k] = entries[i]
    BY <1>5, <2>1
  <2> QED BY <2>2, <2>3, <2>4
<1> QED BY <1>9, <1>10

\* Entries keep their type, whatever is stored.
LEMMA EntriesTyped ==
  ASSUME PrefixSideOK, EntriesOK,
         \/ entries' = entries
         \/ \E pin, choice, w, common : \E tokens \in Seq(STRING) :
              Len(tokens) <= MaxLen /\ Stores(pin, choice, tokens, w, common)
  PROVE  EntriesOK'
<1>1. CASE entries' = entries
  BY <1>1 DEF EntriesOK, EntryOK
<1>2. ASSUME NEW pin, NEW choice, NEW w, NEW common, NEW tokens \in Seq(STRING), Len(tokens) <= MaxLen,
             Stores(pin, choice, tokens, w, common)
      PROVE  EntriesOK'
  <2> SUFFICES ASSUME NEW k \in DOMAIN entries'
               PROVE  entries'[k].tokens \in Seq(STRING) /\ Len(entries'[k].tokens) <= MaxLen
    BY DEF EntriesOK, EntryOK
  <2>1. \/ entries'[k].tokens = tokens
        \/ \E i \in DOMAIN entries : entries'[k].tokens = entries[i].tokens
    BY <1>2, EntryOrigin
  <2> QED BY <1>2, <2>1 DEF EntriesOK, EntryOK
<1> QED BY <1>1, <1>2

\* What is stored: a whole prompt, or what the prompts of a batch have in common.
LEMMA PromptToStore ==
  ASSUME NEW r \in Requests PROVE Prompt[r] \in Seq(STRING) /\ Len(Prompt[r]) <= MaxLen
<1>1. Prompt[r] \in Seq(STRING)
  BY EngineAssumption
<1> QED BY <1>1, Budgets

LEMMA CommonToStore ==
  ASSUME NEW G \in SUBSET Requests, G # {}, NEW n \in Nat, n <= SharedPrompts(G),
         NEW tokens, tokens = SubSeq(Prompt[CHOOSE r \in G : TRUE], 1, n)
  PROVE  /\ tokens \in Seq(STRING) /\ Len(tokens) = n /\ n <= MaxLen
         /\ \A r \in G : n <= Len(Prompt[r]) /\ \A i \in 1..n : tokens[i] = Prompt[r][i]
<1> DEFINE c == CHOOSE r \in G : TRUE
<1>1. c \in G
  OBVIOUS
<1> HIDE DEF c
<1>2. PICK m : m = SharedPrompts(G)
  OBVIOUS
<1>3. m \in Nat /\ (\A r \in G : m <= Len(Prompt[r]))
      /\ \A r, q \in G : \A i \in 1..m : Prompt[r][i] = Prompt[q][i]
  BY <1>2, SharedFacts
<1>4. Prompt[c] \in Seq(STRING) /\ Len(Prompt[c]) \in Nat /\ Len(Prompt[c]) <= MaxLen
  BY <1>1, PromptToStore, Budgets
<1>5. n <= m /\ n <= Len(Prompt[c])
  BY <1>1, <1>2, <1>3, <1>4
<1>6. tokens = SubSeq(Prompt[c], 1, n)
  BY DEF c
<1>7. tokens \in Seq(STRING) /\ Len(tokens) = n /\ \A i \in 1..n : tokens[i] = Prompt[c][i]
  BY <1>4, <1>5, <1>6
<1>8. \A r \in G : n <= Len(Prompt[r])
  BY <1>3, <1>5, Budgets
<1>9. \A r \in G : \A i \in 1..n : Prompt[c][i] = Prompt[r][i]
  <2>1. \A i \in 1..n : i \in 1..m
    BY <1>3, <1>5
  <2> QED BY <1>1, <1>3, <2>1
<1>10. n <= MaxLen
  BY <1>4, <1>5, Budgets
<1> QED BY <1>7, <1>8, <1>9, <1>10

\* The steps that compute nothing and move no row.

LEMMA SubmitServes == ASSUME DenseInv, ServeInv, NEW r \in Requests, Submit(r) PROVE ServeInv'
<1> USE DEF Submit
<1>1. Counters'
  BY DEF ServeInv, Counters, rows, request
<1>2. EntriesOK'
  BY EntriesTyped DEF ServeInv, DenseInv, Partition, rows
<1>3. Progress'
  <2> SUFFICES ASSUME NEW q \in Requests PROVE Fits(q)'
    BY DEF Progress
  <2> QED BY DEF ServeInv, Progress, Fits, Stages, Counters, DenseInv, Types, TodoOK, In, Running, rows, request
<1>4. Stages'
  BY ModeTypes DEF ServeInv, Counters, Stages, Passing, Settled, DenseInv, Types, TodoOK, In, rows, request
<1> QED BY <1>1, <1>2, <1>3, <1>4 DEF ServeInv

LEMMA StartStepServes == ASSUME DenseInv, ServeInv, StartStep PROVE ServeInv'
<1> USE DEF StartStep
<1>1. Counters'
  BY DEF ServeInv, Counters, rows, request
<1>2. EntriesOK'
  BY EntriesTyped DEF ServeInv, DenseInv, Partition, rows
<1>3. Progress'
  <2> SUFFICES ASSUME NEW q \in Requests PROVE Fits(q)'
    BY DEF Progress
  <2> QED BY DEF ServeInv, Progress, Fits, Stages, Counters, DenseInv, Types, TodoOK, In, Running, rows, request
<1>4. Stages'
  BY ModeTypes DEF ServeInv, Counters, Stages, Passing, Settled, DenseInv, Types, TodoOK, In, rows, request
<1> QED BY <1>1, <1>2, <1>3, <1>4 DEF ServeInv

LEMMA DecideServes == ASSUME DenseInv, ServeInv, Decide PROVE ServeInv'
<1> USE DEF Decide
<1>1. Counters'
  BY DEF ServeInv, Counters, rows, request
<1>2. EntriesOK'
  BY EntriesTyped DEF ServeInv, DenseInv, Partition, rows
<1>3. Progress'
  <2> SUFFICES ASSUME NEW q \in Requests PROVE Fits(q)'
    BY DEF Progress
  <2> QED BY DEF ServeInv, Progress, Fits, Stages, Counters, DenseInv, Types, TodoOK, In, Running, rows, request
<1>4. Stages'
  BY ModeTypes DEF ServeInv, Counters, Stages, Passing, Settled, DenseInv, Types, TodoOK, In, rows, request
<1> QED BY <1>1, <1>2, <1>3, <1>4 DEF ServeInv

LEMMA FilterServes == ASSUME DenseInv, ServeInv, Filter PROVE ServeInv'
<1> USE DEF Filter
<1>1. Counters'
  BY DEF ServeInv, Counters, rows, request
<1>2. EntriesOK'
  BY EntriesTyped DEF ServeInv, DenseInv, Partition, rows
<1>3. Progress'
  <2> SUFFICES ASSUME NEW q \in Requests PROVE Fits(q)'
    BY DEF Progress
  <2> QED BY DEF ServeInv, Progress, Fits, Stages, Counters, DenseInv, Types, TodoOK, In, Running, rows, request
<1>4. Stages'
  BY ModeTypes DEF ServeInv, Counters, Stages, Passing, Settled, DenseInv, Types, TodoOK, In, rows, request
<1> QED BY <1>1, <1>2, <1>3, <1>4 DEF ServeInv

LEMMA DecodeDoneServes == ASSUME DenseInv, ServeInv, DecodeDone PROVE ServeInv'
<1> USE DEF DecodeDone
<1>1. Counters'
  BY DEF ServeInv, Counters, rows, request
<1>2. EntriesOK'
  BY EntriesTyped DEF ServeInv, DenseInv, Partition, rows
<1>3. Progress'
  <2> SUFFICES ASSUME NEW q \in Requests PROVE Fits(q)'
    BY DEF Progress
  <2> QED BY DEF ServeInv, Progress, Fits, Stages, Counters, DenseInv, Types, TodoOK, In, Running, rows, request
<1>4. Stages'
  BY ModeTypes DEF ServeInv, Counters, Stages, Passing, Settled, DenseInv, Types, TodoOK, In, rows, request
<1> QED BY <1>1, <1>2, <1>3, <1>4 DEF ServeInv

LEMMA StartBurstServes == ASSUME DenseInv, ServeInv, StartBurst PROVE ServeInv'
<1> USE DEF StartBurst
<1>1. Counters'
  BY DEF ServeInv, Counters, rows, request
<1>2. EntriesOK'
  BY EntriesTyped DEF ServeInv, DenseInv, Partition, rows
<1>3. Progress'
  <2> SUFFICES ASSUME NEW q \in Requests PROVE Fits(q)'
    BY DEF Progress
  <2> QED BY DEF ServeInv, Progress, Fits, Stages, Counters, DenseInv, Types, TodoOK, In, Running, rows, request
<1>4. Stages'
  BY ModeTypes DEF ServeInv, Counters, Stages, Passing, Settled, DenseInv, Types, TodoOK, In, rows, request
<1> QED BY <1>1, <1>2, <1>3, <1>4 DEF ServeInv

LEMMA BurstDoneServes == ASSUME DenseInv, ServeInv, BurstDone PROVE ServeInv'
<1> USE DEF BurstDone
<1>1. Counters'
  BY DEF ServeInv, Counters, rows, request
<1>2. EntriesOK'
  BY EntriesTyped DEF ServeInv, DenseInv, Partition, rows
<1>3. Progress'
  <2> SUFFICES ASSUME NEW q \in Requests PROVE Fits(q)'
    BY DEF Progress
  <2> QED BY DEF ServeInv, Progress, Fits, Stages, Counters, DenseInv, Types, TodoOK, In, Running, rows, request
<1>4. Stages'
  BY ModeTypes DEF ServeInv, Counters, Stages, Passing, Settled, DenseInv, Types, TodoOK, In, rows, request
<1> QED BY <1>1, <1>2, <1>3, <1>4 DEF ServeInv

LEMMA AdvanceDoneServes == ASSUME DenseInv, ServeInv, AdvanceDone PROVE ServeInv'
<1> USE DEF AdvanceDone
<1>1. Counters'
  BY DEF ServeInv, Counters, rows, request
<1>2. EntriesOK'
  BY EntriesTyped DEF ServeInv, DenseInv, Partition, rows
<1>3. Progress'
  <2> SUFFICES ASSUME NEW q \in Requests PROVE Fits(q)'
    BY DEF Progress
  <2> QED BY DEF ServeInv, Progress, Fits, Stages, Counters, DenseInv, Types, TodoOK, In, Running, rows, request
<1>4. Stages'
  BY ModeTypes DEF ServeInv, Counters, Stages, Passing, Settled, DenseInv, Types, TodoOK, In, rows, request
<1> QED BY <1>1, <1>2, <1>3, <1>4 DEF ServeInv

LEMMA AdmitNoneServes == ASSUME DenseInv, ServeInv, AdmitNone PROVE ServeInv'
<1> USE DEF AdmitNone, AfterPrefill
<1>1. Counters'
  BY DEF ServeInv, Counters, rows, request
<1>2. EntriesOK'
  BY EntriesTyped DEF ServeInv, DenseInv, Partition, rows
<1>3. Progress'
  <2> SUFFICES ASSUME NEW q \in Requests PROVE Fits(q)'
    BY DEF Progress
  <2> QED BY DEF ServeInv, Progress, Fits, Stages, Counters, DenseInv, Types, TodoOK, In, Running, rows, request
<1>4. Stages'
  BY ModeTypes DEF ServeInv, Counters, Stages, Passing, Settled, DenseInv, Types, TodoOK, In, rows, request
<1> QED BY <1>1, <1>2, <1>3, <1>4 DEF ServeInv

LEMMA PrefillDoneServes == ASSUME DenseInv, ServeInv, PrefillDone PROVE ServeInv'
<1> USE DEF PrefillDone, AfterPrefill
<1>1. Counters'
  BY DEF ServeInv, Counters, rows, request
<1>2. EntriesOK'
  BY EntriesTyped DEF ServeInv, DenseInv, Partition, rows
<1>3. Progress'
  <2> SUFFICES ASSUME NEW q \in Requests PROVE Fits(q)'
    BY DEF Progress
  <2> QED BY DEF ServeInv, Progress, Fits, Stages, Counters, DenseInv, Types, TodoOK, In, Running, rows, request
<1>4. Stages'
  BY ModeTypes DEF ServeInv, Counters, Stages, Passing, Settled, DenseInv, Types, TodoOK, In, rows, request
<1> QED BY <1>1, <1>2, <1>3, <1>4 DEF ServeInv

LEMMA TakeDoneServes == ASSUME DenseInv, ServeInv, TakeDone PROVE ServeInv'
<1> USE DEF TakeDone, AfterPrefill
<1>1. Counters'
  BY DEF ServeInv, Counters, rows, request
<1>2. EntriesOK'
  BY EntriesTyped DEF ServeInv, DenseInv, Partition, rows
<1>3. Progress'
  <2> SUFFICES ASSUME NEW q \in Requests PROVE Fits(q)'
    BY DEF Progress
  <2> QED BY DEF ServeInv, Progress, Fits, Stages, Counters, DenseInv, Types, TodoOK, In, Running, rows, request
<1>4. Stages'
  BY ModeTypes DEF ServeInv, Counters, Stages, Passing, Settled, DenseInv, Types, TodoOK, In, rows, request
<1> QED BY <1>1, <1>2, <1>3, <1>4 DEF ServeInv

LEMMA ReleaseServes == ASSUME DenseInv, ServeInv, Release PROVE ServeInv'
<1> USE DEF Release
<1>1. Counters'
  BY DEF ServeInv, Counters, rows, request
<1>2. EntriesOK'
  BY EntriesTyped DEF ServeInv, DenseInv, Partition, rows
<1>3. Progress'
  <2> SUFFICES ASSUME NEW q \in Requests PROVE Fits(q)'
    BY DEF Progress
  <2> QED BY DEF ServeInv, Progress, Fits, Stages, Counters, DenseInv, Types, TodoOK, In, Running, rows, request
<1>4. Stages'
  BY ModeTypes DEF ServeInv, Counters, Stages, Passing, Settled, DenseInv, Types, TodoOK, In, rows, request
<1> QED BY <1>1, <1>2, <1>3, <1>4 DEF ServeInv

LEMMA RaiseServes == ASSUME DenseInv, ServeInv, Passing, In("filled") = {}, Raise PROVE ServeInv'
<1> USE DEF Raise
<1>1. Counters'
  BY DEF ServeInv, Counters, rows, request
<1>2. EntriesOK'
  BY EntriesTyped DEF ServeInv, DenseInv, Partition, rows
<1>3. Progress'
  <2> SUFFICES ASSUME NEW q \in Requests PROVE Fits(q)'
    BY DEF Progress
  <2> QED BY DEF ServeInv, Progress, Fits, Stages, Counters, DenseInv, Types, TodoOK, In, Running, rows, request
<1>4. Stages'
  BY ModeTypes DEF ServeInv, Counters, Stages, Passing, Settled, DenseInv, Types, TodoOK, In, rows, request
<1> QED BY <1>1, <1>2, <1>3, <1>4 DEF ServeInv
\* The decode passes: one more token for each request of the batch.
LEMMA ForwardCounts ==
  ASSUME Counters, NEW G \in SUBSET Requests, NEW pads, Forward(G, pads)
  PROVE  /\ gen' \in [Requests -> Nat] /\ seq' \in [Requests -> Nat]
         /\ \A q \in G : gen'[q] = gen[q] + 1 /\ seq'[q] = seq[q] + 1
         /\ \A q \in Requests \ G : gen'[q] = gen[q] /\ seq'[q] = seq[q]
<1>1. \A q \in Requests : gen[q] \in Nat /\ seq[q] \in Nat
  BY DEF Counters
<1>2. gen' = [r \in Requests |-> IF r \in G THEN gen[r] + 1 ELSE gen[r]]
      /\ seq' = [r \in Requests |-> IF r \in G THEN seq[r] + 1 ELSE seq[r]]
  BY DEF Forward
<1> QED BY <1>1, <1>2

LEMMA OneMore ==
  \A l, m, g \in Nat : 1 <= g /\ g < m =>
    1 <= g + 1 /\ g + 1 <= m /\ l + g - 1 + 1 = l + (g + 1) - 1
  OBVIOUS

LEMMA DecodeGroupServes ==
  ASSUME DenseInv, ServeInv, NEW G \in SUBSET todo, NEW stops \in SUBSET G, NEW pads,
         DecodeGroup(G, stops, pads)
  PROVE  ServeInv'
<1> DEFINE E == Ended(G, stops)
<1>1. G \subseteq Requests /\ G \subseteq In("active") /\ pc = "decode"
  BY DEF DecodeGroup, DenseInv, Types, TodoOK
<1>2. /\ gen' \in [Requests -> Nat] /\ seq' \in [Requests -> Nat]
      /\ \A q \in G : gen'[q] = gen[q] + 1 /\ seq'[q] = seq[q] + 1
      /\ \A q \in Requests \ G : gen'[q] = gen[q] /\ seq'[q] = seq[q]
  BY <1>1, ForwardCounts DEF ServeInv, DecodeGroup
<1>3. /\ over' = over \cup E /\ todo' = todo \ G
      /\ \A q \in E : phase'[q] \in {"pending", "ending"}
      /\ \A q \in Requests \ E : phase'[q] = phase[q]
      /\ UNCHANGED <<freeActive, freePrefix, entries, mode, row, hit, src, decodeAfter, pc>>
  BY <1>1 DEF DecodeGroup, Ended, Spent
<1>4. E \subseteq G /\ \A q \in G \ E : ~(gen[q] + 1 >= MaxNew[q])
  BY DEF Ended, Spent
<1> HIDE DEF E
<1>5. Counters'
  BY <1>1, <1>2, <1>3, <1>4 DEF ServeInv, Counters
<1>6. EntriesOK'
  BY <1>3, EntriesTyped DEF ServeInv, DenseInv, Partition
<1>7. Progress'
  <2> SUFFICES ASSUME NEW q \in Requests PROVE Fits(q)'
    BY DEF Progress
  <2>1. Fits(q) /\ gen[q] \in Nat /\ seq[q] \in Nat /\ hit[q] \in Nat /\ Len(Prompt[q]) \in Nat /\ MaxNew[q] \in Nat
    BY Budgets DEF ServeInv, Progress, Counters
  <2>2. CASE q \in G
    <3>1. phase[q] = "active" /\ gen[q] < MaxNew[q]
      BY <1>1, <2>1, <2>2 DEF In, Fits
    <3>2. gen'[q] = gen[q] + 1 /\ seq'[q] = seq[q] + 1 /\ hit'[q] = hit[q] /\ q \notin todo'
      BY <1>2, <1>3, <2>2
    <3>3. phase'[q] \in {"active", "pending", "ending"} /\ (phase'[q] = "active" => q \notin E)
      BY <1>3, <2>2, <3>1
    <3>4. q \in E => q \in over'
      BY <1>3
    <3>5. q \notin E => gen[q] + 1 < MaxNew[q]
      BY <1>4, <2>1, <2>2
    <3>6. 1 <= gen'[q] /\ gen'[q] <= MaxNew[q] /\ seq'[q] = Len(Prompt[q]) + gen'[q] - 1 /\ hit'[q] <= Len(Prompt[q])
      <4>1. 1 <= gen[q] /\ seq[q] = Len(Prompt[q]) + gen[q] - 1 /\ hit[q] <= Len(Prompt[q])
        BY <2>1, <3>1 DEF Fits, Running
      <4>2. PICK g \in Nat : g = gen[q]
        BY <2>1
      <4>3. 1 <= g + 1 /\ g + 1 <= MaxNew[q] /\ Len(Prompt[q]) + g - 1 + 1 = Len(Prompt[q]) + (g + 1) - 1
        BY <2>1, <3>1, <4>1, <4>2, OneMore
      <4>4. gen'[q] = g + 1 /\ seq'[q] = Len(Prompt[q]) + g - 1 + 1 /\ hit'[q] <= Len(Prompt[q])
        BY <3>2, <4>1, <4>2
      <4> QED BY <4>3, <4>4
    <3>7. q \in over' \/ gen'[q] < MaxNew[q]
      BY <3>2, <3>4, <3>5
    <3> QED BY <1>1, <1>3, <3>2, <3>3, <3>6, <3>7 DEF Fits, Running
  <2>3. CASE q \notin G
    BY <1>1, <1>2, <1>3, <1>4, <2>1, <2>3 DEF Fits, Running
  <2> QED BY <2>2, <2>3
<1>8. Stages'
  <2>1. \A p \in {"filled", "admitted", "prefilling"} : In(p)' = In(p)
    BY <1>1, <1>3, <1>4 DEF In
  <2>2. \A q \in In("prefilling") : seq'[q] = seq[q]
    BY <1>1, <1>2 DEF In
  <2> QED BY <1>1, <1>3, <2>1, <2>2 DEF ServeInv, Stages, Passing
<1> QED BY <1>5, <1>6, <1>7, <1>8 DEF ServeInv

LEMMA BurstStepServes ==
  ASSUME DenseInv, ServeInv, NEW stops \in SUBSET todo, NEW pads, BurstStep(stops, pads)
  PROVE  ServeInv'
<1> DEFINE S == Spent(todo)
<1>1. todo \subseteq Requests /\ todo \subseteq In("active") /\ pc \in {"burst", "bursting"}
  BY DEF BurstStep, DenseInv, Types, TodoOK
<1>2. /\ gen' \in [Requests -> Nat] /\ seq' \in [Requests -> Nat]
      /\ \A q \in todo : gen'[q] = gen[q] + 1 /\ seq'[q] = seq[q] + 1
      /\ \A q \in Requests \ todo : gen'[q] = gen[q] /\ seq'[q] = seq[q]
  BY <1>1, ForwardCounts DEF ServeInv, BurstStep
<1>3. /\ over' = over \cup stops \cup S /\ todo' = todo \ S /\ pc' = "bursting"
      /\ UNCHANGED <<freeActive, freePrefix, entries, mode, phase, row, hit, src, decodeAfter>>
  BY DEF BurstStep, Ended
<1>4. S \subseteq todo /\ \A q \in todo \ S : ~(gen[q] + 1 >= MaxNew[q])
  BY DEF Spent
<1> HIDE DEF S
<1>5. Counters'
  BY <1>1, <1>2, <1>3, <1>4 DEF ServeInv, Counters
<1>6. EntriesOK'
  BY <1>3, EntriesTyped DEF ServeInv, DenseInv, Partition
<1>7. Progress'
  <2> SUFFICES ASSUME NEW q \in Requests PROVE Fits(q)'
    BY DEF Progress
  <2>1. Fits(q) /\ gen[q] \in Nat /\ seq[q] \in Nat /\ hit[q] \in Nat /\ Len(Prompt[q]) \in Nat /\ MaxNew[q] \in Nat
    BY Budgets DEF ServeInv, Progress, Counters
  <2>2. CASE q \in todo
    <3>1. phase[q] = "active" /\ gen[q] < MaxNew[q]
      BY <1>1, <2>1, <2>2 DEF In, Fits
    <3>2. gen'[q] = gen[q] + 1 /\ seq'[q] = seq[q] + 1 /\ hit'[q] = hit[q] /\ phase'[q] = "active"
      BY <1>2, <1>3, <2>2, <3>1
    <3>3. q \notin S => gen[q] + 1 < MaxNew[q]
      BY <1>4, <2>1, <2>2
    <3>4. q \in S => q \in over' /\ q \notin todo'
      BY <1>3
    <3>5. 1 <= gen'[q] /\ gen'[q] <= MaxNew[q] /\ seq'[q] = Len(Prompt[q]) + gen'[q] - 1 /\ hit'[q] <= Len(Prompt[q])
      <4>1. 1 <= gen[q] /\ seq[q] = Len(Prompt[q]) + gen[q] - 1 /\ hit[q] <= Len(Prompt[q])
        BY <2>1, <3>1 DEF Fits, Running
      <4>2. PICK g \in Nat : g = gen[q]
        BY <2>1
      <4>3. 1 <= g + 1 /\ g + 1 <= MaxNew[q] /\ Len(Prompt[q]) + g - 1 + 1 = Len(Prompt[q]) + (g + 1) - 1
        BY <2>1, <3>1, <4>1, <4>2, OneMore
      <4>4. gen'[q] = g + 1 /\ seq'[q] = Len(Prompt[q]) + g - 1 + 1 /\ hit'[q] <= Len(Prompt[q])
        BY <3>2, <4>1, <4>2
      <4> QED BY <4>3, <4>4
    <3>6. (q \in over' /\ q \notin todo') \/ gen'[q] < MaxNew[q]
      BY <3>2, <3>3, <3>4
    <3> QED BY <1>3, <3>2, <3>5, <3>6 DEF Fits, Running
  <2>3. CASE q \notin todo
    BY <1>1, <1>2, <1>3, <1>4, <2>1, <2>3 DEF Fits, Running
  <2> QED BY <2>2, <2>3
<1>8. Stages'
  <2>1. \A p : In(p)' = In(p)
    BY <1>3 DEF In
  <2> QED BY <1>1, <1>3, <2>1 DEF ServeInv, Stages, Passing
<1> QED BY <1>5, <1>6, <1>7, <1>8 DEF ServeInv

\* A chunk: what it takes, and whose prompt it ends.
LEMMA ChunkFacts ==
  ASSUME DenseInv, ServeInv, NEW r \in todo, pc = "advance"
  PROVE  /\ phase[r] = "prefilling" /\ r \in Requests /\ gen[r] = 0 /\ r \notin over
         /\ ChunkLen(r) \in Nat /\ ChunkLen(r) >= 1 /\ seq[r] + ChunkLen(r) <= Len(Prompt[r])
         /\ hit[r] <= seq[r] /\ seq[r] < Len(Prompt[r])
<1>1. phase[r] = "prefilling" /\ r \in Requests
  BY DEF DenseInv, Types, TodoOK, In
<1>2. gen[r] = 0 /\ hit[r] <= seq[r] /\ seq[r] < Len(Prompt[r]) /\ r \notin over
  BY <1>1 DEF ServeInv, Progress, Fits
<1>3. seq[r] \in Nat /\ Len(Prompt[r]) \in Nat
  BY <1>1, Budgets DEF ServeInv, Counters
<1>4. mode.chunk \in Nat /\ mode.chunk >= 1
  <2>1. mode.chunk # 0
    BY <1>1 DEF ServeInv, Stages, In
  <2> QED BY <2>1, ModeTypes DEF ServeInv
<1>5. PICK c : c = mode.chunk
  OBVIOUS
<1>6. PICK l : l = Len(Prompt[r]) - seq[r]
  OBVIOUS
<1>7. l \in Nat /\ l >= 1
  BY <1>2, <1>3, <1>6
<1>8. {c, l} \in SUBSET Nat
  BY <1>4, <1>5, <1>7
<1>9. Min({c, l}) \in {c, l} /\ Min({c, l}) <= l
  BY <1>8, LeastOf
<1>10. ChunkLen(r) = Min({c, l})
  BY <1>5, <1>6 DEF ChunkLen
<1>11. ChunkLen(r) \in Nat /\ ChunkLen(r) >= 1 /\ ChunkLen(r) <= l
  BY <1>4, <1>5, <1>7, <1>9, <1>10
<1> QED BY <1>1, <1>2, <1>3, <1>6, <1>11

LEMMA ChunkGroupServes ==
  ASSUME DenseInv, ServeInv, NEW G \in SUBSET todo, NEW stops \in SUBSET G, NEW pads,
         ChunkGroup(G, stops, pads)
  PROVE  ServeInv'
<1> DEFINE filled == {r \in G : seq[r] + ChunkLen(r) = Len(Prompt[r])}
           ended == Ended(filled, stops)
<1>1. G \subseteq Requests /\ G \subseteq In("prefilling") /\ pc = "advance" /\ G \subseteq todo
  BY DEF ChunkGroup, DenseInv, Types, TodoOK
<1>2. /\ seq' = [r \in Requests |-> IF r \in G THEN seq[r] + ChunkLen(r) ELSE seq[r]]
      /\ gen' = [r \in Requests |-> IF r \in filled THEN 1 ELSE gen[r]]
      /\ over' = over \cup ended
      /\ phase' = [r \in Requests |-> IF r \in ended THEN "ending"
                                      ELSE IF r \in filled THEN "active" ELSE phase[r]]
      /\ todo' = todo \ G
      /\ UNCHANGED <<freeActive, freePrefix, entries, mode, row, hit, src, decodeAfter, pc>>
  BY DEF ChunkGroup
<1>3. ended \subseteq filled /\ \A q \in filled \ ended : ~(gen[q] + 1 >= MaxNew[q])
  <2>1. stops \subseteq filled
    BY DEF ChunkGroup
  <2> QED BY <2>1 DEF Ended, Spent
<1>4. filled \subseteq G /\ \A q \in G : q \in filled <=> seq[q] + ChunkLen(q) = Len(Prompt[q])
  OBVIOUS
<1>5. \A q \in G : /\ phase[q] = "prefilling" /\ gen[q] = 0 /\ q \notin over
                   /\ ChunkLen(q) \in Nat /\ ChunkLen(q) >= 1 /\ seq[q] + ChunkLen(q) <= Len(Prompt[q])
                   /\ hit[q] <= seq[q] /\ seq[q] < Len(Prompt[q])
  BY <1>1, ChunkFacts
<1> HIDE DEF filled, ended
<1>6. \A q \in Requests : /\ gen[q] \in Nat /\ seq[q] \in Nat /\ hit[q] \in Nat
                          /\ Len(Prompt[q]) \in Nat /\ MaxNew[q] \in Nat /\ MaxNew[q] >= 1
  BY Budgets DEF ServeInv, Counters
<1>7. Counters'
  <2>1. over' \subseteq Requests /\ gen' \in [Requests -> Nat] /\ seq' \in [Requests -> Nat]
    BY <1>1, <1>2, <1>3, <1>4, <1>5, <1>6 DEF ServeInv, Counters
  <2> QED BY <1>2, <2>1 DEF ServeInv, Counters
<1>8. EntriesOK'
  BY <1>2, EntriesTyped DEF ServeInv, DenseInv, Partition
<1>9. Progress'
  <2> SUFFICES ASSUME NEW q \in Requests PROVE Fits(q)'
    BY DEF Progress
  <2>1. Fits(q)
    BY DEF ServeInv, Progress
  <2>2. CASE q \in G
    <3>1. PICK n : n = ChunkLen(q)
      OBVIOUS
    <3>2. /\ n \in Nat /\ n >= 1 /\ seq[q] + n <= Len(Prompt[q]) /\ hit[q] <= seq[q]
          /\ gen[q] = 0 /\ q \notin over
      BY <1>5, <2>2, <3>1
    <3>3. seq'[q] = seq[q] + n /\ hit'[q] = hit[q] /\ q \notin todo' /\ pc' = "advance"
      BY <1>1, <1>2, <2>2, <3>1
    <3>4. CASE q \in filled
      <4>1. gen'[q] = 1 /\ seq[q] + n = Len(Prompt[q])
        BY <1>2, <1>4, <3>1, <3>4
      <4>2. phase'[q] \in {"ending", "active"} /\ (phase'[q] = "active" => q \notin ended)
        BY <1>2, <3>4
      <4>3. q \notin ended => 1 < MaxNew[q]
        BY <1>3, <1>6, <3>2, <3>4
      <4>4. q \in ended => q \in over'
        BY <1>2
      <4> QED BY <1>6, <2>1, <3>2, <3>3, <4>1, <4>2, <4>3, <4>4 DEF Fits, Running
    <3>5. CASE q \notin filled
      <4>1. gen'[q] = 0 /\ phase'[q] = "prefilling" /\ q \notin over' /\ seq[q] + n < Len(Prompt[q])
        <5>1. gen'[q] = gen[q] /\ phase'[q] = phase[q] /\ q \notin ended
          BY <1>2, <1>3, <3>5
        <5>2. phase[q] = "prefilling" /\ q \notin over'
          BY <1>2, <1>5, <2>2, <5>1
        <5>3. seq[q] + n # Len(Prompt[q])
          BY <1>4, <2>2, <3>1, <3>5
        <5>4. PICK l : l = Len(Prompt[q])
          OBVIOUS
        <5>5. seq[q] + n < l
          <6>1. seq[q] + n # l /\ seq[q] + n <= l /\ l \in Nat /\ seq[q] \in Nat /\ n \in Nat
            BY <1>6, <3>2, <5>3, <5>4
          <6> QED BY <6>1
        <5> QED BY <3>2, <5>1, <5>2, <5>4, <5>5
      <4> QED BY <1>6, <2>1, <3>2, <3>3, <4>1 DEF Fits, Running
    <3> QED BY <3>4, <3>5
  <2>3. CASE q \notin G
    BY <1>1, <1>2, <1>3, <1>4, <2>1, <2>3 DEF Fits, Running
  <2> QED BY <2>2, <2>3
<1>10. Stages'
  <2>1. \A p \in {"filled", "admitted"} : In(p)' = In(p)
    BY <1>1, <1>2, <1>3, <1>4 DEF In
  <2>2. In("prefilling")' \subseteq In("prefilling")
    BY <1>1, <1>2, <1>3, <1>4 DEF In
  <2>3. ASSUME NEW q \in In("prefilling")' \ todo' PROVE hit'[q] < seq'[q]
    <3>1. q \in Requests /\ q \in In("prefilling")
      BY <2>2 DEF In
    <3>2. CASE q \in G
      BY <1>2, <1>5, <1>6, <3>1, <3>2
    <3>3. CASE q \notin G
      BY <1>1, <1>2, <2>3, <3>1, <3>3 DEF ServeInv, Stages
    <3> QED BY <3>2, <3>3
  <2> QED BY <1>1, <1>2, <2>1, <2>2, <2>3 DEF ServeInv, Stages, Passing
<1> QED BY <1>7, <1>8, <1>9, <1>10 DEF ServeInv
\* Admission: the batch is looked up, or waits for its rows.
LEMMA AdmitServes ==
  ASSUME DenseInv, ServeInv, NEW batch \in SUBSET In("waiting"), Admit(batch) PROVE ServeInv'
<1>1. /\ pc = "admit" /\ batch \subseteq Requests /\ \A q \in batch : phase[q] = "waiting"
      /\ phase' = [r \in Requests |-> IF r \in batch THEN "admitted" ELSE phase[r]]
      /\ todo' = batch /\ pc' \in {"prefill", "prepare"}
      /\ UNCHANGED <<rows, mode, row, gen, seq, over, decodeAfter>>
  BY DEF Admit, In
<1>2. \/ mode.chunk > 0 /\ pc' = "prepare" /\ UNCHANGED <<hit, src>>
      \/ /\ ~(mode.chunk > 0) /\ pc' = "prefill"
         /\ DOMAIN hit' = Requests /\ DOMAIN src' = Requests
         /\ \A q \in Requests \ batch : hit'[q] = hit[q] /\ src'[q] = src[q]
         /\ \A q \in batch : \E h \in Hits(Prompt[q], mode.graph) :
              hit'[q] = h.tokens /\ src'[q] = h.row
  BY <1>1, AdmitLooks
<1>3. ~(mode.chunk > 0) =>
        \A q \in batch : /\ hit'[q] \in Nat /\ hit'[q] < Len(Prompt[q])
                         /\ src'[q] \in Rows \cup {NoRow}
  <2> SUFFICES ASSUME ~(mode.chunk > 0), NEW q \in batch
               PROVE  /\ hit'[q] \in Nat /\ hit'[q] < Len(Prompt[q])
                      /\ src'[q] \in Rows \cup {NoRow}
    OBVIOUS
  <2>1. PICK h \in Hits(Prompt[q], mode.graph) : hit'[q] = h.tokens /\ src'[q] = h.row
    BY <1>2
  <2>2. q \in Requests /\ EntriesOK
    BY <1>1 DEF ServeInv
  <2> QED BY <2>1, <2>2, LookupTypes
<1>4. \A q \in batch : hit[q] = 0 /\ gen[q] = 0 /\ seq[q] = 0 /\ q \notin over
  BY <1>1 DEF ServeInv, Progress, Fits
<1>5. \A q \in Requests : /\ gen[q] \in Nat /\ seq[q] \in Nat /\ hit[q] \in Nat
                          /\ Len(Prompt[q]) \in Nat
  BY Budgets DEF ServeInv, Counters
<1>6. mode.chunk \in Nat /\ mode.perStep \in Nat
  BY ModeTypes DEF ServeInv
<1>7. \A q \in Requests : /\ hit'[q] \in Nat /\ (q \notin batch => hit'[q] = hit[q])
                          /\ q \in batch => hit'[q] <= Len(Prompt[q]) /\ (mode.chunk > 0 => hit'[q] = 0)
  BY <1>1, <1>2, <1>3, <1>4, <1>5
<1>8. Counters'
  <2>1. hit \in [Requests -> Nat] /\ src \in [Requests -> Rows \cup {NoRow}]
    BY DEF ServeInv, Counters
  <2>2. CASE mode.chunk > 0
    BY <1>1, <1>2, <2>1, <2>2 DEF ServeInv, Counters
  <2>3. CASE ~(mode.chunk > 0)
    <3>1. \A q \in Requests : hit'[q] \in Nat /\ src'[q] \in Rows \cup {NoRow}
      BY <1>2, <1>3, <2>1, <2>3
    <3>2. hit' = [q \in Requests |-> hit'[q]] /\ src' = [q \in Requests |-> src'[q]]
      BY <1>1, <2>3 DEF Admit
    <3>3. hit' \in [Requests -> Nat] /\ src' \in [Requests -> Rows \cup {NoRow}]
      BY <3>1, <3>2
    <3> QED BY <1>1, <3>3 DEF ServeInv, Counters
  <2> QED BY <2>2, <2>3
<1>9. EntriesOK'
  BY <1>1, EntriesTyped DEF ServeInv, DenseInv, Partition, rows
<1>10. Progress'
  <2> SUFFICES ASSUME NEW q \in Requests PROVE Fits(q)'
    BY DEF Progress
  <2>1. Fits(q)
    BY DEF ServeInv, Progress
  <2>2. CASE q \in batch
    <3>1. phase'[q] = "admitted" /\ hit'[q] <= Len(Prompt[q]) /\ gen'[q] = 0 /\ seq'[q] = 0 /\ q \notin over'
      BY <1>1, <1>4, <1>7, <2>2
    <3> QED BY <1>1, <3>1 DEF Fits, Running
  <2>3. CASE q \notin batch
    BY <1>1, <1>7, <2>1, <2>3 DEF Fits, Running
  <2> QED BY <2>2, <2>3
<1>11. Stages'
  <2>1. /\ In("filled") = {} /\ In("admitted") = {} /\ In("ending") = {}
        /\ mode.chunk = 0 => In("prefilling") = {}
        /\ \A q \in In("prefilling") : hit[q] < seq[q]
    BY <1>1 DEF ServeInv, Stages, Passing
  <2>2. \A p \in {"filled", "ending", "prefilling"} : In(p)' = In(p)
    BY <1>1 DEF In
  <2>3. In("admitted")' = batch
    BY <1>1, <2>1 DEF In
  <2>4. \A q \in In("prefilling") : q \notin batch /\ hit'[q] = hit[q] /\ seq'[q] = seq[q]
    BY <1>1, <1>7 DEF In
  <2>5. ASSUME mode.perStep = 1 PROVE \A r, q \in batch : r = q
    <3>1. Cardinality(batch) <= 1
      BY <2>5 DEF Admit
    <3>2. IsFiniteSet(batch)
      BY <1>1, EngineAssumption, FS_Subset
    <3> SUFFICES ASSUME NEW r \in batch, NEW q \in batch, r # q PROVE FALSE
      OBVIOUS
    <3>3. IsFiniteSet({r, q}) /\ Cardinality({r, q}) = 2
      <4>1. IsFiniteSet({r}) /\ Cardinality({r}) = 1
        BY FS_Singleton
      <4>2. {r, q} = {r} \cup {q} /\ q \notin {r}
        OBVIOUS
      <4> QED BY <4>1, <4>2, FS_AddElement
    <3>4. Cardinality({r, q}) <= Cardinality(batch)
      BY <3>2, FS_Subset
    <3>5. Cardinality(batch) \in Nat
      BY <3>2, FS_CardinalityType
    <3> QED BY <3>1, <3>3, <3>4, <3>5
  <2>6. mode.chunk > 0 => \A q \in batch : hit'[q] = 0
    BY <1>1, <1>7
  <2>7. ~(mode.chunk > 0) => mode.chunk = 0
    BY <1>6
  <2> QED BY <1>1, <1>2, <2>1, <2>2, <2>3, <2>4, <2>5, <2>6, <2>7 DEF Stages, Passing
<1> QED BY <1>8, <1>9, <1>10, <1>11 DEF ServeInv

\* A group is filled: its prompts stand in their rows, and it has its first token.
LEMMA FillServes ==
  ASSUME DenseInv, ServeInv, pc \in {"prefill", "plain"}, Settled,
         NEW G \in SUBSET todo, NEW stops \in SUBSET G, NEW pads, FillOrRaise(G, stops, pads)
  PROVE  ServeInv'
<1>1. CASE Raise
  BY <1>1, RaiseServes DEF Passing, Settled
<1>2. CASE Fill(G, stops, pads)
  <2> DEFINE E == Ended(G, stops)
  <2>1. G \subseteq Requests /\ G \subseteq In("admitted") /\ In("admitted") = todo /\ todo \subseteq Requests
    BY DEF DenseInv, Types, TodoOK, ServeInv, Stages, Passing
  <2>2. /\ phase' = [r \in Requests |-> IF r \in G THEN "filled" ELSE phase[r]]
        /\ seq' = [r \in Requests |-> IF r \in G THEN Len(Prompt[r]) ELSE seq[r]]
        /\ gen' = [r \in Requests |-> IF r \in G THEN 1 ELSE gen[r]]
        /\ over' = over \cup E
        /\ todo' = todo \ G
        /\ UNCHANGED <<freePrefix, entries, mode, hit, src, decodeAfter, pc>>
    BY <1>2 DEF Fill
  <2>3. E \subseteq G /\ \A q \in G \ E : ~(gen[q] + 1 >= MaxNew[q])
    BY DEF Ended, Spent
  <2> HIDE DEF E
  <2>4. \A q \in G : gen[q] = 0 /\ seq[q] = 0 /\ phase[q] = "admitted"
    BY <2>1 DEF ServeInv, Progress, Fits, In
  <2>5. \A q \in Requests : /\ gen[q] \in Nat /\ seq[q] \in Nat /\ hit[q] \in Nat /\ Len(Prompt[q]) \in Nat
                            /\ MaxNew[q] \in Nat /\ MaxNew[q] >= 1
    BY Budgets DEF ServeInv, Counters
  <2>6. Counters'
    <3>1. over' \subseteq Requests /\ gen' \in [Requests -> Nat] /\ seq' \in [Requests -> Nat]
      BY <2>1, <2>2, <2>3, <2>5 DEF ServeInv, Counters
    <3> QED BY <2>2, <3>1 DEF ServeInv, Counters
  <2>7. EntriesOK'
    BY <2>2, EntriesTyped DEF ServeInv, DenseInv, Partition
  <2>8. Progress'
    <3> SUFFICES ASSUME NEW q \in Requests PROVE Fits(q)'
      BY DEF Progress
    <3>1. Fits(q)
      BY DEF ServeInv, Progress
    <3>2. CASE q \in G
      <4>1. /\ phase'[q] = "filled" /\ gen'[q] = 1 /\ seq'[q] = Len(Prompt[q]) /\ hit'[q] = hit[q]
            /\ q \notin todo'
        BY <2>2, <3>2
      <4>2. q \in over' \/ 1 < MaxNew[q]
        BY <2>2, <2>3, <2>4, <2>5, <3>2
      <4>3. 1 <= 1 /\ 1 <= MaxNew[q] /\ Len(Prompt[q]) = Len(Prompt[q]) + 1 - 1
        BY <2>5
      <4> QED BY <2>2, <3>1, <4>1, <4>2, <4>3 DEF Fits, Running
    <3>3. CASE q \notin G
      BY <2>1, <2>2, <2>3, <3>1, <3>3 DEF Fits, Running
    <3> QED BY <3>2, <3>3
  <2>9. Stages'
    <3>1. In("admitted")' = In("admitted") \ G /\ In("filled")' = In("filled") \cup G
          /\ In("ending")' = In("ending") /\ In("prefilling")' = In("prefilling")
      BY <2>1, <2>2, <2>4 DEF In
    <3>2. In("ending") = {} /\ mode.chunk = 0 /\ In("prefilling") = {}
      BY DEF ServeInv, Stages, Passing
    <3>3. mode.perStep = 1 => \A r, q \in todo \cup In("filled") : r = q
      BY DEF ServeInv, Stages
    <3>4. todo' \cup In("filled")' \subseteq todo \cup In("filled")
      BY <2>2, <3>1
    <3> QED BY <2>1, <2>2, <3>1, <3>2, <3>3, <3>4 DEF Stages, Passing
  <2> QED BY <2>6, <2>7, <2>8, <2>9 DEF ServeInv
<1> QED BY <1>1, <1>2 DEF FillOrRaise

LEMMA RetireServes == ASSUME DenseInv, ServeInv, NEW r \in Requests, Retire(r) PROVE ServeInv'
<1> USE DEF Retire
<1>1. phase[r] \in {"ending", "pending"} /\ phase' = [phase EXCEPT ![r] = "done"]
      /\ UNCHANGED <<kv, mode, gen, seq, hit, src, over, todo, decodeAfter, pc>>
  OBVIOUS
<1>2. Counters'
  BY <1>1 DEF ServeInv, Counters
<1>3. EntriesOK'
  <2>1. r \in Held /\ row[r] \notin PrefixSide
    BY <1>1 DEF Held, Holding, HeldRows, DenseInv, Partition, ActiveSide
  <2>2. \/ entries' = entries
        \/ \E choice : Stores(mode.pin, choice, Prompt[r], row[r], FALSE)
    BY <2>1, PlainStore DEF ReleaseRow, AdoptRow
  <2> QED BY <2>2, PromptToStore, EntriesTyped DEF ServeInv, DenseInv, Partition
<1>4. Progress'
  <2> SUFFICES ASSUME NEW q \in Requests PROVE Fits(q)'
    BY DEF Progress
  <2>1. Fits(q) /\ phase'[q] = IF q = r THEN "done" ELSE phase[q]
    BY <1>1 DEF ServeInv, Progress, DenseInv, Types
  <2> QED BY <1>1, <2>1 DEF Fits, Running
<1>5. Stages'
  <2>1. \A p \in {"filled", "admitted", "prefilling"} : In(p)' = In(p)
    BY <1>1 DEF In, DenseInv, Types
  <2>2. In("ending")' \subseteq In("ending")
    BY <1>1 DEF In, DenseInv, Types
  <2> QED BY <1>1, <2>1, <2>2 DEF ServeInv, Stages, Passing
<1> QED BY <1>2, <1>3, <1>4, <1>5 DEF ServeInv

LEMMA StoreServes == ASSUME DenseInv, ServeInv, NEW r \in Requests, Store(r) PROVE ServeInv'
<1> USE DEF Store
<1>1. phase[r] = "filled" /\ phase' = [phase EXCEPT ![r] = "active"]
      /\ UNCHANGED <<freeActive, mode, row, gen, seq, hit, src, over, todo, decodeAfter, pc>>
  OBVIOUS
<1>2. Counters'
  BY <1>1 DEF ServeInv, Counters
<1>3. EntriesOK'
  <2>1. \/ entries' = entries
        \/ \E choice : Stores(FALSE, choice, Prompt[r], choice.row, FALSE)
    BY PlainStore
  <2> QED BY <2>1, PromptToStore, EntriesTyped DEF ServeInv, DenseInv, Partition
<1>4. pc \in {"prefill", "plain"}
  BY <1>1 DEF ServeInv, Stages, In
<1>5. Progress'
  <2> SUFFICES ASSUME NEW q \in Requests PROVE Fits(q)'
    BY DEF Progress
  <2>1. Fits(q) /\ phase'[q] = IF q = r THEN "active" ELSE phase[q]
    BY <1>1 DEF ServeInv, Progress, DenseInv, Types
  <2> QED BY <1>1, <1>4, <2>1 DEF Fits, Running
<1>6. Stages'
  <2>1. \A p \in {"ending", "admitted", "prefilling"} : In(p)' = In(p)
    BY <1>1 DEF In, DenseInv, Types
  <2>2. In("filled")' \subseteq In("filled")
    BY <1>1 DEF In, DenseInv, Types
  <2> QED BY <1>1, <2>1, <2>2 DEF ServeInv, Stages, Passing
<1> QED BY <1>2, <1>3, <1>5, <1>6 DEF ServeInv
\* The common prefix of a batch is stored: what is stored, and in which row.
CommonStored(n) ==
  LET tokens == SubSeq(Prompt[CHOOSE r \in todo : TRUE], 1, n)
  IN \E choice \in PrefixRowChoices(mode.pin) : StoreCommon(tokens, choice)

LEMMA CommonTyped ==
  ASSUME DenseInv, ServeInv, todo # {}, NEW n \in Nat, n <= SharedPrompts(todo),
         CommonStored(n) \/ UNCHANGED entries
  PROVE  EntriesOK'
<1> DEFINE tokens == SubSeq(Prompt[CHOOSE r \in todo : TRUE], 1, n)
<1>1. tokens \in Seq(STRING) /\ Len(tokens) <= MaxLen
  <2>1. todo \in SUBSET Requests
    BY DEF DenseInv, Types
  <2>2. PICK t : t = tokens
    OBVIOUS
  <2>3. t \in Seq(STRING) /\ Len(t) = n /\ n <= MaxLen
    BY <2>1, <2>2, CommonToStore
  <2> HIDE DEF tokens
  <2> QED BY <2>2, <2>3
<1>2. \/ entries' = entries
      \/ \E choice : Stores(mode.pin, choice, tokens, choice.row, TRUE)
  <2>1. CASE UNCHANGED entries
    BY <2>1
  <2>2. CASE CommonStored(n)
    <3>1. PICK choice \in PrefixRowChoices(mode.pin) : StoreCommon(tokens, choice)
      BY <2>2 DEF CommonStored
    <3>2. PICK pin : pin = mode.pin
      OBVIOUS
    <3> HIDE DEF tokens
    <3> QED BY <3>1, <3>2, CommonStore
  <2> QED BY <2>1, <2>2
<1> HIDE DEF tokens
<1> QED BY <1>1, <1>2, EntriesTyped DEF ServeInv, DenseInv, Partition

LEMMA PrefillCommonServes == ASSUME DenseInv, ServeInv, PrefillCommon PROVE ServeInv'
<1> DEFINE n == SharedPrompts(todo)
<1>1. /\ pc = "prefill" /\ Settled /\ Hitting = {} /\ todo # {} /\ pc' = "plain"
      /\ UNCHANGED <<freeActive, mode, phase, row, gen, seq, over, todo, decodeAfter>>
  BY DEF PrefillCommon
<1>2. todo \subseteq Requests
  BY DEF DenseInv, Types
<1>3. n \in Nat /\ \A q \in todo : n <= Len(Prompt[q])
  BY <1>1, <1>2, SharedFacts
<1>4. \/ UNCHANGED <<entries, hit, src>>
      \/ \E choice \in PrefixRowChoices(mode.pin) :
           /\ StoreCommon(SubSeq(Prompt[CHOOSE r \in todo : TRUE], 1, n), choice)
           /\ hit' = [r \in Requests |-> IF r \in todo THEN n ELSE hit[r]]
           /\ src' = [r \in Requests |-> IF r \in todo THEN choice.row ELSE src[r]]
  BY DEF PrefillCommon
<1>5. EntriesOK'
  BY <1>1, <1>3, <1>4, CommonTyped DEF CommonStored
<1> HIDE DEF n
<1>6. \A choice \in PrefixRowChoices(mode.pin) : choice.row \in Rows
  <2>1. PrefixSideOK /\ PrefixSide \subseteq Rows
    BY DEF DenseInv, Partition
  <2> QED BY <2>1, ChoiceRows
<1>7. hit' \in [Requests -> Nat] /\ src' \in [Requests -> Rows \cup {NoRow}]
  <2>1. hit \in [Requests -> Nat] /\ src \in [Requests -> Rows \cup {NoRow}]
    BY DEF ServeInv, Counters
  <2> QED BY <1>3, <1>4, <1>6, <2>1
<1>8. \A q \in Requests : /\ q \notin todo => hit'[q] = hit[q]
                          /\ hit'[q] <= Len(Prompt[q])
  <2>1. \A q \in Requests : hit[q] <= Len(Prompt[q])
    BY DEF ServeInv, Progress, Fits
  <2> QED BY <1>3, <1>4, <2>1
<1>9. Counters'
  BY <1>1, <1>7 DEF ServeInv, Counters
<1>10. In("admitted") = todo /\ In("prefilling") = {} /\ mode.chunk = 0
  BY <1>1 DEF ServeInv, Stages, Passing
<1>11. Progress'
  <2> SUFFICES ASSUME NEW q \in Requests PROVE Fits(q)'
    BY DEF Progress
  <2>1. Fits(q) /\ hit'[q] <= Len(Prompt[q])
    BY <1>8 DEF ServeInv, Progress
  <2>2. q \notin todo => hit'[q] = hit[q]
    BY <1>8
  <2>3. q \in todo => phase[q] = "admitted"
    BY <1>10 DEF In
  <2> QED BY <1>1, <2>1, <2>2, <2>3 DEF Fits, Running
<1>12. Stages'
  <2>1. \A p : In(p)' = In(p)
    BY <1>1 DEF In
  <2> QED BY <1>1, <1>10, <2>1 DEF ServeInv, Stages, Passing
<1> QED BY <1>5, <1>9, <1>11, <1>12 DEF ServeInv

\* The common prefix of a chunked admission stops before the last token of each prompt.
LEMMA PreparedLength ==
  ASSUME NEW G \in SUBSET Requests, G # {},
         NEW n, n = Min({SharedPrompts(G)} \cup {Len(Prompt[r]) - 1 : r \in G})
  PROVE  n \in Nat /\ n <= SharedPrompts(G)
<1> DEFINE T == {SharedPrompts(G)} \cup {Len(Prompt[r]) - 1 : r \in G}
<1>1. SharedPrompts(G) \in Nat
  BY SharedFacts
<1>2. \A r \in G : Len(Prompt[r]) - 1 \in Nat
  BY Budgets
<1>3. T \in SUBSET Nat /\ SharedPrompts(G) \in T
  BY <1>1, <1>2
<1> HIDE DEF T
<1>4. Min(T) \in T /\ \A y \in T : Min(T) <= y
  BY <1>3, LeastOf
<1> QED BY <1>3, <1>4 DEF T

LEMMA PrepareCommonServes == ASSUME DenseInv, ServeInv, todo # {}, PrepareCommon PROVE ServeInv'
<1> DEFINE n == Min({SharedPrompts(todo)} \cup {Len(Prompt[r]) - 1 : r \in todo})
<1>1. /\ pc = "prepare" /\ pc' = "take"
      /\ UNCHANGED <<freeActive, mode, phase, row, gen, seq, hit, src, over, todo, decodeAfter>>
  BY DEF PrepareCommon, request
<1>2. n \in Nat /\ n <= SharedPrompts(todo)
  BY PreparedLength DEF DenseInv, Types
<1>3. CommonStored(n) \/ UNCHANGED entries
  BY DEF PrepareCommon, CommonStored
<1> HIDE DEF n
<1>4. EntriesOK'
  BY <1>2, <1>3, CommonTyped
<1>5. Counters'
  BY <1>1 DEF ServeInv, Counters
<1>6. Progress'
  <2> SUFFICES ASSUME NEW q \in Requests PROVE Fits(q)'
    BY DEF Progress
  <2>1. Fits(q)
    BY DEF ServeInv, Progress
  <2> QED BY <1>1, <2>1 DEF Fits, Running
<1>7. Stages'
  <2>1. \A p : In(p)' = In(p)
    BY <1>1 DEF In
  <2> QED BY <1>1, <2>1 DEF ServeInv, Stages, Passing
<1> QED BY <1>4, <1>5, <1>6, <1>7 DEF ServeInv

LEMMA TakeRowServes == ASSUME DenseInv, ServeInv, NEW r \in Requests, TakeRow(r) PROVE ServeInv'
<1>1. CASE freeActive = {}
  <2>1. Raise /\ pc = "take"
    BY <1>1 DEF TakeRow
  <2>2. In("filled") = {}
    BY <2>1 DEF ServeInv, Stages
  <2> QED BY <2>1, <2>2, RaiseServes DEF Passing
<1>2. CASE freeActive # {}
  <2>0. PICK found \in Hits(Prompt[r], FALSE) :
          /\ hit' = [hit EXCEPT ![r] = found.tokens]
          /\ src' = [src EXCEPT ![r] = found.row]
          /\ seq' = [seq EXCEPT ![r] = found.tokens]
    BY <1>2 DEF TakeRow
  <2>1. /\ pc = "take" /\ r \in todo
        /\ hit' = [hit EXCEPT ![r] = found.tokens]
        /\ src' = [src EXCEPT ![r] = found.row]
        /\ seq' = [seq EXCEPT ![r] = found.tokens]
        /\ phase' = [phase EXCEPT ![r] = "prefilling"]
        /\ todo' = todo \ {r}
        /\ UNCHANGED <<freePrefix, entries, mode, gen, over, decodeAfter, pc>>
    BY <1>2, <2>0 DEF TakeRow
  <2>2. found.tokens \in Nat /\ found.tokens < Len(Prompt[r]) /\ found.row \in Rows \cup {NoRow}
    BY LookupTypes DEF ServeInv
  <2>3. In("admitted") = todo /\ mode.chunk > 0 /\ phase[r] = "admitted"
    BY <2>1 DEF ServeInv, Stages, Passing, In
  <2>4. Fits(r) /\ Len(Prompt[r]) \in Nat
    BY Budgets DEF ServeInv, Progress
  <2>5. Counters'
    BY <2>1, <2>2 DEF ServeInv, Counters
  <2>6. EntriesOK'
    BY <2>1, EntriesTyped DEF ServeInv, DenseInv, Partition
  <2>7. Progress'
    <3> SUFFICES ASSUME NEW q \in Requests PROVE Fits(q)'
      BY DEF Progress
    <3>1. Fits(q)
      BY DEF ServeInv, Progress
    <3>2. CASE q = r
      <4>1. /\ hit'[r] = found.tokens /\ seq'[r] = found.tokens /\ phase'[r] = "prefilling"
            /\ gen'[r] = 0 /\ r \notin over'
        BY <2>1, <2>3, <2>4 DEF ServeInv, Counters, DenseInv, Types, Fits
      <4> QED BY <2>1, <2>2, <2>4, <3>2, <4>1 DEF Fits, Running
    <3>3. CASE q # r
      <4>1. /\ hit'[q] = hit[q] /\ seq'[q] = seq[q] /\ phase'[q] = phase[q] /\ gen'[q] = gen[q]
        BY <2>1, <3>3 DEF ServeInv, Counters, DenseInv, Types
      <4> QED BY <2>1, <3>1, <4>1 DEF Fits, Running
    <3> QED BY <3>2, <3>3
  <2>8. Stages'
    <3>1. /\ In("filled")' = In("filled") /\ In("ending")' = In("ending")
          /\ In("admitted")' = In("admitted") \ {r}
      BY <2>1, <2>3 DEF In, DenseInv, Types
    <3>2. \A q \in todo' : hit'[q] = hit[q]
      BY <2>1 DEF ServeInv, Counters
    <3> QED BY <2>1, <2>3, <3>1, <3>2 DEF ServeInv, Stages, Passing
  <2> QED BY <2>5, <2>6, <2>7, <2>8 DEF ServeInv
<1> QED BY <1>1, <1>2

LEMMA ServeInvInit == Init => ServeInv
<1> SUFFICES ASSUME Init PROVE ServeInv
  OBVIOUS
<1>1. Counters
  BY DEF Init, Counters
<1>2. EntriesOK
  BY DEF Init, RowsInit, EntriesOK
<1>3. Progress
  BY Budgets DEF Init, Progress, Fits, Running
<1>4. Stages
  BY DEF Init, Stages, In, Passing
<1> QED BY <1>1, <1>2, <1>3, <1>4 DEF ServeInv

\* A step may find an empty batch nowhere: admission takes at least one request.
Batched == pc = "prepare" => todo # {}

LEMMA BatchedNext == Batched /\ [Next]_vars => Batched'
<1> SUFFICES ASSUME Batched, [Next]_vars, pc' = "prepare" PROVE todo' # {}
  BY DEF Batched
<1>1. ASSUME NEW r \in Requests, Submit(r) \/ Retire(r) \/ Store(r) PROVE todo' # {}
  BY <1>1 DEF Submit, Retire, Store, Batched
<1>2. ASSUME NEW r \in Requests, TakeRow(r) PROVE FALSE
  BY <1>2 DEF TakeRow, Raise
<1>3. ASSUME NEW G, NEW stops, NEW pads,
             \/ DecodeGroup(G, stops, pads) \/ ChunkGroup(G, stops, pads)
             \/ PrefillPrefixGroup(G, stops, pads) \/ PrefillPlainGroup(G, stops, pads)
      PROVE  FALSE
  BY <1>3 DEF DecodeGroup, ChunkGroup, PrefillPrefixGroup, PrefillPlainGroup, FillOrRaise, Raise, Fill
<1>4. ASSUME \/ StartStep \/ Decide \/ Filter \/ DecodeDone \/ AdvanceDone \/ StartBurst \/ BurstDone
             \/ AdmitNone \/ PrefillCommon \/ PrefillDone \/ PrepareCommon \/ TakeDone \/ Release
             \/ \E stops, pads : BurstStep(stops, pads)
      PROVE  FALSE
  BY <1>4 DEF StartStep, Decide, Filter, DecodeDone, AdvanceDone, StartBurst, BurstDone, AdmitNone,
              PrefillCommon, PrefillDone, PrepareCommon, TakeDone, Release, BurstStep, AfterPrefill
<1>5. ASSUME NEW batch, Admit(batch) PROVE todo' # {}
  BY <1>5 DEF Admit
<1>6. CASE UNCHANGED vars
  BY <1>6 DEF vars, Batched
<1> QED BY <1>1, <1>2, <1>3, <1>4, <1>5, <1>6 DEF Next, Step

LEMMA ServeInvNext == DenseInv /\ Batched /\ ServeInv /\ [Next]_vars => ServeInv'
<1> SUFFICES ASSUME DenseInv, Batched, ServeInv, [Next]_vars PROVE ServeInv'
  OBVIOUS
<1>1. ASSUME NEW r \in Requests, Submit(r) PROVE ServeInv'
  BY <1>1, SubmitServes
<1>2. ASSUME \/ StartStep \/ Decide \/ Filter \/ DecodeDone \/ AdvanceDone \/ StartBurst \/ BurstDone
             \/ AdmitNone \/ PrefillCommon \/ PrefillDone \/ TakeDone \/ Release
      PROVE  ServeInv'
  BY <1>2, StartStepServes, DecideServes, FilterServes, DecodeDoneServes, AdvanceDoneServes,
     StartBurstServes, BurstDoneServes, AdmitNoneServes, PrefillCommonServes, PrefillDoneServes,
     TakeDoneServes, ReleaseServes
<1>3. ASSUME PrepareCommon PROVE ServeInv'
  BY <1>3, PrepareCommonServes DEF Batched, PrepareCommon
<1>4. ASSUME NEW r \in Requests, Retire(r) \/ Store(r) \/ TakeRow(r) PROVE ServeInv'
  BY <1>4, RetireServes, StoreServes, TakeRowServes
<1>5. ASSUME NEW G \in SUBSET todo, NEW stops \in SUBSET G, NEW pads,
             DecodeGroup(G, stops, pads) \/ ChunkGroup(G, stops, pads)
      PROVE  ServeInv'
  BY <1>5, DecodeGroupServes, ChunkGroupServes
<1>6. ASSUME NEW G \in SUBSET todo, NEW stops \in SUBSET G, NEW pads,
             PrefillPrefixGroup(G, stops, pads) \/ PrefillPlainGroup(G, stops, pads)
      PROVE  ServeInv'
  BY <1>6, FillServes DEF PrefillPrefixGroup, PrefillPlainGroup
<1>7. ASSUME NEW stops \in SUBSET todo, NEW pads, BurstStep(stops, pads) PROVE ServeInv'
  BY <1>7, BurstStepServes
<1>8. ASSUME NEW batch \in SUBSET In("waiting"), Admit(batch) PROVE ServeInv'
  BY <1>8, AdmitServes
<1>9. ASSUME UNCHANGED vars PROVE ServeInv'
  <2> USE <1>9 DEF vars, rows, request
  <2>1. Counters' /\ EntriesOK'
    BY DEF ServeInv, Counters, EntriesOK, EntryOK
  <2>2. Progress'
    BY DEF ServeInv, Progress, Fits
  <2>3. \A p : In(p)' = In(p)
    BY DEF In
  <2>4. Stages'
    BY <2>3 DEF ServeInv, Stages, Passing
  <2> QED BY <2>1, <2>2, <2>4 DEF ServeInv
<1>10. ASSUME Step PROVE ServeInv'
  BY <1>10, <1>2, <1>3, <1>4, <1>5, <1>6, <1>7, <1>8 DEF Step
<1> QED BY <1>1, <1>9, <1>10 DEF Next

\* All that holds in every configuration of the engine.
LEMMA ServeAlways == Spec => [](DenseInv /\ Batched /\ ServeInv)
<1>1. Init => Batched
  BY DEF Init, Batched
<1> QED BY <1>1, DenseInvInit, DenseInvNext, BatchedNext, ServeInvInit, ServeInvNext, PTL DEF Spec

\* The state is well typed in every configuration: no request generates more tokens
\* than it may, also in a burst that sees stop tokens late, none fills more positions
\* than its row has, and no reused prefix is longer than a row.
THEOREM DenseTypes == Spec => []TypeOK
<1>1. DenseInv /\ ServeInv => TypeOK
  <2> SUFFICES ASSUME DenseInv, ServeInv PROVE TypeOK
    OBVIOUS
  <2>1. freeActive \subseteq Rows /\ freePrefix \subseteq Rows /\ EntryRows \subseteq Rows
    BY DEF DenseInv, Partition, ActiveSide, PrefixSide
  <2>2. \A i \in DOMAIN entries : entries[i].row \in Rows /\ Len(entries[i].tokens) <= MaxLen
    BY <2>1 DEF EntryRows, RowsOf, ServeInv, EntriesOK, EntryOK
  <2>3. ASSUME NEW r \in Requests
        PROVE  gen[r] \in 0..MaxNew[r] /\ seq[r] \in 0..MaxLen /\ hit[r] \in 0..MaxLen
    <3>1. /\ gen[r] \in Nat /\ seq[r] \in Nat /\ hit[r] \in Nat /\ Len(Prompt[r]) \in Nat
          /\ MaxNew[r] \in Nat /\ MaxLen \in Nat /\ Len(Prompt[r]) + MaxNew[r] <= MaxLen
      BY <2>3, Budgets DEF ServeInv, Counters
    <3>2. Fits(r) /\ phase[r] \in Phases
      BY <2>3 DEF ServeInv, Progress, DenseInv, Types
    <3>3. hit[r] <= Len(Prompt[r])
      BY <3>2 DEF Fits
    <3>4. CASE phase[r] \in Running
      <4>1. 1 <= gen[r] /\ gen[r] <= MaxNew[r] /\ seq[r] = Len(Prompt[r]) + gen[r] - 1
        BY <3>2, <3>4 DEF Fits
      <4> QED BY <3>1, <3>3, <4>1
    <3>5. CASE phase[r] \notin Running
      <4>1. gen[r] = 0 /\ seq[r] <= Len(Prompt[r])
        BY <3>1, <3>2, <3>5 DEF Fits, Running, Phases
      <4> QED BY <3>1, <3>3, <4>1
    <3> QED BY <3>4, <3>5
  <2> QED BY <2>1, <2>2, <2>3 DEF TypeOK, ServeInv, Counters, DenseInv, Types
<1> QED BY <1>1, ServeAlways, PTL

(***************************************************************************)
(* Pinned prefixes.                                                        *)
(***************************************************************************)
\* The shared prefixes of this session stay.
Pinning == mode.pin

\* What a request missed when it was looked up is still not there when its batch is
\* prefilled: no entry as long as a common prefix.
Missed ==
  Pinning /\ pc = "prefill" =>
    \A r \in todo : hit[r] = 0 =>
      \A i \in Matches(Prompt[r]) : Len(entries[i].tokens) < MinCommon

LEMMA MissedNext == DenseInv /\ ServeInv /\ Missed /\ [Next]_vars => Missed'
<1> SUFFICES ASSUME DenseInv, ServeInv, Missed, [Next]_vars, Pinning', pc' = "prefill" PROVE Missed'
  BY DEF Missed
<1>1. ASSUME pc = "prefill", UNCHANGED <<mode, hit, entries>>, todo' \subseteq todo PROVE Missed'
  BY <1>1 DEF Missed, Matches, Pinning
<1>2. ASSUME NEW batch \in SUBSET In("waiting"), Admit(batch) PROVE Missed'
  <2>1. batch \in SUBSET Requests /\ todo' = batch /\ entries' = entries /\ EntriesOK
    BY <1>2 DEF Admit, In, rows, ServeInv
  <2>2. \A q \in batch : \E h \in Hits(Prompt[q], mode.graph) : hit'[q] = h.tokens
    BY <1>2, <2>1, AdmitLooks
  <2>3. ASSUME NEW q \in batch, hit'[q] = 0, NEW i \in Matches(Prompt[q])
        PROVE  Len(entries[i].tokens) < MinCommon
    <3>1. PICK h \in Hits(Prompt[q], mode.graph) : h.tokens = 0
      BY <2>2, <2>3
    <3>2. q \in Requests
      BY <2>1
    <3> QED BY <2>1, <2>3, <3>1, <3>2, LookupFacts
  <2> QED BY <2>1, <2>3 DEF Missed, Matches
<1>3. ASSUME NEW r \in Requests, Submit(r) \/ TakeRow(r) PROVE Missed'
  BY <1>3 DEF Submit, TakeRow, Raise
<1>4. ASSUME NEW r \in Requests, Retire(r) PROVE Missed'
  <2>1. pc = "prefill" /\ phase[r] = "ending"
    BY <1>4 DEF Retire
  <2>2. In("ending") = {}
    BY <2>1 DEF ServeInv, Stages, Passing
  <2> QED BY <2>1, <2>2 DEF In
<1>5. ASSUME NEW r \in Requests, Store(r) PROVE Missed'
  BY <1>1, <1>5 DEF Store, Pinning
<1>6. ASSUME NEW G \in SUBSET todo, NEW stops, NEW pads, PrefillPrefixGroup(G, stops, pads) PROVE Missed'
  BY <1>1, <1>6 DEF PrefillPrefixGroup, FillOrRaise, Raise, Fill
<1>7. ASSUME NEW G, NEW stops, NEW pads,
             DecodeGroup(G, stops, pads) \/ ChunkGroup(G, stops, pads) \/ PrefillPlainGroup(G, stops, pads)
      PROVE  Missed'
  BY <1>7 DEF DecodeGroup, ChunkGroup, PrefillPlainGroup, FillOrRaise, Raise, Fill
<1>8. ASSUME \/ StartStep \/ Decide \/ Filter \/ DecodeDone \/ AdvanceDone \/ StartBurst \/ BurstDone
             \/ AdmitNone \/ PrefillCommon \/ PrefillDone \/ PrepareCommon \/ TakeDone \/ Release
             \/ \E stops, pads : BurstStep(stops, pads)
      PROVE  Missed'
  BY <1>8 DEF StartStep, Decide, Filter, DecodeDone, AdvanceDone, StartBurst, BurstDone, AdmitNone,
              PrefillCommon, PrefillDone, PrepareCommon, TakeDone, Release, BurstStep, AfterPrefill
<1>9. CASE UNCHANGED vars
  BY <1>1, <1>9 DEF vars, rows, request
<1> QED BY <1>2, <1>3, <1>4, <1>5, <1>6, <1>7, <1>8, <1>9 DEF Next, Step

LEMMA PinnedFound == Spec => [](DenseInv /\ ServeInv /\ Missed)
<1>1. Init => Missed
  BY DEF Init, Missed
<1> QED BY <1>1, MissedNext, ServeAlways, PTL DEF Spec

\* No lookup returns a common prefix of these tokens.
Unlisted(tokens) ==
  \A i \in DOMAIN entries : entries[i].common /\ entries[i].tokens = tokens => ~entries[i].indexed

\* What a batch shares, every prompt of it starts with.
LEMMA SharedStart ==
  ASSUME NEW G \in SUBSET Requests, NEW n \in Nat, n <= SharedPrompts(G), NEW c \in G, NEW r \in G
  PROVE  Len(SubSeq(Prompt[c], 1, n)) = n /\ IsPrefixOf(SubSeq(Prompt[c], 1, n), Prompt[r])
<1>1. PICK m : m = SharedPrompts(G)
  OBVIOUS
<1>2. /\ m \in Nat /\ m <= Len(Prompt[c]) /\ m <= Len(Prompt[r])
      /\ \A i \in 1..m : Prompt[c][i] = Prompt[r][i]
  BY <1>1, SharedFacts
<1>3. n <= m
  BY <1>1
<1>4. Prompt[c] \in Seq(STRING) /\ Len(Prompt[c]) \in Nat /\ Len(Prompt[r]) \in Nat
  BY PromptToStore, Budgets
<1>5. PICK tokens : tokens = SubSeq(Prompt[c], 1, n)
  OBVIOUS
<1>6. Len(tokens) = n /\ DOMAIN tokens = 1..n /\ \A i \in 1..n : tokens[i] = Prompt[c][i]
  BY <1>2, <1>3, <1>4, <1>5
<1>7. n <= Len(Prompt[r]) /\ \A i \in 1..n : Prompt[c][i] = Prompt[r][i]
  BY <1>2, <1>3, <1>4
<1>8. IsPrefixOf(tokens, Prompt[r])
  BY <1>6, <1>7 DEF IsPrefixOf
<1> QED BY <1>5, <1>6, <1>8

\* The common prefix a batch stores is one that no lookup returns.
LEMMA CommonUnlisted ==
  ASSUME DenseInv, ServeInv, Missed, PrefillCommon, Pinning, NEW n \in Nat, n <= SharedPrompts(todo)
  PROVE  n >= MinCommon => Unlisted(SubSeq(Prompt[CHOOSE r \in todo : TRUE], 1, n))
<1> DEFINE c == CHOOSE r \in todo : TRUE
           tokens == SubSeq(Prompt[c], 1, n)
<1>1. todo \in SUBSET Requests /\ c \in todo /\ Hitting = {} /\ pc = "prefill"
  BY DEF DenseInv, Types, PrefillCommon
<1> HIDE DEF c
<1>2. hit[c] = 0
  BY <1>1 DEF Hitting, ServeInv, Counters
<1>3. Len(tokens) = n /\ IsPrefixOf(tokens, Prompt[c])
  <2>1. PICK G : G = todo
    OBVIOUS
  <2>2. G \in SUBSET Requests /\ c \in G /\ n <= SharedPrompts(G)
    BY <1>1, <2>1
  <2> QED BY <2>2, SharedStart
<1> HIDE DEF tokens
<1>4. ASSUME n >= MinCommon, NEW i \in DOMAIN entries, entries[i].tokens = tokens, entries[i].indexed
      PROVE  FALSE
  <2>1. i \in Matches(Prompt[c])
    BY <1>3, <1>4 DEF Matches
  <2>2. Len(tokens) < MinCommon
    BY <1>1, <1>2, <1>4, <2>1 DEF Missed
  <2> QED BY <1>3, <1>4, <2>2, EngineAssumption
<1>5. n >= MinCommon => Unlisted(tokens)
  BY <1>4 DEF Unlisted
<1> QED BY <1>5 DEF tokens, c

LEMMA HowEntriesChange ==
  ASSUME DenseInv, ServeInv, Missed, [Next]_vars, Pinning
  PROVE  \/ entries' = entries
         \/ \E r \in Requests, choice \in PrefixRowChoices(mode.pin) :
              row[r] \notin PrefixSide /\ AdoptRow(r, choice)
         \/ \E choice \in PrefixRowChoices(mode.pin) : \E tokens :
              StoreCommon(tokens, choice) /\ Unlisted(tokens)
<1> DEFINE Adopted == \E r \in Requests, choice \in PrefixRowChoices(mode.pin) :
                        row[r] \notin PrefixSide /\ AdoptRow(r, choice)
           Stored == \E choice \in PrefixRowChoices(mode.pin) : \E tokens :
                       StoreCommon(tokens, choice) /\ Unlisted(tokens)
<1>1. ASSUME NEW r \in Requests, Retire(r) PROVE entries' = entries \/ Adopted
  <2>1. r \in Held
    BY <1>1 DEF Retire, Held, Holding
  <2>2. row[r] \notin PrefixSide
    BY <2>1, HeldRowsAre
  <2> QED BY <1>1, <2>2 DEF Retire, ReleaseRow
<1>2. ASSUME NEW r \in Requests, Store(r) PROVE entries' = entries
  BY <1>2 DEF Store, Pinning
<1>3. ASSUME PrefillCommon PROVE entries' = entries \/ Stored
  <2>1. PICK n : n = SharedPrompts(todo)
    OBVIOUS
  <2>2. n \in Nat
    <3>1. todo \in SUBSET Requests /\ todo # {}
      BY <1>3 DEF DenseInv, Types, PrefillCommon
    <3> QED BY <2>1, <3>1, SharedFacts
  <2>3. PICK tokens : tokens = SubSeq(Prompt[CHOOSE r \in todo : TRUE], 1, n)
    OBVIOUS
  <2>4. entries' = entries \/
          (n >= MinCommon /\ \E choice \in PrefixRowChoices(mode.pin) : StoreCommon(tokens, choice))
    BY <1>3, <2>1, <2>3 DEF PrefillCommon
  <2>5. n >= MinCommon => Unlisted(tokens)
    <3>1. n <= SharedPrompts(todo)
      BY <2>1, <2>2
    <3> QED BY <1>3, <2>2, <2>3, <3>1, CommonUnlisted
  <2> QED BY <2>4, <2>5
<1>4. ASSUME PrepareCommon PROVE entries' = entries \/ Stored
  <2>1. PICK n : n = Min({SharedPrompts(todo)} \cup {Len(Prompt[r]) - 1 : r \in todo})
    OBVIOUS
  <2>2. PICK tokens : tokens = SubSeq(Prompt[CHOOSE r \in todo : TRUE], 1, n)
    OBVIOUS
  <2>3. \/ entries' = entries
        \/ /\ ~(\E i \in DOMAIN entries : entries[i].common /\ entries[i].tokens = tokens)
           /\ \E choice \in PrefixRowChoices(mode.pin) : StoreCommon(tokens, choice)
    BY <1>4, <2>1, <2>2 DEF PrepareCommon
  <2> QED BY <2>3 DEF Unlisted
<1>5. ASSUME NEW G, NEW stops, NEW pads,
             DecodeGroup(G, stops, pads) \/ ChunkGroup(G, stops, pads)
               \/ PrefillPrefixGroup(G, stops, pads) \/ PrefillPlainGroup(G, stops, pads)
      PROVE  entries' = entries
  BY <1>5 DEF DecodeGroup, ChunkGroup, PrefillPrefixGroup, PrefillPlainGroup, FillOrRaise, Fill, Raise, rows
<1>6. ASSUME NEW r, TakeRow(r) \/ Submit(r) PROVE entries' = entries
  BY <1>6 DEF TakeRow, Raise, rows, Submit
<1>7. ASSUME \/ StartStep \/ Decide \/ Filter \/ DecodeDone \/ AdvanceDone \/ StartBurst \/ BurstDone
             \/ \E stops, pads : BurstStep(stops, pads)
             \/ \E batch : Admit(batch)
             \/ AdmitNone \/ PrefillDone \/ TakeDone \/ Release \/ UNCHANGED vars
      PROVE  entries' = entries
  BY <1>7 DEF StartStep, Decide, Filter, DecodeDone, AdvanceDone, StartBurst, BurstDone, BurstStep,
              Admit, AdmitNone, PrefillDone, TakeDone, Release, vars, rows
<1> HIDE DEF Adopted, Stored
<1>8. entries' = entries \/ Adopted \/ Stored
  BY <1>1, <1>2, <1>3, <1>4, <1>5, <1>6, <1>7 DEF Next, Step
<1> QED BY <1>8 DEF Adopted, Stored

\* An entry of the list that a new entry is appended to is kept.
LEMMA KeptInList ==
  ASSUME NEW list, IsList(list), DistinctRows(list), NEW tokens, NEW w, NEW common, w \notin RowsOf(list),
         entries' = WithEntry(list, tokens, w, common), NEW j \in DOMAIN list, list[j].common
  PROVE  Kept(list[j])
<1> DEFINE new == WithEntry(list, tokens, w, common)
<1>1. \A k \in DOMAIN list :
        /\ k \in DOMAIN new /\ new[k].row = list[k].row
        /\ new[k].tokens = list[k].tokens /\ new[k].common = list[k].common
  BY WithEntryRows
<1> HIDE DEF new
<1>2. /\ j \in DOMAIN entries' /\ entries'[j].row = list[j].row
      /\ entries'[j].tokens = list[j].tokens /\ entries'[j].common = list[j].common
  BY <1>1 DEF new
<1> QED BY <1>2 DEF Kept

\* Acquiring a prefix row takes none that is pinned.
LEMMA PinnedLeft ==
  ASSUME PrefixSideOK, Pinning, NEW choice \in PrefixRowChoices(mode.pin),
         NEW i \in DOMAIN entries, entries[i].common
  PROVE  /\ IsList(choice.left) /\ DistinctRows(choice.left) /\ choice.row \in PrefixSide
         /\ choice.row \notin RowsOf(choice.left) /\ RowsOf(choice.left) \subseteq PrefixSide
         /\ \E j \in DOMAIN choice.left : choice.left[j] = entries[i]
<1>1. PICK pin : pin = mode.pin
  OBVIOUS
<1>2. choice \in PrefixRowChoices(pin) /\ pin
  BY <1>1 DEF Pinning
<1> QED BY <1>2, ChoiceRows

\* For any number of rows and requests, a pinned common prefix is never given up: it
\* leaves its row only when its tokens are stored again while no lookup returns it, and
\* lookups return the new row.
THEOREM PinnedPrefixesStay == Spec => PinnedStays
<1>1. DenseInv /\ ServeInv /\ Missed /\ [Next]_vars => PrefixesKept
  <2> SUFFICES ASSUME DenseInv, ServeInv, Missed, [Next]_vars, Pinning,
                      NEW i \in DOMAIN entries, entries[i].common
               PROVE  Kept(entries[i])
    BY DEF PrefixesKept, Pinning
  <2>1. PrefixSideOK
    BY DEF DenseInv, Partition
  <2>2. CASE entries' = entries
    BY <2>2 DEF Kept
  <2>3. ASSUME NEW r \in Requests, NEW choice \in PrefixRowChoices(mode.pin),
               row[r] \notin PrefixSide, AdoptRow(r, choice)
        PROVE  Kept(entries[i])
    <3>1. /\ IsList(choice.left) /\ DistinctRows(choice.left) /\ RowsOf(choice.left) \subseteq PrefixSide
          /\ \E j \in DOMAIN choice.left : choice.left[j] = entries[i]
      BY <2>1, PinnedLeft
    <3>2. PICK j \in DOMAIN choice.left : choice.left[j] = entries[i]
      BY <3>1
    <3>3. row[r] \notin RowsOf(choice.left) /\ entries' = WithEntry(choice.left, Prompt[r], row[r], FALSE)
      BY <2>3, <3>1 DEF AdoptRow
    <3> QED BY <3>1, <3>2, <3>3, KeptInList
  <2>4. ASSUME NEW choice \in PrefixRowChoices(mode.pin), NEW tokens, StoreCommon(tokens, choice),
               Unlisted(tokens)
        PROVE  Kept(entries[i])
    <3>1. /\ IsList(choice.left) /\ DistinctRows(choice.left) /\ choice.row \notin RowsOf(choice.left)
          /\ \E j \in DOMAIN choice.left : choice.left[j] = entries[i]
      BY <2>1, PinnedLeft
    <3>2. PICK list : list = Replaced(choice.left, tokens).left
      OBVIOUS
    <3>3. IsList(list) /\ DistinctRows(list) /\ choice.row \notin RowsOf(list)
      <4>1. PICK old \in Leftovers(choice.left) : list = old.left
        BY <3>2, ReplacedLeaves
      <4> QED BY <3>1, <4>1, LeftoverRows
    <3>4. entries' = WithEntry(list, tokens, choice.row, TRUE)
      BY <2>4, <3>2 DEF StoreCommon
    <3>5. (\E j \in DOMAIN list : list[j] = entries[i]) \/ entries[i].tokens = tokens
      BY <3>1, <3>2, ReplacedOnly
    <3>6. ASSUME NEW j \in DOMAIN list, list[j] = entries[i] PROVE Kept(entries[i])
      <4>1. Kept(list[j])
        BY <3>3, <3>4, <3>6, KeptInList
      <4> QED BY <3>6, <4>1
    <3>7. ASSUME entries[i].tokens = tokens PROVE Kept(entries[i])
      <4>1. PICK k \in DOMAIN entries' :
              entries'[k] = [tokens |-> tokens, row |-> choice.row, common |-> TRUE, indexed |-> TRUE]
        <5>1. PICK common, w : common = TRUE /\ w = choice.row
          OBVIOUS
        <5> DEFINE new == WithEntry(list, tokens, w, common)
        <5>2. \E k \in DOMAIN new :
                new[k] = [tokens |-> tokens, row |-> w, common |-> common, indexed |-> TRUE]
          BY <3>3, NewEntry
        <5> HIDE DEF new
        <5>3. entries' = new
          BY <3>4, <5>1 DEF new
        <5> QED BY <5>1, <5>2, <5>3
      <4>2. ~entries[i].indexed
        BY <2>4, <3>7 DEF Unlisted
      <4> QED BY <3>7, <4>1, <4>2 DEF Kept
    <3> QED BY <3>5, <3>6, <3>7
  <2> QED BY <2>2, <2>3, <2>4, HowEntriesChange
<1> QED BY <1>1, PinnedFound, PTL DEF Spec, PinnedStays

(***************************************************************************)
(* The KV behind prefixes and requests.                                    *)
(***************************************************************************)
\* The configurations in which nothing is stored or adopted between the lookup of a
\* prefix and its copy: whole prompts are stored only for pinned prefixes or for one
\* request a step, and a chunked engine does not adopt.
SoundModes ==
  \A m \in Modes :
    /\ m.storeFull /\ ~m.pin /\ m.chunk = 0 => m.perStep = 1
    /\ m.chunk > 0 => ~(m.pin /\ m.adopt)

\* The token at position i of a request, generated or to be generated.
Cell(r, i) == IF i <= Len(Prompt[r]) THEN Prompt[r][i] ELSE Reply[r]
HasKV(cells, r, n) == \A i \in 1..n : cells[i] = Cell(r, i)

\* The requests that have not copied the prefix they found.
ToCopy ==
  {r \in Requests :
     hit[r] > 0 /\ (phase[r] = "admitted" \/ (phase[r] = "prefilling" /\ seq[r] = hit[r]))}

EntriesHold == \A i \in DOMAIN entries : HoldsPrefix(kv[entries[i].row], entries[i].tokens)
SourcesHold == \A r \in ToCopy : src[r] \in EntryRows /\ HasKV(kv[src[r]], r, hit[r])
RowsHold == \A r \in Held \ ToCopy : HasKV(kv[row[r]], r, seq[r])

KVInv == DOMAIN kv = Rows /\ EntriesHold /\ SourcesHold /\ RowsHold

LEMMA TokensAre ==
  ASSUME Counters, NEW r \in Requests, NEW i \in 1..Len(Prompt[r]) + gen[r]
  PROVE  TokensOf(r)[i] = Cell(r, i)
<1> DEFINE p == Prompt[r]
           g == gen[r]
           t == [k \in 1..g |-> Reply[r]]
<1>1. p \in Seq(STRING) /\ Reply[r] \in STRING /\ g \in Nat
  BY EngineAssumption DEF Counters
<1>2. TokensOf(r) = p \o t
  BY DEF TokensOf
<1> HIDE DEF p, g
<1>3. t \in Seq(STRING) /\ Len(t) = g /\ \A k \in 1..g : t[k] = Reply[r]
  BY <1>1
<1> HIDE DEF t
<1>4. Len(p) \in Nat /\ i \in 1..Len(p) + g
  BY <1>1 DEF p, g
<1>5. (p \o t)[i] = IF i <= Len(p) THEN p[i] ELSE t[i - Len(p)]
  BY <1>1, <1>3, <1>4
<1>6. ~(i <= Len(p)) => i - Len(p) \in 1..g
  BY <1>1, <1>4
<1> QED BY <1>2, <1>3, <1>5, <1>6 DEF Cell, p

\* More of a prompt, behind what is there.
LEMMA PutPrompt ==
  ASSUME NEW r \in Requests, NEW a \in Nat, NEW b \in Nat, a <= b, b <= Len(Prompt[r]),
         NEW cells, HasKV(cells, r, a)
  PROVE  HasKV(Put(cells, a, SubSeq(Prompt[r], a + 1, b)), r, b)
<1> DEFINE p == Prompt[r]
           s == SubSeq(p, a + 1, b)
<1>1. p \in Seq(STRING) /\ Len(p) \in Nat /\ b <= MaxLen /\ b <= Len(p) /\ MaxLen \in Nat
  BY PromptToStore, Budgets
<1>2. Cell(r, 1) = IF 1 <= Len(p) THEN p[1] ELSE Reply[r]
  BY DEF Cell
<1>3. \A i \in 1..b : Cell(r, i) = p[i]
  BY <1>1 DEF Cell
<1> HIDE DEF p
<1>4. Len(s) = b - a /\ \A j \in 1..b - a : s[j] = p[a + j]
  BY <1>1
<1> HIDE DEF s
<1> SUFFICES ASSUME NEW i \in 1..b PROVE Put(cells, a, s)[i] = Cell(r, i)
  BY DEF HasKV, s, p
<1>5. Put(cells, a, s)[i] = IF i > a /\ i <= a + Len(s) THEN s[i - a] ELSE cells[i]
  BY <1>1 DEF Put
<1>6. CASE i > a
  <2>1. i - a \in 1..b - a /\ a + (i - a) = i /\ i <= a + (b - a)
    BY <1>6
  <2>2. s[i - a] = p[i]
    BY <1>4, <2>1
  <2> QED BY <1>3, <1>4, <1>5, <1>6, <2>1, <2>2
<1>7. CASE ~(i > a)
  <2>1. i \in 1..a
    BY <1>7
  <2> QED BY <1>5, <1>7, <2>1 DEF HasKV
<1> QED BY <1>6, <1>7

LEMMA CopyHas ==
  ASSUME NEW r \in Requests, NEW n \in Nat, n <= Len(Prompt[r]), NEW w, HasKV(kv[w], r, n)
  PROVE  HasKV(CopyOf(w, n), r, n)
<1>1. n <= MaxLen /\ MaxLen \in Nat
  BY Budgets
<1> QED BY <1>1 DEF HasKV, CopyOf

\* What stands behind a request is its prompt.
LEMMA HasPrompt ==
  ASSUME NEW r \in Requests, NEW n \in Nat, n >= Len(Prompt[r]), NEW cells, HasKV(cells, r, n)
  PROVE  HoldsPrefix(cells, Prompt[r])
<1>1. Prompt[r] \in Seq(STRING) /\ Len(Prompt[r]) \in Nat
  BY PromptToStore, Budgets
<1>2. DOMAIN Prompt[r] = 1..Len(Prompt[r])
  BY <1>1
<1> QED BY <1>1, <1>2 DEF HasKV, Cell, HoldsPrefix

(***************************************************************************)
(* What a step must leave alone: every row of an entry, and the row of     *)
(* every request that it does not serve.                                   *)
(***************************************************************************)
LEMMA KVFrame ==
  ASSUME DenseInv, KVInv, NEW W, NEW G, W \cap EntryRows = {}, entries' = entries,
         DOMAIN kv' = Rows, \A w \in Rows \ W : kv'[w] = kv[w],
         \A r \in ToCopy' : r \in ToCopy /\ src'[r] = src[r] /\ hit'[r] = hit[r],
         \A r \in Held' \ ToCopy' :
           \/ r \in G /\ HasKV(kv'[row'[r]], r, seq'[r])
           \/ r \in Held \ ToCopy /\ seq'[r] = seq[r] /\ row'[r] = row[r] /\ row[r] \notin W
  PROVE  KVInv'
<1>1. EntriesHold'
  <2> SUFFICES ASSUME NEW i \in DOMAIN entries
               PROVE  HoldsPrefix(kv'[entries[i].row], entries[i].tokens)
    BY DEF EntriesHold, HoldsPrefix
  <2>1. entries[i].row \in EntryRows
    BY DEF EntryRows, RowsOf
  <2>2. kv'[entries[i].row] = kv[entries[i].row]
    BY <2>1, EntryRowsAre
  <2> QED BY <2>2 DEF KVInv, EntriesHold
<1>2. SourcesHold'
  <2> SUFFICES ASSUME NEW r \in ToCopy' PROVE src'[r] \in EntryRows' /\ HasKV(kv'[src'[r]], r, hit'[r])
    BY DEF SourcesHold, HasKV, Cell
  <2>1. src[r] \in EntryRows /\ HasKV(kv[src[r]], r, hit[r])
    BY DEF KVInv, SourcesHold
  <2>2. kv'[src[r]] = kv[src[r]]
    BY <2>1, EntryRowsAre
  <2>3. EntryRows' = EntryRows
    BY DEF EntryRows
  <2> QED BY <2>1, <2>2, <2>3
<1>3. RowsHold'
  <2> SUFFICES ASSUME NEW r \in Held' \ ToCopy' PROVE HasKV(kv'[row'[r]], r, seq'[r])
    BY DEF RowsHold, HasKV, Cell
  <2>1. ASSUME r \in Held \ ToCopy, seq'[r] = seq[r], row'[r] = row[r], row[r] \notin W
        PROVE  HasKV(kv'[row'[r]], r, seq'[r])
    <3>1. row[r] \in Rows
      BY <2>1, HeldRowsAre
    <3>2. HasKV(kv[row[r]], r, seq[r])
      BY <2>1 DEF KVInv, RowsHold
    <3> QED BY <2>1, <3>1, <3>2
  <2> QED BY <2>1
<1>4. Rows' = Rows
  BY DEF Rows
<1> QED BY <1>1, <1>2, <1>3, <1>4 DEF KVInv

\* A step that writes nothing and gives no row.
LEMMA QuietKeepsKV ==
  ASSUME DenseInv, KVInv, UNCHANGED <<kv, entries, src, hit, row, seq>>,
         ToCopy' = ToCopy, Held' \subseteq Held
  PROVE  KVInv'
<1>1. \A r \in Held' \ ToCopy' : r \in Held \ ToCopy
  OBVIOUS
<1>2. DOMAIN kv' = Rows
  BY DEF KVInv
<1>3. PICK none : none = {}
  OBVIOUS
<1>4. none \cap EntryRows = {} /\ \A w \in Rows \ none : kv'[w] = kv[w]
  BY <1>3
<1>5. \A r \in Held' \ ToCopy' :
        \/ r \in none /\ HasKV(kv'[row'[r]], r, seq'[r])
        \/ r \in Held \ ToCopy /\ seq'[r] = seq[r] /\ row'[r] = row[r] /\ row[r] \notin none
  BY <1>1, <1>3
<1>6. entries' = entries /\ \A r \in ToCopy' : r \in ToCopy /\ src'[r] = src[r] /\ hit'[r] = hit[r]
  OBVIOUS
<1> QED BY <1>2, <1>4, <1>5, <1>6, KVFrame

\* A prefix is stored, in the acquired row or in the row of a request, when nobody
\* has still to copy the prefix that may have been evicted for it.
LEMMA KVStored ==
  ASSUME DenseInv, KVInv, NEW pin, NEW choice, NEW tokens, NEW w, NEW common,
         Stores(pin, choice, tokens, w, common),
         DOMAIN kv' = Rows, \A v \in Rows : v = choice.row \/ v \in freePrefix' \/ kv'[v] = kv[v],
         HoldsPrefix(kv'[w], tokens), SourcesHold',
         \A r \in Held' \ ToCopy' : r \in Held \ ToCopy /\ seq'[r] = seq[r] /\ row'[r] = row[r]
  PROVE  KVInv'
<1>1. /\ PrefixSideOK /\ choice.row \in PrefixSide /\ PrefixSideOK'
      /\ PrefixSide' = (PrefixSide \ {choice.row}) \cup {w}
  BY EntryExchange DEF DenseInv, Partition
<1>2. EntriesHold'
  <2> SUFFICES ASSUME NEW k \in DOMAIN entries'
               PROVE  HoldsPrefix(kv'[entries'[k].row], entries'[k].tokens)
    BY DEF EntriesHold, HoldsPrefix
  <2>1. ASSUME NEW i \in DOMAIN entries, entries'[k].tokens = entries[i].tokens,
               entries'[k].row = entries[i].row, entries[i].row # choice.row
        PROVE  HoldsPrefix(kv'[entries'[k].row], entries'[k].tokens)
    <3>1. entries[i].row \in Rows
      BY EntryRowsAre DEF EntryRows, RowsOf
    <3>2. entries[i].row \notin freePrefix'
      BY <1>1, <2>1 DEF PrefixSideOK, EntryRows, RowsOf
    <3>3. kv'[entries[i].row] = kv[entries[i].row]
      BY <2>1, <3>1, <3>2
    <3> QED BY <2>1, <3>3 DEF KVInv, EntriesHold
  <2> QED BY <1>1, <2>1, EntryOrigin
<1>3. RowsHold'
  <2> SUFFICES ASSUME NEW r \in Held' \ ToCopy' PROVE HasKV(kv'[row'[r]], r, seq'[r])
    BY DEF RowsHold, HasKV, Cell
  <2>1. r \in Held \ ToCopy /\ seq'[r] = seq[r] /\ row'[r] = row[r]
    OBVIOUS
  <2>2. row[r] \in Rows /\ row[r] \notin PrefixSide
    BY <2>1, HeldRowsAre
  <2>3. row[r] # choice.row /\ (row[r] = w \/ row[r] \notin freePrefix')
    BY <1>1, <2>2 DEF PrefixSide
  <2>4. w \notin freePrefix'
    BY <1>1, EntryExchange DEF PrefixSideOK
  <2> QED BY <2>1, <2>2, <2>3, <2>4 DEF KVInv, RowsHold
<1>4. Rows' = Rows
  BY DEF Rows
<1> QED BY <1>2, <1>3, <1>4 DEF KVInv
(***************************************************************************)
(* The steps, one by one.                                                  *)
(***************************************************************************)
LEMMA QuietSteps ==
  ASSUME DenseInv, ServeInv, KVInv,
         \/ \E r \in Requests : Submit(r)
         \/ StartStep \/ Decide \/ Filter \/ DecodeDone \/ AdvanceDone \/ StartBurst \/ BurstDone
         \/ AdmitNone \/ PrefillDone \/ TakeDone \/ Release \/ Raise \/ UNCHANGED vars
  PROVE  KVInv'
<1>1. ASSUME NEW r \in Requests, Submit(r) PROVE KVInv'
  <2>1. UNCHANGED <<kv, entries, src, hit, row, seq>> /\ phase' = [phase EXCEPT ![r] = "waiting"]
        /\ phase[r] = "new"
    BY <1>1 DEF Submit, rows
  <2>2. ToCopy' = ToCopy /\ Held' \subseteq Held
    BY <2>1 DEF ToCopy, Held, Holding, DenseInv, Types
  <2> QED BY <2>1, <2>2, QuietKeepsKV
<1>2. ASSUME \/ StartStep \/ Decide \/ DecodeDone \/ AdvanceDone \/ StartBurst
             \/ AdmitNone \/ PrefillDone \/ TakeDone \/ Raise \/ UNCHANGED vars
      PROVE  KVInv'
  <2>1. UNCHANGED <<kv, entries, src, hit, row, seq, phase>>
    BY <1>2 DEF StartStep, Decide, DecodeDone, AdvanceDone, StartBurst, AdmitNone, PrefillDone,
                TakeDone, Raise, vars, rows, request
  <2>2. ToCopy' = ToCopy /\ Held' \subseteq Held
    BY <2>1 DEF ToCopy, Held
  <2> QED BY <2>1, <2>2, QuietKeepsKV
<1>3. ASSUME Filter \/ BurstDone \/ Release PROVE KVInv'
  <2>1. UNCHANGED <<kv, entries, src, hit, row, seq>>
    BY <1>3 DEF Filter, BurstDone, Release, rows
  <2>2. \A r \in Requests : phase'[r] = phase[r] \/ (phase[r] = "active" /\ phase'[r] = "ending")
    BY <1>3 DEF Filter, BurstDone, Release
  <2>3. ToCopy' = ToCopy /\ Held' \subseteq Held
    BY <2>1, <2>2 DEF ToCopy, Held, Holding
  <2> QED BY <2>1, <2>3, QuietKeepsKV
<1> QED BY <1>1, <1>2, <1>3

\* Retirement writes nothing; an adopted row holds the prompt, and nobody has still to
\* copy the prefix that it replaces.
LEMMA NothingToCopy ==
  ASSUME ServeInv, mode.chunk = 0, In("admitted") = {} PROVE ToCopy = {}
  BY DEF ServeInv, Stages, ToCopy, In

LEMMA RetireKeepsKV ==
  ASSUME SoundModes, DenseInv, ServeInv, KVInv, NEW r \in Requests, Retire(r) PROVE KVInv'
<1>1. /\ phase[r] \in {"ending", "pending"} /\ phase' = [phase EXCEPT ![r] = "done"]
      /\ row' = [row EXCEPT ![r] = NoRow]
      /\ UNCHANGED <<kv, mode, gen, seq, hit, src, over, todo, decodeAfter, pc>>
  BY DEF Retire
<1>2. r \in Held \ ToCopy /\ Held' = Held \ {r} /\ ToCopy' = ToCopy
  BY <1>1 DEF Held, Holding, ToCopy, DenseInv, Types
<1>3. \A q \in Held' \ ToCopy' : q \in Held \ ToCopy /\ seq'[q] = seq[q] /\ row'[q] = row[q]
  BY <1>1, <1>2 DEF DenseInv, Types, Held
<1>4. DOMAIN kv' = Rows /\ \A w \in Rows : kv'[w] = kv[w]
  BY <1>1 DEF KVInv
<1>5. CASE entries' = entries
  <2>1. PICK none : none = {}
    OBVIOUS
  <2>2. none \cap EntryRows = {} /\ \A w \in Rows \ none : kv'[w] = kv[w]
    BY <1>4, <2>1
  <2>3. \A q \in Held' \ ToCopy' :
          \/ q \in none /\ HasKV(kv'[row'[q]], q, seq'[q])
          \/ q \in Held \ ToCopy /\ seq'[q] = seq[q] /\ row'[q] = row[q] /\ row[q] \notin none
    BY <1>3, <2>1
  <2>4. \A q \in ToCopy' : q \in ToCopy /\ src'[q] = src[q] /\ hit'[q] = hit[q]
    BY <1>1, <1>2
  <2> QED BY <1>4, <1>5, <2>2, <2>3, <2>4, KVFrame
<1>6. ASSUME Adopts, NEW choice \in PrefixRowChoices(mode.pin), AdoptRow(r, choice) PROVE KVInv'
  <2>1. mode.chunk = 0
    <3>1. mode \in Modes /\ mode.chunk \in Nat
      BY ModeTypes DEF ServeInv, Counters
    <3>2. ~(mode.chunk > 0)
      BY <1>6, <3>1 DEF SoundModes, Adopts
    <3> QED BY <3>1, <3>2
  <2>2. In("admitted") = {}
    <3>1. phase[r] = "ending" \/ pc = "flush"
      BY DEF Retire
    <3>2. phase[r] = "ending" => ~Passing /\ pc # "raised"
      BY DEF ServeInv, Stages, In
    <3> QED BY <3>1, <3>2 DEF ServeInv, Stages, Passing
  <2>3. ToCopy' = {}
    BY <1>2, <2>1, <2>2, NothingToCopy
  <2>4. SourcesHold'
    BY <2>3 DEF SourcesHold
  <2>5. row[r] \notin PrefixSide /\ row[r] \in Rows
    BY <1>2, HeldRowsAre
  <2>6. Stores(mode.pin, choice, Prompt[r], row[r], FALSE)
    <3>1. PICK pin : pin = mode.pin
      OBVIOUS
    <3> QED BY <1>6, <2>5, <3>1, PlainStore DEF AdoptRow
  <2>7. HasKV(kv[row[r]], r, seq[r])
    BY <1>2 DEF KVInv, RowsHold
  <2>8. seq[r] \in Nat /\ seq[r] >= Len(Prompt[r])
    <3>1. /\ seq[r] \in Nat /\ gen[r] \in Nat /\ Len(Prompt[r]) \in Nat
          /\ 1 <= gen[r] /\ seq[r] = Len(Prompt[r]) + gen[r] - 1
      BY <1>1, Budgets DEF ServeInv, Counters, Progress, Fits, Running
    <3> QED BY <3>1
  <2>9. HoldsPrefix(kv'[row[r]], Prompt[r])
    BY <1>4, <2>5, <2>7, <2>8, HasPrompt
  <2> HIDE DEF SoundModes
  <2>10. PICK pin : pin = mode.pin
    OBVIOUS
  <2>11. Stores(pin, choice, Prompt[r], row[r], FALSE)
    BY <2>6, <2>10
  <2> QED BY <1>3, <1>4, <2>4, <2>9, <2>11, KVStored
<1>7. entries' = entries \/ \E choice \in PrefixRowChoices(mode.pin) : Adopts /\ AdoptRow(r, choice)
  BY DEF Retire, ReleaseRow
<1> QED BY <1>5, <1>6, <1>7

\* A decode pass writes the next cell of each request it serves, and free rows.
LEMMA ForwardKV ==
  ASSUME DenseInv, ServeInv, KVInv, NEW G \in SUBSET todo, G \subseteq In("active"),
         pc \in {"decode", "burst", "bursting"}, NEW pads, Forward(G, pads),
         UNCHANGED <<entries, src, hit, row>>, ToCopy' = ToCopy, Held' = Held
  PROVE  KVInv'
<1> DEFINE padding == IF mode.ragged /\ Cardinality(G) > 1 THEN pads \cap freeActive ELSE {}
           last == Max({seq[r] : r \in G})
           W == {row[r] : r \in G} \cup padding
<1>1. padding \subseteq freeActive
  OBVIOUS
<1>2. /\ kv' = [w \in Rows |->
                  IF \E r \in G : row[r] = w
                  THEN LET r == CHOOSE r \in G : row[r] = w
                       IN Put(kv[w], seq[r], <<Reply[r]>>)
                  ELSE IF w \in padding THEN Put(kv[w], last, <<Junk>>) ELSE kv[w]]
      /\ seq' = [r \in Requests |-> IF r \in G THEN seq[r] + 1 ELSE seq[r]]
  BY DEF Forward
<1> HIDE DEF padding, last
<1>3. G \subseteq Held /\ G \subseteq Requests /\ G \cap ToCopy = {}
  BY DEF In, Held, Holding, ToCopy
<1>4. W \cap EntryRows = {}
  <2>1. \A r \in G : row[r] \notin EntryRows
    BY <1>3, HeldRowsAre
  <2>2. freeActive \cap EntryRows = {}
    BY DEF DenseInv, Partition, ActiveSide, PrefixSide
  <2> QED BY <1>1, <2>1, <2>2
<1>5. DOMAIN kv' = Rows /\ \A w \in Rows \ W : kv'[w] = kv[w]
  BY <1>2
<1>6. ASSUME NEW r \in Held \ ToCopy, r \notin G PROVE seq'[r] = seq[r] /\ row[r] \notin W
  <2>1. row[r] \notin freeActive /\ \A q \in G : row[q] # row[r]
    BY <1>3, <1>6, HeldRowsAre
  <2>2. r \in Requests
    BY DEF Held
  <2> QED BY <1>1, <1>2, <1>6, <2>1, <2>2
<1>7. ASSUME NEW r \in G PROVE HasKV(kv'[row[r]], r, seq'[r])
  <2>1. r \in Held \ ToCopy /\ r \in Requests /\ row[r] \in Rows
    BY <1>3, HeldRowsAre
  <2>2. \A q \in G : row[q] = row[r] => q = r
    BY <1>3, HeldRowsAre
  <2>3. kv'[row[r]] = Put(kv[row[r]], seq[r], <<Reply[r]>>)
    BY <1>2, <2>1, <2>2
  <2>4. HasKV(kv[row[r]], r, seq[r])
    BY <2>1 DEF KVInv, RowsHold
  <2>5. /\ seq[r] \in Nat /\ gen[r] \in Nat /\ Len(Prompt[r]) \in Nat /\ MaxNew[r] \in Nat
        /\ Len(Prompt[r]) + MaxNew[r] <= MaxLen /\ MaxLen \in Nat
    BY <2>1, Budgets DEF ServeInv, Counters
  <2>6. gen[r] < MaxNew[r] /\ 1 <= gen[r] /\ seq[r] = Len(Prompt[r]) + gen[r] - 1
    BY <2>1 DEF ServeInv, Progress, Fits, Running, In
  <2>7. PICK n \in Nat : n = seq[r]
    BY <2>5
  <2>8. n + 1 <= MaxLen /\ n >= Len(Prompt[r]) /\ seq'[r] = n + 1
    BY <1>2, <2>1, <2>5, <2>6, <2>7
  <2> SUFFICES ASSUME NEW i \in 1..n + 1 PROVE Put(kv[row[r]], n, <<Reply[r]>>)[i] = Cell(r, i)
    BY <2>3, <2>7, <2>8 DEF HasKV
  <2>9. i \in 1..MaxLen
    BY <2>5, <2>8
  <2>10. Put(kv[row[r]], n, <<Reply[r]>>)[i] = IF i > n /\ i <= n + 1 THEN <<Reply[r]>>[i - n] ELSE kv[row[r]][i]
    BY <2>9 DEF Put
  <2>11. CASE i = n + 1
    <3>1. i - n = 1 /\ ~(i <= Len(Prompt[r]))
      BY <2>5, <2>8, <2>11
    <3> QED BY <2>10, <2>11, <3>1 DEF Cell
  <2>12. CASE i # n + 1
    <3>1. i \in 1..n
      BY <2>12
    <3> QED BY <2>4, <2>7, <2>10, <3>1 DEF HasKV
  <2> QED BY <2>11, <2>12
<1> HIDE DEF W
<1>8. \A r \in Held' \ ToCopy' :
        \/ r \in G /\ HasKV(kv'[row'[r]], r, seq'[r])
        \/ r \in Held \ ToCopy /\ seq'[r] = seq[r] /\ row'[r] = row[r] /\ row[r] \notin W
  BY <1>6, <1>7
<1>9. entries' = entries /\ \A r \in ToCopy' : r \in ToCopy /\ src'[r] = src[r] /\ hit'[r] = hit[r]
  OBVIOUS
<1> QED BY <1>4, <1>5, <1>8, <1>9, KVFrame

LEMMA DecodeKeepsKV ==
  ASSUME DenseInv, ServeInv, KVInv, NEW G \in SUBSET todo, NEW stops \in SUBSET G, NEW pads,
         DecodeGroup(G, stops, pads)
  PROVE  KVInv'
<1>1. /\ pc = "decode" /\ G \subseteq In("active") /\ Forward(G, pads)
      /\ UNCHANGED <<entries, src, hit, row>>
  BY DEF DecodeGroup, DenseInv, TodoOK
<1>2. \A r \in Requests :
        /\ phase'[r] = phase[r] \/ (phase[r] = "active" /\ phase'[r] \in {"pending", "ending"})
        /\ seq'[r] = seq[r] \/ r \in G
  BY <1>1 DEF DecodeGroup, Forward, Ended, Spent, In
<1>3. Held' = Held
  BY <1>2 DEF Held, Holding
<1>4. ToCopy' = ToCopy
  BY <1>1, <1>2 DEF ToCopy, In
<1> QED BY <1>1, <1>3, <1>4, ForwardKV

LEMMA BurstKeepsKV ==
  ASSUME DenseInv, ServeInv, KVInv, NEW stops \in SUBSET todo, NEW pads, BurstStep(stops, pads)
  PROVE  KVInv'
<1>1. /\ pc \in {"burst", "bursting"} /\ todo \subseteq In("active") /\ Forward(todo, pads)
      /\ UNCHANGED <<entries, src, hit, row, phase>>
  BY DEF BurstStep, DenseInv, TodoOK
<1>2. Held' = Held
  BY <1>1 DEF Held
<1>3. ToCopy' = ToCopy
  BY <1>1 DEF ToCopy, In, Forward
<1>4. PICK G : G = todo
  OBVIOUS
<1>5. G \in SUBSET todo /\ G \subseteq In("active") /\ Forward(G, pads)
  BY <1>1, <1>4
<1> QED BY <1>1, <1>2, <1>3, <1>5, ForwardKV

\* A chunk goes behind what is there, or behind the copied prefix.
LEMMA ChunkKeepsKV ==
  ASSUME DenseInv, ServeInv, KVInv, NEW G \in SUBSET todo, NEW stops \in SUBSET G, NEW pads \in PadRows,
         ChunkGroup(G, stops, pads)
  PROVE  KVInv'
<1> DEFINE filled == {r \in G : seq[r] + ChunkLen(r) = Len(Prompt[r])}
           ended == Ended(filled, stops)
           W == {row[r] : r \in G} \cup pads
<1>1. /\ pc = "advance" /\ G \subseteq todo /\ G \subseteq Requests /\ G \subseteq In("prefilling")
      /\ kv' = [w \in Rows |->
                  IF \E r \in G : row[r] = w THEN Chunked(CHOOSE r \in G : row[r] = w)
                  ELSE IF w \in pads THEN Blank ELSE kv[w]]
      /\ seq' = [r \in Requests |-> IF r \in G THEN seq[r] + ChunkLen(r) ELSE seq[r]]
      /\ phase' = [r \in Requests |-> IF r \in ended THEN "ending"
                                      ELSE IF r \in filled THEN "active" ELSE phase[r]]
      /\ UNCHANGED <<entries, src, hit, row>>
  BY DEF ChunkGroup, DenseInv, Types, TodoOK
<1>2. ended \subseteq filled /\ filled \subseteq G
  <2>1. stops \subseteq filled
    BY DEF ChunkGroup
  <2> QED BY <2>1 DEF Ended, Spent
<1> HIDE DEF filled, ended
<1>3. \A r \in G : /\ ChunkLen(r) \in Nat /\ ChunkLen(r) >= 1 /\ seq[r] + ChunkLen(r) <= Len(Prompt[r])
                   /\ hit[r] <= seq[r] /\ seq[r] \in Nat /\ hit[r] \in Nat /\ phase[r] = "prefilling"
  BY <1>1, ChunkFacts DEF ServeInv, Counters
<1>4. G \subseteq Held
  BY <1>1 DEF In, Held, Holding
<1>5. \A r \in Requests \ G : phase'[r] = phase[r] /\ seq'[r] = seq[r]
  BY <1>1, <1>2
<1>6. \A r \in G : /\ phase'[r] \in {"prefilling", "active", "ending"} /\ seq'[r] = seq[r] + ChunkLen(r)
  BY <1>1, <1>3
<1>7. Held' = Held
  <2>1. Held' \subseteq Held
    BY <1>4, <1>5, <1>6 DEF Held, Holding
  <2>2. Held \subseteq Held'
    BY <1>4, <1>5, <1>6 DEF Held, Holding
  <2> QED BY <2>1, <2>2
<1>8. ToCopy' = ToCopy \ G
  <2>1. \A r \in G : r \notin ToCopy'
    <3> TAKE r \in G
    <3>1. PICK n \in Nat : n = ChunkLen(r) /\ n >= 1
      BY <1>3
    <3>2. seq'[r] # hit'[r]
      BY <1>1, <1>3, <1>6, <3>1
    <3> QED BY <1>6, <3>2 DEF ToCopy
  <2>2. \A r \in Requests \ G : r \in ToCopy' <=> r \in ToCopy
    BY <1>1, <1>5 DEF ToCopy
  <2>3. ToCopy \subseteq Requests /\ ToCopy' \subseteq Requests
    BY DEF ToCopy
  <2> QED BY <2>1, <2>2, <2>3
<1>9. pads \subseteq freeActive \cup freePrefix
  BY DEF PadRows
<1>10. W \cap EntryRows = {}
  <2>1. \A r \in G : row[r] \notin EntryRows
    BY <1>4, HeldRowsAre
  <2>2. (freeActive \cup freePrefix) \cap EntryRows = {}
    BY DEF DenseInv, Partition, ActiveSide, PrefixSide, PrefixSideOK
  <2> QED BY <1>9, <2>1, <2>2
<1>11. DOMAIN kv' = Rows /\ \A w \in Rows \ W : kv'[w] = kv[w]
  BY <1>1
<1>12. ASSUME NEW r \in Held \ ToCopy', r \notin G
       PROVE  r \in Held \ ToCopy /\ seq'[r] = seq[r] /\ row'[r] = row[r] /\ row[r] \notin W
  <2>1. r \in Requests /\ r \notin ToCopy
    BY <1>8, <1>12 DEF Held
  <2>2. row[r] \notin freeActive \cup freePrefix /\ \A q \in G : row[q] # row[r]
    BY <1>4, <1>12, HeldRowsAre
  <2> QED BY <1>1, <1>5, <1>9, <1>12, <2>1, <2>2
<1>13. ASSUME NEW r \in G PROVE HasKV(kv'[row[r]], r, seq'[r])
  <2>1. r \in Held /\ r \in Requests /\ row[r] \in Rows
    BY <1>1, <1>4, HeldRowsAre
  <2>2. \A q \in G : row[q] = row[r] => q = r
    BY <1>4, <2>1, HeldRowsAre
  <2>3. kv'[row[r]] = Chunked(r)
    BY <1>1, <2>1, <2>2
  <2> DEFINE base == IF seq[r] = hit[r] /\ hit[r] > 0 THEN CopyOf(src[r], hit[r]) ELSE kv[row[r]]
  <2>4. PICK a \in Nat : a = seq[r]
    BY <1>3
  <2>5. PICK n \in Nat : n = ChunkLen(r)
    BY <1>3
  <2>6. a + n \in Nat /\ a <= a + n /\ a + n <= Len(Prompt[r]) /\ seq'[r] = a + n
    BY <1>3, <1>6, <2>4, <2>5
  <2>7. HasKV(base, r, a)
    <3>1. CASE seq[r] = hit[r] /\ hit[r] > 0
      <4>1. r \in ToCopy
        BY <1>3, <2>1, <3>1 DEF ToCopy
      <4>2. HasKV(kv[src[r]], r, hit[r])
        BY <4>1 DEF KVInv, SourcesHold
      <4>3. a = hit[r] /\ a <= Len(Prompt[r])
        BY <2>4, <3>1, <2>1 DEF ServeInv, Progress, Fits
      <4>4. HasKV(CopyOf(src[r], a), r, a)
        BY <2>1, <4>2, <4>3, CopyHas
      <4> QED BY <3>1, <4>3, <4>4
    <3>2. CASE ~(seq[r] = hit[r] /\ hit[r] > 0)
      <4>1. r \in Held \ ToCopy
        BY <1>3, <2>1, <3>2 DEF ToCopy
      <4> QED BY <2>4, <3>2, <4>1 DEF KVInv, RowsHold
    <3> QED BY <3>1, <3>2
  <2>8. Chunked(r) = Put(base, a, SubSeq(Prompt[r], a + 1, a + n))
    BY <2>4, <2>5 DEF Chunked
  <2> HIDE DEF base
  <2>9. HasKV(Put(base, a, SubSeq(Prompt[r], a + 1, a + n)), r, a + n)
    BY <2>1, <2>6, <2>7, PutPrompt
  <2> QED BY <2>3, <2>6, <2>8, <2>9
<1> HIDE DEF W
<1>14. \A r \in Held' \ ToCopy' :
         \/ r \in G /\ HasKV(kv'[row'[r]], r, seq'[r])
         \/ r \in Held \ ToCopy /\ seq'[r] = seq[r] /\ row'[r] = row[r] /\ row[r] \notin W
  BY <1>1, <1>7, <1>12, <1>13
<1>15. entries' = entries /\ \A r \in ToCopy' : r \in ToCopy /\ src'[r] = src[r] /\ hit'[r] = hit[r]
  BY <1>1, <1>8
<1> QED BY <1>10, <1>11, <1>14, <1>15, KVFrame

\* What a lookup finds is there.
LEMMA LookupHolds ==
  ASSUME DenseInv, ServeInv, KVInv, NEW r \in Requests,
         NEW demoted, NEW h \in Hits(Prompt[r], demoted), h.tokens > 0
  PROVE  h.row \in EntryRows /\ HasKV(kv[h.row], r, h.tokens)
<1>1. h.tokens \in Nat /\ h.tokens < Len(Prompt[r])
  BY LookupFacts DEF ServeInv
<1>2. PICK i \in DOMAIN entries : /\ h.row = entries[i].row
                                  /\ h.tokens <= Len(entries[i].tokens)
                                  /\ IsPrefixOf(entries[i].tokens, Prompt[r])
  BY LookupFacts DEF ServeInv
<1>3. entries[i].tokens \in Seq(STRING)
  BY DEF ServeInv, EntriesOK, EntryOK
<1>4. PICK t \in Seq(STRING) : t = entries[i].tokens
  BY <1>3
<1>5. PICK n \in Nat : n = h.tokens
  BY <1>1
<1>6. \A k \in DOMAIN t : kv[h.row][k] = t[k] /\ t[k] = Prompt[r][k]
  BY <1>2, <1>4 DEF KVInv, EntriesHold, HoldsPrefix, IsPrefixOf
<1>7. \A k \in 1..n : k \in DOMAIN t /\ k <= Len(Prompt[r])
  <2>1. DOMAIN t = 1..Len(t) /\ Len(t) \in Nat /\ n <= Len(t) /\ n < Len(Prompt[r]) /\ Len(Prompt[r]) \in Nat
    BY <1>1, <1>2, <1>4, <1>5, Budgets
  <2> QED BY <2>1
<1>8. HasKV(kv[h.row], r, n)
  BY <1>6, <1>7 DEF HasKV, Cell
<1>9. h.row \in EntryRows
  BY <1>2 DEF EntryRows, RowsOf
<1> QED BY <1>5, <1>8, <1>9

LEMMA AdmitKeepsKV ==
  ASSUME DenseInv, ServeInv, KVInv, NEW batch \in SUBSET In("waiting"), Admit(batch) PROVE KVInv'
<1>1. /\ batch \subseteq Requests /\ \A q \in batch : phase[q] = "waiting"
      /\ phase' = [r \in Requests |-> IF r \in batch THEN "admitted" ELSE phase[r]]
      /\ UNCHANGED <<kv, entries, row, seq>>
  BY DEF Admit, In, rows
<1>2. \A q \in batch : hit[q] = 0 /\ q \notin Held
  BY <1>1 DEF ServeInv, Progress, Fits, Held, Holding
<1>3. Held' = Held
  BY <1>1, <1>2 DEF Held, Holding
<1>4. \/ UNCHANGED <<hit, src>>
      \/ /\ \A q \in Requests \ batch : hit'[q] = hit[q] /\ src'[q] = src[q]
         /\ \A q \in batch : \E h \in Hits(Prompt[q], mode.graph) :
              hit'[q] = h.tokens /\ src'[q] = h.row
  BY <1>1, AdmitLooks
<1>5. EntryRows' = EntryRows
  BY <1>1 DEF EntryRows
<1>6. ASSUME NEW q \in Requests \ batch
      PROVE  hit'[q] = hit[q] /\ src'[q] = src[q] /\ (q \in ToCopy' <=> q \in ToCopy)
  BY <1>1, <1>4, <1>6 DEF ToCopy, ServeInv, Counters
<1>7. SourcesHold'
  <2> SUFFICES ASSUME NEW q \in ToCopy' PROVE src'[q] \in EntryRows /\ HasKV(kv[src'[q]], q, hit'[q])
    BY <1>1, <1>5 DEF SourcesHold, HasKV, Cell
  <2>1. q \in Requests /\ hit'[q] > 0
    BY DEF ToCopy
  <2>2. CASE q \in batch
    <3>1. hit[q] = 0
      BY <1>2, <2>2
    <3>2. PICK h \in Hits(Prompt[q], mode.graph) : hit'[q] = h.tokens /\ src'[q] = h.row
      BY <1>4, <2>1, <2>2, <3>1
    <3>3. h.row \in EntryRows /\ HasKV(kv[h.row], q, h.tokens)
      BY <2>1, <3>2, LookupHolds
    <3> QED BY <3>2, <3>3
  <2>3. CASE q \notin batch
    BY <1>6, <2>1, <2>3 DEF KVInv, SourcesHold
  <2> QED BY <2>2, <2>3
<1>8. RowsHold'
  <2> SUFFICES ASSUME NEW q \in Held \ ToCopy' PROVE HasKV(kv[row[q]], q, seq[q])
    BY <1>1, <1>3 DEF RowsHold, HasKV, Cell
  <2>1. q \in Requests \ batch
    BY <1>2 DEF Held
  <2>2. q \notin ToCopy
    BY <1>6, <2>1
  <2> QED BY <2>2 DEF KVInv, RowsHold
<1>9. EntriesHold' /\ DOMAIN kv' = Rows'
  BY <1>1 DEF KVInv, EntriesHold, HoldsPrefix, Rows
<1> QED BY <1>7, <1>8, <1>9 DEF KVInv

\* A group is filled: the prefix is copied into its free rows and the rest of its
\* prompts put behind it.
LEMMA FillKeepsKV ==
  ASSUME DenseInv, ServeInv, KVInv, pc \in {"prefill", "plain"},
         NEW G \in SUBSET todo, NEW stops \in SUBSET G, NEW pads \in PadRows, FillOrRaise(G, stops, pads)
  PROVE  KVInv'
<1>1. CASE Raise
  BY <1>1, QuietSteps
<1>2. CASE Fill(G, stops, pads)
  <2>1. PICK f \in ActiveRowsFor(G) :
          /\ kv' = [w \in Rows |->
                      IF w \in {f[r] : r \in G}
                      THEN LET r == CHOOSE r \in G : f[r] = w
                           IN Put(IF hit[r] = 0 THEN Blank ELSE CopyOf(src[r], hit[r]), hit[r],
                                  SubSeq(Prompt[r], hit[r] + 1, Len(Prompt[r])))
                      ELSE IF w \in pads \ {f[r] : r \in G} THEN Blank ELSE kv[w]]
          /\ row' = [r \in Requests |-> IF r \in G THEN f[r] ELSE row[r]]
    BY <1>2 DEF Fill
  <2>2. G \subseteq Requests /\ \A r \in G : phase[r] = "admitted"
    BY DEF DenseInv, Types, TodoOK, In
  <2>3. /\ phase' = [r \in Requests |-> IF r \in G THEN "filled" ELSE phase[r]]
        /\ seq' = [r \in Requests |-> IF r \in G THEN Len(Prompt[r]) ELSE seq[r]]
        /\ UNCHANGED <<entries, hit, src>>
    BY <1>2 DEF Fill
  <2>4. Held' = Held \cup G
    BY <1>2, FillKeeps
  <2>5. ToCopy' = ToCopy \ G
    BY <2>2, <2>3 DEF ToCopy
  <2>6. /\ \A r \in G : f[r] \in freeActive
        /\ \A r, q \in G : f[r] = f[q] => r = q
    BY DEF ActiveRowsFor
  <2> DEFINE W == {f[r] : r \in G} \cup pads
  <2>7. W \subseteq freeActive \cup freePrefix
    BY <2>6 DEF PadRows
  <2>8. W \cap EntryRows = {}
    <3>1. (freeActive \cup freePrefix) \cap EntryRows = {}
      BY DEF DenseInv, Partition, ActiveSide, PrefixSide, PrefixSideOK
    <3> QED BY <2>7, <3>1
  <2>9. DOMAIN kv' = Rows /\ \A w \in Rows \ W : kv'[w] = kv[w]
    BY <2>1
  <2>10. ASSUME NEW r \in Held' \ ToCopy', r \notin G
         PROVE  r \in Held \ ToCopy /\ seq'[r] = seq[r] /\ row'[r] = row[r] /\ row[r] \notin W
    <3>1. r \in Held /\ r \in Requests /\ r \notin ToCopy
      BY <2>4, <2>5, <2>10 DEF Held
    <3>2. row[r] \notin freeActive /\ row[r] \notin freePrefix
      BY <3>1, HeldRowsAre
    <3> QED BY <2>1, <2>3, <2>7, <2>10, <3>1, <3>2
  <2>11. ASSUME NEW r \in G PROVE HasKV(kv'[row'[r]], r, seq'[r])
    <3> DEFINE base == IF hit[r] = 0 THEN Blank ELSE CopyOf(src[r], hit[r])
               p == SubSeq(Prompt[r], hit[r] + 1, Len(Prompt[r]))
    <3>1. r \in Requests /\ row'[r] = f[r] /\ seq'[r] = Len(Prompt[r])
      BY <2>1, <2>2, <2>3
    <3>2. f[r] \in Rows
      BY <2>6 DEF DenseInv, Partition, ActiveSide
    <3>3. \A q \in G : f[q] = f[r] => q = r
      BY <2>6
    <3>4. kv'[f[r]] = Put(base, hit[r], p)
      BY <2>1, <3>2, <3>3
    <3> HIDE DEF base, p
    <3>5. hit[r] \in Nat /\ hit[r] <= Len(Prompt[r]) /\ Len(Prompt[r]) \in Nat
      BY <3>1, Budgets DEF ServeInv, Counters, Progress, Fits
    <3>6. PICK a \in Nat : a = hit[r]
      BY <3>5
    <3>7. PICK b \in Nat : b = Len(Prompt[r])
      BY <3>5
    <3>8. HasKV(base, r, a)
      <4>1. CASE a = 0
        BY <4>1 DEF HasKV
      <4>2. CASE a # 0
        <5>1. hit[r] > 0
          BY <3>6, <4>2
        <5>2. r \in ToCopy
          BY <2>2, <3>1, <5>1 DEF ToCopy
        <5>3. HasKV(kv[src[r]], r, a)
          BY <3>6, <5>2 DEF KVInv, SourcesHold
        <5>4. HasKV(CopyOf(src[r], a), r, a)
          BY <3>1, <3>5, <3>6, <5>3, CopyHas
        <5> QED BY <3>6, <4>2, <5>4 DEF base
      <4> QED BY <4>1, <4>2
    <3>9. a <= b /\ b <= Len(Prompt[r])
      BY <3>5, <3>6, <3>7
    <3>10. HasKV(Put(base, a, SubSeq(Prompt[r], a + 1, b)), r, b)
      BY <3>1, <3>8, <3>9, PutPrompt
    <3>11. p = SubSeq(Prompt[r], a + 1, b)
      BY <3>6, <3>7 DEF p
    <3> QED BY <3>1, <3>4, <3>6, <3>7, <3>10, <3>11
  <2> HIDE DEF W
  <2>12. \A r \in Held' \ ToCopy' :
           \/ r \in G /\ HasKV(kv'[row'[r]], r, seq'[r])
           \/ r \in Held \ ToCopy /\ seq'[r] = seq[r] /\ row'[r] = row[r] /\ row[r] \notin W
    BY <2>10, <2>11
  <2>13. entries' = entries /\ \A r \in ToCopy' : r \in ToCopy /\ src'[r] = src[r] /\ hit'[r] = hit[r]
    BY <2>3, <2>5
  <2> QED BY <2>8, <2>9, <2>12, <2>13, KVFrame
<1> QED BY <1>1, <1>2 DEF FillOrRaise

\* A whole prompt is stored with one request a step: nobody else has to copy.
LEMMA StoreKeepsKV ==
  ASSUME SoundModes, DenseInv, ServeInv, KVInv, NEW r \in Requests, Store(r) PROVE KVInv'
<1>1. /\ phase[r] = "filled" /\ phase' = [phase EXCEPT ![r] = "active"]
      /\ UNCHANGED <<row, seq, hit, src>>
  BY DEF Store
<1>2. r \in Held \ ToCopy /\ Held' = Held /\ ToCopy' = ToCopy
  BY <1>1 DEF Held, Holding, ToCopy, DenseInv, Types
<1>3. CASE UNCHANGED <<entries, freePrefix, kv>>
  BY <1>1, <1>2, <1>3, QuietKeepsKV
<1>4. ASSUME mode.storeFull, ~mode.pin, NEW choice \in PrefixRowChoices(FALSE),
             entries' = WithEntry(choice.left, Prompt[r], choice.row, FALSE),
             freePrefix' = freePrefix \ {choice.row},
             kv' = [kv EXCEPT ![choice.row] = CopyOf(row[r], Len(Prompt[r]))]
      PROVE  KVInv'
  <2>1. pc \in {"prefill", "plain"} /\ mode.chunk = 0 /\ r \in In("filled")
    BY <1>1 DEF ServeInv, Stages, In
  <2>2. mode.perStep = 1
    BY <1>4, <2>1 DEF SoundModes, ServeInv, Counters
  <2>3. todo \subseteq In("admitted") /\ In("admitted") = todo
    BY <2>1 DEF DenseInv, TodoOK, ServeInv, Stages, Passing
  <2>4. r \notin todo
    BY <1>1, <2>3 DEF In
  <2>5. In("admitted") = {}
    BY <2>1, <2>2, <2>3, <2>4 DEF ServeInv, Stages
  <2>6. ToCopy' = {}
    BY <1>2, <2>1, <2>5, NothingToCopy
  <2>7. SourcesHold'
    BY <2>6 DEF SourcesHold
  <2>8. choice.row \in Rows
    <3>1. PrefixSideOK /\ PrefixSide \subseteq Rows
      BY DEF DenseInv, Partition
    <3> QED BY <3>1, ChoiceRows
  <2>9. DOMAIN kv' = Rows /\ (\A v \in Rows \ {choice.row} : kv'[v] = kv[v])
        /\ kv'[choice.row] = CopyOf(row[r], Len(Prompt[r]))
    BY <1>4, <2>8 DEF KVInv
  <2>10. PICK n \in Nat : n = Len(Prompt[r])
    BY Budgets
  <2>11. HasKV(kv[row[r]], r, n)
    <3>1. /\ seq[r] \in Nat /\ gen[r] \in Nat /\ 1 <= gen[r] /\ seq[r] = Len(Prompt[r]) + gen[r] - 1
      BY <1>1, Budgets DEF ServeInv, Counters, Progress, Fits, Running
    <3>2. n <= seq[r]
      BY <2>10, <3>1
    <3>3. HasKV(kv[row[r]], r, seq[r])
      BY <1>2 DEF KVInv, RowsHold
    <3>4. \A i \in 1..n : i \in 1..seq[r]
      BY <3>1, <3>2
    <3> QED BY <3>3, <3>4 DEF HasKV
  <2>12. n <= Len(Prompt[r]) /\ n >= Len(Prompt[r])
    BY <2>10
  <2>13. HasKV(CopyOf(row[r], n), r, n)
    BY <2>11, <2>12, CopyHas
  <2>14. HoldsPrefix(kv'[choice.row], Prompt[r])
    BY <2>9, <2>10, <2>12, <2>13, HasPrompt
  <2>15. Stores(FALSE, choice, Prompt[r], choice.row, FALSE)
    BY <1>4, PlainStore
  <2>16. \A q \in Held' \ ToCopy' : q \in Held \ ToCopy /\ seq'[q] = seq[q] /\ row'[q] = row[q]
    BY <1>1, <1>2
  <2> HIDE DEF SoundModes
  <2> QED BY <2>7, <2>9, <2>14, <2>15, <2>16, KVStored
<1>5. \/ UNCHANGED <<entries, freePrefix, kv>>
      \/ \E choice \in PrefixRowChoices(FALSE) :
           /\ mode.storeFull /\ ~mode.pin
           /\ entries' = WithEntry(choice.left, Prompt[r], choice.row, FALSE)
           /\ freePrefix' = freePrefix \ {choice.row}
           /\ kv' = [kv EXCEPT ![choice.row] = CopyOf(row[r], Len(Prompt[r]))]
  BY DEF Store
<1> QED BY <1>3, <1>4, <1>5

\* The common prefix of a batch, computed into the row acquired for it: every prompt of
\* the batch may copy it.
LEMMA CommonHeld ==
  ASSUME DenseInv, KVInv, todo # {}, NEW n \in Nat, n <= SharedPrompts(todo),
         NEW tokens, tokens = SubSeq(Prompt[CHOOSE r \in todo : TRUE], 1, n),
         NEW pin, NEW choice \in PrefixRowChoices(pin), StoreCommon(tokens, choice)
  PROVE  /\ Stores(pin, choice, tokens, choice.row, TRUE)
         /\ DOMAIN kv' = Rows
         /\ \A v \in Rows : v = choice.row \/ v \in freePrefix' \/ kv'[v] = kv[v]
         /\ HoldsPrefix(kv'[choice.row], tokens)
         /\ choice.row \in EntryRows'
         /\ \A r \in todo : HasKV(kv'[choice.row], r, n)
<1>1. PrefixSideOK /\ PrefixSide \subseteq Rows
  BY DEF DenseInv, Partition
<1>2. Stores(pin, choice, tokens, choice.row, TRUE)
  BY CommonStore
<1>3. choice.row \in Rows
  BY <1>1, ChoiceRows
<1>4. /\ DOMAIN kv' = Rows
      /\ \A v \in Rows : v = choice.row \/ v \in freePrefix' \/ kv'[v] = kv[v]
      /\ kv'[choice.row] = Put(Blank, 0, tokens)
  BY <1>3 DEF StoreCommon
<1>5. todo \in SUBSET Requests
  BY DEF DenseInv, Types
<1>6. /\ tokens \in Seq(STRING) /\ Len(tokens) = n /\ n <= MaxLen
      /\ \A r \in todo : n <= Len(Prompt[r]) /\ \A i \in 1..n : tokens[i] = Prompt[r][i]
  <2>1. PICK G : G = todo
    OBVIOUS
  <2>2. /\ G \in SUBSET Requests /\ G # {} /\ n <= SharedPrompts(G)
        /\ tokens = SubSeq(Prompt[CHOOSE r \in G : TRUE], 1, n)
    BY <1>5, <2>1
  <2>3. /\ tokens \in Seq(STRING) /\ Len(tokens) = n /\ n <= MaxLen
        /\ \A r \in G : n <= Len(Prompt[r]) /\ \A i \in 1..n : tokens[i] = Prompt[r][i]
    BY <2>2, CommonToStore
  <2> QED BY <2>1, <2>3
<1>7. \A i \in 1..n : kv'[choice.row][i] = tokens[i]
  <2> TAKE i \in 1..n
  <2>1. i \in 1..MaxLen /\ i > 0 /\ i <= 0 + n /\ i - 0 = i
    BY <1>6, Budgets
  <2> QED BY <1>4, <1>6, <2>1 DEF Put
<1>8. HoldsPrefix(kv'[choice.row], tokens)
  <2>1. DOMAIN tokens = 1..n
    BY <1>6
  <2> QED BY <1>7, <2>1 DEF HoldsPrefix
<1>9. \A r \in todo : HasKV(kv'[choice.row], r, n)
  <2> SUFFICES ASSUME NEW r \in todo, NEW i \in 1..n PROVE kv'[choice.row][i] = Cell(r, i)
    BY DEF HasKV
  <2>1. n <= Len(Prompt[r]) /\ tokens[i] = Prompt[r][i] /\ Len(Prompt[r]) \in Nat
    BY <1>5, <1>6, Budgets
  <2>2. i <= Len(Prompt[r])
    BY <2>1
  <2> QED BY <1>7, <2>1, <2>2 DEF Cell
<1>10. choice.row \in EntryRows'
  BY <1>1, <1>2, EntryExchange
<1> QED BY <1>2, <1>4, <1>8, <1>9, <1>10

LEMMA PrefillCommonKeepsKV == ASSUME DenseInv, ServeInv, KVInv, PrefillCommon PROVE KVInv'
<1>1. PICK n : n = SharedPrompts(todo)
  OBVIOUS
<1>2. /\ pc = "prefill" /\ Hitting = {} /\ todo # {} /\ UNCHANGED <<phase, row, seq, todo>>
  BY DEF PrefillCommon
<1>3. todo \in SUBSET Requests
  BY DEF DenseInv, Types
<1>4. n \in Nat /\ n <= SharedPrompts(todo)
  BY <1>1, <1>2, <1>3, SharedFacts
<1>5. In("admitted") = todo /\ In("prefilling") = {}
  BY <1>2 DEF ServeInv, Stages, Passing
<1>6. ToCopy = {} /\ ToCopy' \subseteq todo
  <2>1. \A r \in todo : ~(hit[r] > 0)
    BY <1>2, <1>3 DEF Hitting
  <2> QED BY <1>2, <1>5, <2>1 DEF ToCopy, In
<1>7. Held' = Held
  BY <1>2 DEF Held
<1>8. CASE UNCHANGED <<entries, freePrefix, kv, hit, src>>
  <2>1. ToCopy' = ToCopy
    BY <1>2, <1>8 DEF ToCopy
  <2> QED BY <1>2, <1>7, <1>8, <2>1, QuietKeepsKV
<1>9. PICK tokens : tokens = SubSeq(Prompt[CHOOSE r \in todo : TRUE], 1, n)
  OBVIOUS
<1>10. PICK pin : pin = mode.pin
  OBVIOUS
<1>11. ASSUME NEW choice \in PrefixRowChoices(pin), StoreCommon(tokens, choice),
              hit' = [r \in Requests |-> IF r \in todo THEN n ELSE hit[r]],
              src' = [r \in Requests |-> IF r \in todo THEN choice.row ELSE src[r]]
       PROVE  KVInv'
  <2>1. /\ Stores(pin, choice, tokens, choice.row, TRUE)
        /\ DOMAIN kv' = Rows
        /\ \A v \in Rows : v = choice.row \/ v \in freePrefix' \/ kv'[v] = kv[v]
        /\ HoldsPrefix(kv'[choice.row], tokens)
        /\ choice.row \in EntryRows'
        /\ \A r \in todo : HasKV(kv'[choice.row], r, n)
    BY <1>2, <1>4, <1>9, <1>11, CommonHeld
  <2>2. SourcesHold'
    <3> SUFFICES ASSUME NEW r \in ToCopy' PROVE src'[r] \in EntryRows' /\ HasKV(kv'[src'[r]], r, hit'[r])
      BY DEF SourcesHold, HasKV, Cell
    <3>1. r \in todo /\ r \in Requests
      BY <1>3, <1>6
    <3>2. src'[r] = choice.row /\ hit'[r] = n
      BY <1>11, <3>1
    <3> QED BY <2>1, <3>1, <3>2
  <2>3. \A r \in Held' \ ToCopy' : r \in Held \ ToCopy /\ seq'[r] = seq[r] /\ row'[r] = row[r]
    BY <1>2, <1>6, <1>7
  <2> QED BY <2>1, <2>2, <2>3, KVStored
<1>12. \/ UNCHANGED <<entries, freePrefix, kv, hit, src>>
       \/ \E choice \in PrefixRowChoices(pin) :
            /\ StoreCommon(tokens, choice)
            /\ hit' = [r \in Requests |-> IF r \in todo THEN n ELSE hit[r]]
            /\ src' = [r \in Requests |-> IF r \in todo THEN choice.row ELSE src[r]]
  BY <1>1, <1>9, <1>10 DEF PrefillCommon
<1> QED BY <1>8, <1>11, <1>12

LEMMA PrepareCommonKeepsKV == ASSUME DenseInv, ServeInv, KVInv, todo # {}, PrepareCommon PROVE KVInv'
<1>1. PICK n : n = Min({SharedPrompts(todo)} \cup {Len(Prompt[r]) - 1 : r \in todo})
  OBVIOUS
<1>2. pc = "prepare" /\ UNCHANGED <<phase, row, seq, hit, src, todo>>
  BY DEF PrepareCommon, request
<1>3. n \in Nat /\ n <= SharedPrompts(todo)
  BY <1>1, PreparedLength DEF DenseInv, Types
<1>4. ToCopy = {} /\ ToCopy' = {}
  <2>1. /\ In("admitted") = todo /\ \A r \in todo : hit[r] = 0
        /\ \A r \in In("prefilling") : hit[r] < seq[r]
    BY <1>2 DEF ServeInv, Stages, Passing
  <2>2. \A r \in Requests : hit[r] \in Nat /\ seq[r] \in Nat
    BY DEF ServeInv, Counters
  <2>3. ToCopy = {}
    BY <2>1, <2>2 DEF ToCopy, In
  <2>4. ToCopy' = ToCopy
    BY <1>2 DEF ToCopy
  <2> QED BY <2>3, <2>4
<1>5. Held' = Held
  BY <1>2 DEF Held
<1>6. CASE UNCHANGED <<entries, freePrefix, kv>>
  BY <1>2, <1>4, <1>5, <1>6, QuietKeepsKV
<1>7. PICK tokens : tokens = SubSeq(Prompt[CHOOSE r \in todo : TRUE], 1, n)
  OBVIOUS
<1>8. PICK pin : pin = mode.pin
  OBVIOUS
<1>9. ASSUME NEW choice \in PrefixRowChoices(pin), StoreCommon(tokens, choice) PROVE KVInv'
  <2>1. /\ Stores(pin, choice, tokens, choice.row, TRUE)
        /\ DOMAIN kv' = Rows
        /\ \A v \in Rows : v = choice.row \/ v \in freePrefix' \/ kv'[v] = kv[v]
        /\ HoldsPrefix(kv'[choice.row], tokens)
    BY <1>3, <1>7, <1>9, CommonHeld
  <2>2. SourcesHold'
    BY <1>4 DEF SourcesHold
  <2>3. \A r \in Held' \ ToCopy' : r \in Held \ ToCopy /\ seq'[r] = seq[r] /\ row'[r] = row[r]
    BY <1>2, <1>4, <1>5
  <2> QED BY <2>1, <2>2, <2>3, KVStored
<1>10. \/ UNCHANGED <<entries, freePrefix, kv>>
       \/ \E choice \in PrefixRowChoices(pin) : StoreCommon(tokens, choice)
  BY <1>1, <1>7, <1>8 DEF PrepareCommon
<1> QED BY <1>6, <1>9, <1>10

\* A chunked request gets its row at the moment of its lookup.
LEMMA TakeRowKeepsKV == ASSUME DenseInv, ServeInv, KVInv, NEW r \in Requests, TakeRow(r) PROVE KVInv'
<1>1. CASE freeActive = {}
  BY <1>1, QuietSteps DEF TakeRow
<1>2. CASE freeActive # {}
  <2>1. PICK f \in ActiveRowsFor({r}) :
          row' = [row EXCEPT ![r] = f[r]] /\ kv' = [kv EXCEPT ![f[r]] = Blank]
    BY <1>2 DEF TakeRow
  <2>0. PICK found \in Hits(Prompt[r], FALSE) :
          /\ hit' = [hit EXCEPT ![r] = found.tokens]
          /\ src' = [src EXCEPT ![r] = found.row]
          /\ seq' = [seq EXCEPT ![r] = found.tokens]
    BY <1>2 DEF TakeRow
  <2>2. /\ phase' = [phase EXCEPT ![r] = "prefilling"]
        /\ entries' = entries /\ pc = "take" /\ r \in todo
    BY <1>2 DEF TakeRow
  <2>3. PICK w : w = f[r]
    OBVIOUS
  <2>4. w \in freeActive /\ w \in Rows /\ w \notin EntryRows
    BY <2>3 DEF ActiveRowsFor, DenseInv, Partition, ActiveSide, PrefixSide
  <2>5. kv' = [kv EXCEPT ![w] = Blank] /\ row' = [row EXCEPT ![r] = w]
    BY <2>1, <2>3
  <2>6. DOMAIN kv' = Rows /\ \A v \in Rows \ {w} : kv'[v] = kv[v]
    BY <2>5 DEF KVInv
  <2>7. \A v \in EntryRows : v \in Rows /\ kv'[v] = kv[v]
    BY <2>4, <2>6, EntryRowsAre
  <2>8. EntryRows' = EntryRows
    BY <2>2 DEF EntryRows
  <2>9. found.tokens \in Nat
    BY LookupFacts DEF ServeInv
  <2>10. PICK n \in Nat : n = found.tokens
    BY <2>9
  <2>11. /\ hit'[r] = n /\ seq'[r] = n /\ src'[r] = found.row /\ phase'[r] = "prefilling"
         /\ \A q \in Requests \ {r} : /\ hit'[q] = hit[q] /\ seq'[q] = seq[q] /\ src'[q] = src[q]
                                      /\ phase'[q] = phase[q] /\ row'[q] = row[q]
    BY <2>0, <2>2, <2>5, <2>10 DEF ServeInv, Counters, DenseInv, Types
  <2>12. \A q \in Requests \ {r} : (q \in ToCopy' <=> q \in ToCopy) /\ (q \in Held' <=> q \in Held)
    BY <2>11 DEF ToCopy, Held
  <2>13. EntriesHold'
    <3> SUFFICES ASSUME NEW i \in DOMAIN entries
                 PROVE  HoldsPrefix(kv'[entries[i].row], entries[i].tokens)
      BY <2>2 DEF EntriesHold, HoldsPrefix
    <3>1. entries[i].row \in EntryRows
      BY DEF EntryRows, RowsOf
    <3> QED BY <2>7, <3>1 DEF KVInv, EntriesHold
  <2>14. SourcesHold'
    <3> SUFFICES ASSUME NEW q \in ToCopy' PROVE src'[q] \in EntryRows /\ HasKV(kv'[src'[q]], q, hit'[q])
      BY <2>8 DEF SourcesHold, HasKV, Cell
    <3>1. q \in Requests /\ hit'[q] > 0
      BY DEF ToCopy
    <3>2. CASE q = r
      <4>1. n > 0 /\ found.tokens > 0
        BY <2>10, <2>11, <3>1, <3>2
      <4>2. src'[r] \in EntryRows /\ HasKV(kv[src'[r]], r, n)
        BY <2>10, <2>11, <4>1, LookupHolds
      <4>3. kv'[src'[r]] = kv[src'[r]]
        BY <2>7, <4>2
      <4> QED BY <2>11, <3>2, <4>2, <4>3
    <3>3. CASE q # r
      <4>1. q \in ToCopy /\ hit'[q] = hit[q] /\ src'[q] = src[q]
        BY <2>11, <2>12, <3>1, <3>3
      <4>2. src[q] \in EntryRows /\ HasKV(kv[src[q]], q, hit[q])
        BY <4>1 DEF KVInv, SourcesHold
      <4> QED BY <2>7, <4>1, <4>2
    <3> QED BY <3>2, <3>3
  <2>15. RowsHold'
    <3> SUFFICES ASSUME NEW q \in Held' \ ToCopy' PROVE HasKV(kv'[row'[q]], q, seq'[q])
      BY DEF RowsHold, HasKV, Cell
    <3>1. q \in Requests
      BY DEF Held
    <3>2. CASE q = r
      <4>1. ~(n > 0)
        BY <2>11, <3>1, <3>2 DEF ToCopy
      <4>2. seq'[q] = 0
        BY <2>11, <3>2, <4>1
      <4> QED BY <4>2 DEF HasKV
    <3>3. CASE q # r
      <4>1. q \in Held \ ToCopy /\ seq'[q] = seq[q] /\ row'[q] = row[q]
        BY <2>11, <2>12, <3>1, <3>3
      <4>2. row[q] \in Rows /\ row[q] \notin freeActive
        BY <4>1, HeldRowsAre
      <4>3. kv'[row[q]] = kv[row[q]]
        BY <2>4, <2>6, <4>2
      <4> QED BY <4>1, <4>3 DEF KVInv, RowsHold
    <3> QED BY <3>2, <3>3
  <2>16. Rows' = Rows
    BY DEF Rows
  <2> QED BY <2>6, <2>13, <2>14, <2>15, <2>16 DEF KVInv
<1> QED BY <1>1, <1>2

LEMMA KVInvInit == Init => KVInv
<1> SUFFICES ASSUME Init PROVE KVInv
  OBVIOUS
<1>1. DOMAIN kv = Rows /\ entries = << >> /\ phase = [r \in Requests |-> "new"]
  BY DEF Init, RowsInit
<1>2. Held = {} /\ ToCopy = {}
  BY <1>1 DEF Held, Holding, ToCopy
<1>3. DOMAIN entries = {}
  BY <1>1
<1> QED BY <1>1, <1>2, <1>3 DEF KVInv, EntriesHold, SourcesHold, RowsHold

LEMMA KVInvNext == SoundModes /\ DenseInv /\ Batched /\ ServeInv /\ KVInv /\ [Next]_vars => KVInv'
<1> SUFFICES ASSUME SoundModes, DenseInv, Batched, ServeInv, KVInv, [Next]_vars PROVE KVInv'
  OBVIOUS
<1>1. ASSUME \/ \E r \in Requests : Submit(r)
             \/ StartStep \/ Decide \/ Filter \/ DecodeDone \/ AdvanceDone \/ StartBurst \/ BurstDone
             \/ AdmitNone \/ PrefillDone \/ TakeDone \/ Release \/ UNCHANGED vars
      PROVE  KVInv'
  BY <1>1, QuietSteps
<1>2. ASSUME NEW r \in Requests, Retire(r) \/ Store(r) \/ TakeRow(r) PROVE KVInv'
  BY <1>2, RetireKeepsKV, StoreKeepsKV, TakeRowKeepsKV
<1>3. ASSUME PrefillCommon \/ PrepareCommon PROVE KVInv'
  BY <1>3, PrefillCommonKeepsKV, PrepareCommonKeepsKV DEF Batched, PrepareCommon
<1>4. ASSUME NEW G \in SUBSET todo, NEW stops \in SUBSET G, NEW pads \in PadRows,
             DecodeGroup(G, stops, pads) \/ ChunkGroup(G, stops, pads)
      PROVE  KVInv'
  BY <1>4, DecodeKeepsKV, ChunkKeepsKV
<1>5. ASSUME NEW G \in SUBSET todo, NEW stops \in SUBSET G, NEW pads \in PadRows,
             PrefillPrefixGroup(G, stops, pads) \/ PrefillPlainGroup(G, stops, pads)
      PROVE  KVInv'
  BY <1>5, FillKeepsKV DEF PrefillPrefixGroup, PrefillPlainGroup
<1>6. ASSUME NEW stops \in SUBSET todo, NEW pads \in PadRows, BurstStep(stops, pads) PROVE KVInv'
  BY <1>6, BurstKeepsKV
<1>7. ASSUME NEW batch \in SUBSET In("waiting"), Admit(batch) PROVE KVInv'
  BY <1>7, AdmitKeepsKV
<1> HIDE DEF SoundModes
<1>8. ASSUME Step PROVE KVInv'
  BY <1>8, <1>1, <1>2, <1>3, <1>4, <1>5, <1>6, <1>7 DEF Step
<1> QED BY <1>1, <1>8 DEF Next

\* In the engines of SoundModes (whole prompts stored for pinned prefixes or one request
\* a step, no adoption while prompts are prefilled in chunks) every reusable prefix's row
\* holds the KV of exactly its tokens, and every request attends to the KV of its own
\* tokens only, from its lookup on.
THEOREM DenseKVMatches == ASSUME SoundModes PROVE Spec => []KVMatches
<1>1. DenseInv /\ ServeInv /\ KVInv => KVMatches
  <2> SUFFICES ASSUME DenseInv, ServeInv, KVInv PROVE KVMatches
    OBVIOUS
  <2>1. \A i \in DOMAIN entries : HoldsPrefix(kv[entries[i].row], entries[i].tokens)
    BY DEF KVInv, EntriesHold
  <2>2. ASSUME NEW r \in Requests, phase[r] \in {"admitted", "filled", "prefilling", "active"},
               NEW i \in 1..Filled(r)
        PROVE  kv[Source(r)][i] = TokensOf(r)[i]
    <3>1. /\ seq[r] \in Nat /\ hit[r] \in Nat /\ gen[r] \in Nat /\ Len(Prompt[r]) \in Nat /\ Fits(r)
      BY Budgets DEF ServeInv, Counters, Progress
    <3>2. Filled(r) \in Nat /\ Filled(r) <= Len(Prompt[r]) + gen[r]
      <4>1. CASE phase[r] = "admitted"
        BY <3>1, <4>1 DEF Filled, Fits
      <4>2. CASE phase[r] = "prefilling"
        BY <3>1, <4>2 DEF Filled, Fits
      <4>3. CASE phase[r] \in {"filled", "active"}
        BY <3>1, <4>3 DEF Filled, Fits, Running
      <4> QED BY <2>2, <4>1, <4>2, <4>3
    <3>3. HasKV(kv[Source(r)], r, Filled(r))
      <4>1. CASE r \in ToCopy
        <5>1. Source(r) = src[r] /\ Filled(r) = hit[r]
          BY <4>1 DEF ToCopy, Source, Filled
        <5> QED BY <4>1, <5>1 DEF KVInv, SourcesHold
      <4>2. CASE r \notin ToCopy /\ r \in Held /\ ~(phase[r] = "prefilling" /\ seq[r] = hit[r])
        <5>1. Source(r) = row[r] /\ Filled(r) = seq[r]
          BY <2>2, <4>2 DEF Held, Holding, Source, Filled
        <5> QED BY <4>2, <5>1 DEF KVInv, RowsHold
      <4>3. CASE r \notin ToCopy /\ (phase[r] = "admitted" \/ (phase[r] = "prefilling" /\ seq[r] = hit[r]))
        <5>1. Filled(r) = hit[r] /\ ~(hit[r] > 0)
          BY <4>3 DEF ToCopy, Filled
        <5>2. Filled(r) = 0
          BY <3>1, <5>1
        <5> QED BY <5>2 DEF HasKV
      <4>4. r \in Held \/ phase[r] = "admitted"
        BY <2>2 DEF Held, Holding
      <4> QED BY <4>1, <4>2, <4>3, <4>4
    <3>4. kv[Source(r)][i] = Cell(r, i)
      BY <3>3 DEF HasKV
    <3>5. i \in 1..Len(Prompt[r]) + gen[r]
      BY <3>1, <3>2
    <3>6. TokensOf(r)[i] = Cell(r, i)
      BY <3>5, TokensAre DEF ServeInv
    <3> QED BY <3>4, <3>6
  <2> QED BY <2>1, <2>2 DEF KVMatches
<1>2. DenseInv /\ Batched /\ ServeInv /\ KVInv /\ [Next]_vars => KVInv'
  BY KVInvNext
<1>3. Spec => []KVInv
  BY <1>2, KVInvInit, ServeAlways, PTL DEF Spec
<1> QED BY <1>1, <1>3, ServeAlways, PTL
=============================================================================
