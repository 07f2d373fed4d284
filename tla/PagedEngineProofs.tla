------------------------- MODULE PagedEngineProofs -------------------------
(***************************************************************************)
(* The paged engine drives its page pool only through the operations of    *)
(* the pool, never runs out of pages where admission promised them, and no *)
(* request reads or overwrites KV that is not its own: for every pool,     *)
(* page size, capacity of the prefix cache, set of prompts and choice of   *)
(* flags.                                                                  *)
(***************************************************************************)
EXTENDS PagedEngine, PrefillWaveProofs

-----------------------------------------------------------------------------
(* The inductive invariant *)

Retirement == {"remember", "evict", "free"}

\* The groups of an admitted wave are being prefilled.
InWave == pc \in {"prefill", "pad", "settle"} \/ (pc \in Retirement /\ padTo > 0)

\* What can be going on at each point of the step.
Phases ==
  /\ retiring # 0 <=> pc \in Retirement
  /\ admitted # << >> => InWave \/ pc \in {"admit", "reserve", "failed"}
  /\ groups # << >> => InWave \/ pc = "failed"
  /\ settling # << >> => padTo > 0
  /\ padTo > 0 => pc \in {"pad", "settle", "failed"} \cup Retirement
  /\ emitting # << >> => pc = "emit" \/ (pc \in Retirement /\ padTo = 0)
  /\ pc = "reserve" => admitted # << >>
  /\ pc = "prefill" => groups # << >>
  /\ pc \in {"pad", "settle"} => padTo > 0

\* A live request is in one place, and is one of those admitted.
Placed ==
  /\ admitted \in Seq(Rids) /\ settling \in Seq(Rids) /\ active \in Seq(Rids) /\ emitting \in Seq(Rids)
  /\ IsInjective(admitted) /\ IsInjective(settling) /\ IsInjective(active) /\ IsInjective(emitting)
  /\ Disjoint(Range(admitted), Range(settling)) /\ Disjoint(Range(admitted), Range(active))
  /\ Disjoint(Range(admitted), Range(emitting)) /\ Disjoint(Range(settling), Range(active))
  /\ Disjoint(Range(settling), Range(emitting)) /\ Disjoint(Range(active), Range(emitting))
  /\ retiring \in Rids \cup {0}
  /\ retiring \notin Range(admitted) \cup Range(settling) \cup Range(active) \cup Range(emitting)
  /\ \A r \in Live : r < nextRid
  /\ nextRid + Len(pending) <= submitted + 1

\* What the engine keeps of a live request.
Requests ==
  /\ \A i \in DOMAIN pending : pending[i].ext \in 1..submitted
  /\ \A r \in Live : /\ req[r].ext \in 1..submitted /\ req[r].prompt \in Prompts /\ req[r].maxNew \in MaxNews
                     /\ req[r].shared % PageSize = 0 /\ req[r].shared < Len(req[r].prompt)
                     /\ Capacity = 0 => req[r].shared = 0
  /\ \A r \in Range(admitted) \cup Range(settling) : req[r].gen = << >>
  /\ \A r \in Range(active) \cup Range(emitting) : req[r].gen # << >> /\ Len(req[r].gen) < req[r].maxNew
  /\ retiring # 0 => req[retiring].gen # << >> /\ Len(req[retiring].gen) <= req[retiring].maxNew
  /\ \A r \in Rids : verified[r] # << >> => r \in Range(emitting)

\* An entry of the cache is of a request that is over; its pages hold its tokens.
Cached ==
  /\ IsInjective(order) /\ IsInjective(lru) /\ Range(order) = Range(lru)
  /\ Capacity = 0 => order = << >>
  /\ \A e \in Range(order) : e < nextRid /\ (e \in Live => e = retiring /\ pc \in {"evict", "free"})
  /\ \A e \in Rids : Len(entries[e]) = Len(table[KeptBy(e)]) * PageSize
  /\ \A e \in Rids : e \in Range(order) <=> table[KeptBy(e)] # << >>
  /\ Capacity > 0 => \A r \in Rids : r >= nextRid => table[TableOf(r)] = << >>

\* The table of a live request covers all it may generate, or is about to.
Covered ==
  /\ \A r \in Live : \/ Ceil(Len(req[r].prompt) + req[r].maxNew) <= Len(table[TableOf(r)])
                     \/ pc = "reserve" /\ r = Last(admitted)
  /\ pc = "reserve" => LET r == Last(admitted)
                       IN Ceil(Len(req[r].prompt) + req[r].maxNew) <= Cardinality(free)

\* What the group in hand still has to reserve for its padding.
Short == UNION {{r} \X (Len(table[TableOf(r)]) + 1 .. Ceil(req[r].shared + padTo)) : r \in Range(settling)}

\* The rest of the plan is a plan of the rest of the wave, and its pages are free.
Planned ==
  /\ InWave => Grouping({RowOf(r) : r \in Range(admitted)}, groups)
  /\ pc = "pad" => \A r \in Range(settling) : /\ req[r].shared + padTo <= MaxSeq
                                              /\ Len(req[r].prompt) <= req[r].shared + padTo
  /\ InWave => Cardinality(LackingAll(groups) \cup IF pc = "pad" THEN Short ELSE {}) <= Cardinality(free)

-----------------------------------------------------------------------------
\* The owners of pages that somebody will read, and the tokens they stand for.
Holders == {TableOf(r) : r \in Live} \cup {KeptBy(e) : e \in Range(order)}
Told == [o \in Owners |-> IF o[1] = "seq" THEN ToksOf(o[2]) ELSE entries[o[2]]]

SamePrefix(s, t, n) == n <= Len(s) /\ n <= Len(t) /\ \A i \in 1..n : s[i] = t[i]

\* Two holders share pages from the front, and as far as they do their tokens agree.
Agreement(tab, told, H) ==
  \A o, q \in H : o # q =>
    \A k \in DOMAIN tab[o], l \in DOMAIN tab[q] :
      tab[o][k] = tab[q][l] => k = l /\ SamePrefix(told[o], told[q], k * PageSize)

\* The pages of o past the first n tokens are of nobody else.
Private(tab, o, n) ==
  \A k \in DOMAIN tab[o] : k * PageSize > n => \A q \in Owners \ {o} : tab[o][k] \notin Range(tab[q])

\* Without the prefix cache no page has two owners.
NoSharing == Capacity = 0 => \A o, q \in Owners : o # q => Disjoint(Range(table[o]), Range(table[q]))

Sharing ==
  /\ NoSharing
  /\ Agreement(table, Told, Holders)
  /\ \A r \in Live \ {retiring} : Private(table, TableOf(r), Len(req[r].prompt))

\* What r is about to be given is counted as its own.
Plus(r) == ToksOf(r) \o verified[r]

\* The slot of position i of owner o.
SlotOf(k, tab, o, i) == k[tab[o][i \div PageSize + 1]][i % PageSize]

\* A slot holds the KV of these tokens, or of none.
Own(v, toks, i) == v = << >> \/ (i < Len(toks) /\ v = Prefix(toks, i))

CleanKV ==
  Capacity > 0 =>
    /\ \A r \in Live \ {retiring} : \A i \in 0..Len(table[TableOf(r)]) * PageSize - 1 :
         Own(SlotOf(kv, table, TableOf(r), i), Plus(r), i)
    /\ retiring # 0 =>
         \A i \in 0..Len(table[TableOf(retiring)]) * PageSize - 1 :
           i < Len(ToksOf(retiring)) => Own(SlotOf(kv, table, TableOf(retiring), i), ToksOf(retiring), i)
    /\ \A e \in Range(order) : \A i \in 0..Len(entries[e]) - 1 :
         Own(SlotOf(kv, table, KeptBy(e), i), entries[e], i)

\* How far the KV of r is complete.
Done(r) ==
  IF r \in Range(admitted) \/ (r \in Range(settling) /\ pc \in {"pad", "failed"}) THEN 0
  ELSE IF r \in Range(settling) \/ (r \in Range(emitting) /\ verified[r] = << >>) THEN Len(ToksOf(r))
  ELSE Len(Plus(r)) - 1

ExactKV ==
  Capacity = 0 =>
    \A r \in Live : \A i \in 0..Done(r) - 1 : SlotOf(kv, table, TableOf(r), i) = Prefix(Plus(r), i)

EngineInv ==
  /\ TypeOK /\ Pool!PoolInv /\ Phases /\ Placed /\ Requests /\ Cached /\ Covered /\ Planned
  /\ Sharing /\ CleanKV /\ ExactKV

-----------------------------------------------------------------------------
(* Sequences *)

LEMMA HeadTail ==
  ASSUME NEW S, NEW s \in Seq(S), s # << >>
  PROVE  /\ Head(s) \in S /\ Head(s) \in Range(s) /\ Tail(s) \in Seq(S)
         /\ Range(s) = Range(Tail(s)) \cup {Head(s)}
         /\ Len(Tail(s)) = Len(s) - 1 /\ Len(s) \in Nat \ {0}
         /\ IsInjective(s) => IsInjective(Tail(s)) /\ Head(s) \notin Range(Tail(s))
  <1>1. /\ Len(s) \in Nat \ {0} /\ DOMAIN s = 1..Len(s) /\ Head(s) = s[1]
        /\ Tail(s) \in Seq(S) /\ DOMAIN Tail(s) = 1..(Len(s) - 1) /\ Len(Tail(s)) = Len(s) - 1
        /\ \A i \in 1..(Len(s) - 1) : Tail(s)[i] = s[i + 1]
    OBVIOUS
  <1> DEFINE t == Tail(s)
             h == Head(s)
  <1>2. /\ DOMAIN t = 1..(Len(s) - 1) /\ \A i \in 1..(Len(s) - 1) : t[i] = s[i + 1]
        /\ h = s[1]
    BY <1>1
  <1> HIDE DEF t, h
  <1>3. h \in Range(s) /\ h \in S
    BY <1>1, <1>2 DEF Range
  <1>4. ASSUME NEW x \in Range(s)
        PROVE  x \in Range(t) \cup {h}
    <2>1. PICK i \in 1..Len(s) : x = s[i]
      BY <1>1 DEF Range
    <2>2. CASE i = 1
      BY <1>2, <2>1, <2>2
    <2>3. CASE i # 1
      <3>1. i - 1 \in 1..(Len(s) - 1) /\ t[i - 1] = s[i]
        BY <1>1, <1>2, <2>3
      <3>2. QED
        BY <1>2, <2>1, <3>1 DEF Range
    <2>4. QED
      BY <2>2, <2>3
  <1>5. ASSUME NEW x \in Range(t)
        PROVE  x \in Range(s)
    <2>1. PICK i \in 1..(Len(s) - 1) : x = t[i]
      BY <1>2 DEF Range
    <2>2. i + 1 \in DOMAIN s /\ x = s[i + 1]
      BY <1>1, <1>2, <2>1
    <2>3. QED
      BY <2>2 DEF Range
  <1>6. ASSUME IsInjective(s)
        PROVE  IsInjective(t) /\ h \notin Range(t)
    <2>1. ASSUME NEW i \in DOMAIN t, NEW j \in DOMAIN t, t[i] = t[j]
          PROVE  i = j
      <3>1. i + 1 \in DOMAIN s /\ j + 1 \in DOMAIN s /\ s[i + 1] = s[j + 1]
        BY <1>1, <1>2, <2>1
      <3>2. i + 1 = j + 1
        BY <1>6, <3>1 DEF IsInjective
      <3>3. QED
        BY <1>2, <3>2
    <2>2. ASSUME NEW i \in DOMAIN t
          PROVE  t[i] # h
      <3>1. i + 1 \in DOMAIN s /\ 1 \in DOMAIN s /\ i + 1 # 1 /\ t[i] = s[i + 1]
        BY <1>1, <1>2
      <3>2. QED
        BY <1>2, <1>6, <3>1 DEF IsInjective
    <2>3. QED
      BY <2>1, <2>2 DEF IsInjective, Range
  <1>7. Range(s) = Range(t) \cup {h}
    BY <1>3, <1>4, <1>5
  <1>8. QED
    BY <1>1, <1>3, <1>6, <1>7 DEF t, h

LEMMA AppendOne ==
  ASSUME NEW S, NEW s \in Seq(S), NEW x \in S
  PROVE  /\ Append(s, x) \in Seq(S) /\ Append(s, x) # << >> /\ Range(Append(s, x)) = Range(s) \cup {x}
         /\ IsInjective(s) /\ x \notin Range(s) => IsInjective(Append(s, x))
  <1> DEFINE t == Append(s, x)
  <1>1. /\ Len(s) \in Nat /\ DOMAIN s = 1..Len(s) /\ t \in Seq(S) /\ DOMAIN t = 1..(Len(s) + 1)
        /\ t[Len(s) + 1] = x /\ \A i \in 1..Len(s) : t[i] = s[i]
    OBVIOUS
  <1> HIDE DEF t
  <1>2. \A y \in Range(t) : y \in Range(s) \cup {x}
    <2> SUFFICES ASSUME NEW i \in DOMAIN t PROVE t[i] \in Range(s) \cup {x}
      BY DEF Range
    <2>1. CASE i \in 1..Len(s)
      BY <1>1, <2>1 DEF Range
    <2>2. CASE i \notin 1..Len(s)
      BY <1>1, <2>2
    <2>3. QED
      BY <2>1, <2>2
  <1>3. \A y \in Range(s) : y \in Range(t)
    <2> SUFFICES ASSUME NEW i \in DOMAIN s PROVE s[i] \in Range(t)
      BY DEF Range
    <2>1. i \in DOMAIN t /\ t[i] = s[i]
      BY <1>1
    <2>2. QED
      BY <2>1 DEF Range
  <1>4. x \in Range(t)
    <2>1. Len(s) + 1 \in DOMAIN t
      BY <1>1
    <2>2. QED
      BY <1>1, <2>1 DEF Range
  <1>5. ASSUME IsInjective(s), x \notin Range(s), NEW i \in DOMAIN t, NEW j \in DOMAIN t, t[i] = t[j]
        PROVE  i = j
    <2>1. CASE i \in 1..Len(s) /\ j \in 1..Len(s)
      BY <1>1, <1>5, <2>1 DEF IsInjective
    <2>2. CASE i \in 1..Len(s) /\ j \notin 1..Len(s)
      BY <1>1, <1>5, <2>2 DEF Range
    <2>3. CASE i \notin 1..Len(s) /\ j \in 1..Len(s)
      BY <1>1, <1>5, <2>3 DEF Range
    <2>4. CASE i \notin 1..Len(s) /\ j \notin 1..Len(s)
      BY <1>1, <2>4
    <2>5. QED
      BY <2>1, <2>2, <2>3, <2>4
  <1>6. Range(t) = Range(s) \cup {x}
    BY <1>2, <1>3, <1>4
  <1>7. t # << >>
    BY <1>1
  <1>8. QED
    BY <1>1, <1>5, <1>6, <1>7 DEF t, IsInjective

LEMMA WithoutFacts ==
  ASSUME NEW S, NEW s \in Seq(S), NEW e
  PROVE  /\ Without(s, e) \in Seq(S) /\ Range(Without(s, e)) = Range(s) \ {e}
         /\ IsInjective(s) => IsInjective(Without(s, e))
  <1> DEFINE I == {i \in DOMAIN s : s[i] # e}
  <1>1. I \in SUBSET DOMAIN s
    OBVIOUS
  <1>2. /\ Subsequence(s, I) \in Seq(S) /\ Range(Subsequence(s, I)) = {s[i] : i \in I}
        /\ IsInjective(s) => IsInjective(Subsequence(s, I))
    BY <1>1, SubsequenceRange
  <1>3. {s[i] : i \in I} = Range(s) \ {e}
    BY DEF Range
  <1>4. QED
    BY <1>2, <1>3 DEF Without

LEMMA EmptyRange == Range(<< >>) = {} /\ IsInjective(<< >>)
  BY DEF Range, IsInjective

\* A sequence that lists nothing is empty.
LEMMA NothingListed ==
  ASSUME NEW S, NEW s \in Seq(S), Range(s) = {}
  PROVE  s = << >>
  <1>1. s # << >> => Head(s) \in Range(s)
    BY HeadTail
  <1>2. QED
    BY <1>1

\* The last element of a sequence.
LEMMA LastFacts ==
  ASSUME NEW S, NEW s \in Seq(S), s # << >>
  PROVE  Last(s) \in Range(s) /\ Last(s) \in S
  <1>1. Len(s) \in Nat \ {0} /\ Len(s) \in DOMAIN s
    OBVIOUS
  <1>2. QED
    BY <1>1 DEF Last, Range

LEMMA LastAppended ==
  ASSUME NEW S, NEW s \in Seq(S), NEW x \in S
  PROVE  Last(Append(s, x)) = x
  BY DEF Last

-----------------------------------------------------------------------------
(* Owners *)

LEMMA OwnerFacts ==
  \A r \in Rids : /\ TableOf(r) \in Owners /\ KeptBy(r) \in Owners
                  /\ \A s \in Rids : /\ TableOf(r) = TableOf(s) <=> r = s
                                     /\ KeptBy(r) = KeptBy(s) <=> r = s
                                     /\ TableOf(r) # KeptBy(s)
  BY DEF Owners, TableOf, KeptBy

LEMMA OwnersFinite == IsFiniteSet(Rids) /\ IsFiniteSet(Owners)
  <1>1. IsFiniteSet(Rids)
    BY EngineAssumption, FS_Interval DEF Rids
  <1> DEFINE f == [r \in Rids |-> TableOf(r)]
             g == [r \in Rids |-> KeptBy(r)]
  <1>2. IsFiniteSet(Range(f)) /\ IsFiniteSet(Range(g))
    BY <1>1, ImageFinite
  <1>3. Owners = Range(f) \cup Range(g)
    BY DEF Owners, Range
  <1>4. QED
    BY <1>1, <1>2, <1>3, FS_Union

\* The types of the pool.
LEMMA PoolTypes ==
  ASSUME TypeOK
  PROVE  /\ free \in SUBSET Pages /\ IsFiniteSet(free) /\ Cardinality(free) \in Nat
         /\ refcount \in [Pages -> Nat]
         /\ table \in [Owners -> Seq(Pages)]
         /\ \A o \in Owners : table[o] \in Seq(Pages) /\ Len(table[o]) \in Nat
                              /\ DOMAIN table[o] = 1..Len(table[o])
  <1>1. free \in SUBSET Pages /\ refcount \in [Pages -> Nat] /\ table \in [Owners -> Seq(Pages)]
    BY DEF TypeOK, Pool!TypeOK
  <1>2. IsFiniteSet(free)
    BY <1>1, EngineAssumption, FS_Subset
  <1>3. Cardinality(free) \in Nat
    BY <1>2, FS_CardinalityType
  <1>4. \A o \in Owners : table[o] \in Seq(Pages)
    BY <1>1
  <1>5. \A o \in Owners : Len(table[o]) \in Nat /\ DOMAIN table[o] = 1..Len(table[o])
    BY <1>4
  <1>6. QED
    BY <1>1, <1>2, <1>3, <1>4, <1>5

-----------------------------------------------------------------------------
(* Requests and the rows of a wave *)

\* A request a client may submit fits max_seq.
LEMMA PromptFacts ==
  ASSUME NEW p \in Prompts, NEW n \in MaxNews
  PROVE  /\ p \in Seq(Tokens) /\ p # << >> /\ Len(p) \in Nat \ {0} /\ n \in Nat \ {0}
         /\ Len(p) + n <= MaxSeq
  <1>1. p \in Seq(Tokens) /\ p # << >> /\ n \in Nat \ {0} /\ Len(p) + n <= MaxSeq
    BY EngineAssumption
  <1>2. QED
    BY <1>1

LEMMA ReqTypes ==
  ASSUME TypeOK, NEW r \in Rids
  PROVE  /\ req[r].ext \in 0..MaxRequests /\ req[r].prompt \in Seq(Tokens) /\ req[r].gen \in Seq(Tokens)
         /\ req[r].maxNew \in Nat /\ req[r].shared \in Nat
         /\ Len(req[r].prompt) \in Nat /\ Len(req[r].gen) \in Nat
         /\ ToksOf(r) \in Seq(Tokens) /\ Len(ToksOf(r)) = Len(req[r].prompt) + Len(req[r].gen)
         /\ verified[r] \in Seq(Tokens) /\ Plus(r) \in Seq(Tokens)
  <1>1. req[r] \in [ext : 0..MaxRequests, prompt : Seq(Tokens), gen : Seq(Tokens), maxNew : Nat, shared : Nat]
    BY DEF TypeOK
  <1>2. /\ req[r].ext \in 0..MaxRequests /\ req[r].prompt \in Seq(Tokens) /\ req[r].gen \in Seq(Tokens)
        /\ req[r].maxNew \in Nat /\ req[r].shared \in Nat
    BY <1>1
  <1>3. verified[r] \in Seq(Tokens)
    BY DEF TypeOK
  <1>4. ToksOf(r) \in Seq(Tokens) /\ Len(ToksOf(r)) = Len(req[r].prompt) + Len(req[r].gen)
    BY <1>2 DEF ToksOf
  <1>5. Plus(r) \in Seq(Tokens)
    BY <1>3, <1>4 DEF Plus
  <1>6. QED
    BY <1>2, <1>3, <1>4, <1>5

\* A live request, and the shape of its tokens.
LEMMA LiveFacts ==
  ASSUME TypeOK, Requests, NEW r \in Live
  PROVE  /\ r \in Rids
         /\ req[r].prompt \in Seq(Tokens) /\ Len(req[r].prompt) \in Nat \ {0}
         /\ req[r].gen \in Seq(Tokens) /\ Len(req[r].gen) \in Nat
         /\ req[r].maxNew \in Nat \ {0} /\ Len(req[r].prompt) + req[r].maxNew <= MaxSeq
         /\ req[r].shared \in Nat /\ req[r].shared < Len(req[r].prompt)
         /\ ToksOf(r) \in Seq(Tokens) /\ Len(ToksOf(r)) = Len(req[r].prompt) + Len(req[r].gen)
         /\ Len(req[r].gen) <= req[r].maxNew
  <1>1. r \in Rids
    BY DEF TypeOK
  <1>2. req[r].prompt \in Prompts /\ req[r].maxNew \in MaxNews /\ req[r].shared < Len(req[r].prompt)
    BY DEF Requests
  <1>3. Len(req[r].prompt) \in Nat \ {0} /\ req[r].maxNew \in Nat \ {0} /\ Len(req[r].prompt) + req[r].maxNew <= MaxSeq
    BY <1>2, PromptFacts
  <1>4. Len(req[r].gen) <= req[r].maxNew
    <2>1. CASE r \in Range(admitted) \cup Range(settling)
      <3>1. req[r].gen = << >>
        BY <2>1 DEF Requests
      <3>2. QED
        BY <1>3, <3>1
    <2>2. CASE r \in Range(active) \cup Range(emitting)
      <3>1. Len(req[r].gen) < req[r].maxNew /\ Len(req[r].gen) \in Nat
        BY <1>1, <2>2, ReqTypes DEF Requests
      <3>2. QED
        BY <1>3, <3>1
    <2>3. CASE r = retiring /\ retiring # 0
      BY <2>3 DEF Requests
    <2>4. QED
      BY <2>1, <2>2, <2>3 DEF Live
  <1>5. QED
    BY <1>1, <1>2, <1>3, <1>4, ReqTypes

\* The rows of the admitted requests, one for each.
Rows(R) == {RowOf(r) : r \in R}

LEMMA RowFacts ==
  ASSUME TypeOK, Requests, NEW r \in Live
  PROVE  /\ RowOf(r) \in RowSet /\ RowOf(r).rid = r /\ RowOf(r).shared = req[r].shared
         /\ RowOf(r).pages = Len(table[TableOf(r)])
         /\ RowOf(r).shared + RowOf(r).suffix = Len(req[r].prompt)
  <1>1. /\ r \in Rids /\ req[r].shared \in Nat /\ Len(req[r].prompt) \in Nat \ {0}
        /\ req[r].shared < Len(req[r].prompt)
    BY LiveFacts
  <1>2. r \in Nat
    BY <1>1 DEF Rids
  <1>3. Len(table[TableOf(r)]) \in Nat
    BY <1>1, PoolTypes, OwnerFacts
  <1>4. Len(req[r].prompt) - req[r].shared \in Nat \ {0}
    BY <1>1
  <1>5. RowOf(r) \in RowSet
    BY <1>1, <1>2, <1>3, <1>4 DEF RowOf, RowSet
  <1>6. req[r].shared + (Len(req[r].prompt) - req[r].shared) = Len(req[r].prompt)
    BY <1>1
  <1>7. QED
    BY <1>5, <1>6 DEF RowOf

LEMMA RowsFacts ==
  ASSUME TypeOK, Requests, NEW R \in SUBSET Live
  PROVE  Rows(R) \subseteq RowSet /\ RidsUnique(Rows(R))
  <1>1. \A r \in R : RowOf(r) \in RowSet /\ RowOf(r).rid = r
    BY RowFacts
  <1>2. QED
    BY <1>1 DEF Rows, RidsUnique

\* At the end of admission the plan of PrefillGroups is a plan of the wave.
LEMMA PlanEndAdmit ==
  ASSUME TypeOK, Placed, Requests, Covered, EndAdmit
  PROVE  /\ Grouping(Rows(Range(admitted)), groups')
         /\ Cardinality(LackingAll(groups')) <= Cardinality(free)
  <1> DEFINE rows == [i \in DOMAIN admitted |-> RowOf(admitted[i])]
  <1>1. PICK pad \in BOOLEAN, bucketed \in BOOLEAN, graph \in BOOLEAN :
           groups' = WaveGroups(rows, Cardinality(free), pad, bucketed, graph)
    BY DEF EndAdmit
  <1>2. /\ admitted \in Seq(Rids) /\ IsInjective(admitted) /\ DOMAIN admitted = 1..Len(admitted)
        /\ Len(admitted) \in Nat
    BY DEF Placed
  <1>3. \A i \in DOMAIN admitted : admitted[i] \in Live /\ admitted[i] \in Range(admitted)
    BY DEF Live, Range
  <1>4. \A i \in DOMAIN admitted : RowOf(admitted[i]) \in RowSet /\ RowOf(admitted[i]).rid = admitted[i]
    BY <1>3, RowFacts
  <1>5. rows \in Seq(RowSet)
    BY <1>2, <1>4
  <1>6. IsInjective(rows)
    BY <1>2, <1>4 DEF IsInjective
  <1>7. Range(rows) = Rows(Range(admitted))
    BY DEF Range, Rows
  <1>8. ASSUME NEW i \in DOMAIN admitted
        PROVE  Legal(RowOf(admitted[i]))
    <2> DEFINE r == admitted[i]
    <2>1. r \in Live /\ pc = "admit"
      BY <1>3 DEF EndAdmit
    <2> HIDE DEF r
    <2>2. Ceil(Len(req[r].prompt) + req[r].maxNew) <= Len(table[TableOf(r)])
      BY <2>1 DEF Covered
    <2>3. /\ r \in Rids /\ Len(req[r].prompt) \in Nat /\ req[r].maxNew \in Nat
          /\ Len(req[r].prompt) + req[r].maxNew <= MaxSeq
      BY <2>1, LiveFacts
    <2>4. Len(table[TableOf(r)]) \in Nat
      BY <2>3, PoolTypes, OwnerFacts
    <2> DEFINE m == Len(req[r].prompt)
               n == Len(req[r].prompt) + req[r].maxNew
    <2>5. Ceil(m) <= Ceil(n) /\ Ceil(m) \in Nat /\ Ceil(n) \in Nat
      <3>1. m \in Nat /\ n \in Nat /\ m <= n
        BY <2>3
      <3> HIDE DEF m, n
      <3>2. QED
        BY <3>1, CeilMonotone, CeilType
    <2>6. Ceil(Len(req[r].prompt)) <= Len(table[TableOf(r)]) /\ Len(req[r].prompt) <= MaxSeq
      BY <2>2, <2>3, <2>4, <2>5, GroupsAssumption
    <2>7. RowOf(r).shared + RowOf(r).suffix = Len(req[r].prompt) /\ RowOf(r).pages = Len(table[TableOf(r)])
      BY <2>1, RowFacts
    <2>8. Legal(RowOf(r))
      BY <2>6, <2>7 DEF Legal
    <2>9. QED
      BY <2>8 DEF r
  <1>9. \A row \in Range(rows) : Legal(row)
    BY <1>8 DEF Range
  <1>10. Cardinality(free) \in Nat
    BY PoolTypes
  <1> HIDE DEF rows
  <1>11. /\ Grouping(Range(rows), groups')
         /\ Cardinality(LackingAll(groups')) <= Cardinality(free)
    BY <1>1, <1>5, <1>6, <1>9, <1>10, WaveGrouping
  <1>12. QED
    BY <1>7, <1>11

\* Taking the next group in hand takes its requests out of the wave.
LEMMA TakeFacts ==
  ASSUME TypeOK, Placed, Requests, Planned, Phases, TakeGroup
  PROVE  /\ settling' \in Seq(Rids) /\ IsInjective(settling') /\ settling' # << >>
         /\ admitted' \in Seq(Rids) /\ IsInjective(admitted')
         /\ Range(settling') \subseteq Range(admitted)
         /\ Range(admitted') = Range(admitted) \ Range(settling')
         /\ Grouping(Rows(Range(admitted')), groups')
         /\ padTo' \in Nat /\ padTo' = Head(groups).len /\ padTo' # 0
         /\ \A r \in Range(settling') : /\ req[r].shared + padTo' <= MaxSeq
                                        /\ Len(req[r].prompt) <= req[r].shared + padTo'
                                        /\ RowOf(r) \in Range(Head(groups).rows)
         /\ \A row \in Range(Head(groups).rows) : row.rid \in Range(settling') /\ row = RowOf(row.rid)
         /\ LackingAll(groups) = Lacking(Head(groups).rows, padTo') \cup LackingAll(groups')
  <1> DEFINE g == Head(groups)
             rids == [i \in DOMAIN g.rows |-> g.rows[i].rid]
             R == Rows(Range(admitted))
             I == {i \in DOMAIN admitted : admitted[i] \notin Range(rids)}
  <1>1. /\ settling' = rids /\ padTo' = g.len /\ groups' = Tail(groups)
        /\ admitted' = Subsequence(admitted, I) /\ pc = "prefill"
    BY DEF TakeGroup
  <1>2. groups # << >> /\ Grouping(R, groups)
    BY <1>1 DEF Phases, Planned, InWave, Rows
  <1>3. Range(admitted) \in SUBSET Live
    BY DEF Live
  <1>4. R \in SUBSET RowSet /\ RidsUnique(R)
    BY <1>3, RowsFacts
  <1>5. /\ g \in GroupSet /\ Range(g.rows) \subseteq R /\ Grouping(R \ Range(g.rows), Tail(groups))
        /\ LackingAll(groups) = Lacking(g.rows, g.len) \cup LackingAll(Tail(groups))
    BY <1>2, <1>4, TailGrouping
  <1>6. g.rows \in Seq(RowSet) /\ g.len \in Nat /\ g.padded \in BOOLEAN
    BY <1>5 DEF GroupSet
  <1>7. IsInjective(g.rows) /\ g.rows # << >> /\ ShapeOf(g)
    <2>1. groups \in Seq(GroupSet) /\ 1 \in DOMAIN groups /\ groups[1] = g
      BY <1>2 DEF Grouping
    <2>2. QED
      BY <1>2, <2>1 DEF Grouping
  <1>8. /\ DOMAIN g.rows = 1..Len(g.rows) /\ Len(g.rows) \in Nat \ {0}
        /\ \A i \in DOMAIN g.rows : g.rows[i] \in Range(g.rows) /\ g.rows[i] \in R
    <2>1. \A i \in DOMAIN g.rows : g.rows[i] \in Range(g.rows)
      BY DEF Range
    <2>2. QED
      BY <1>5, <1>6, <1>7, <2>1
  <1>9. \A row \in R : row.rid \in Range(admitted) /\ row = RowOf(row.rid)
    BY <1>3, RowFacts DEF Rows
  <1>10. Range(admitted) \subseteq Rids
    BY <1>3 DEF TypeOK
  <1>11. rids \in Seq(Rids) /\ rids # << >>
    <2>1. \A i \in DOMAIN g.rows : g.rows[i].rid \in Rids
      BY <1>8, <1>9, <1>10
    <2>2. rids \in [1..Len(g.rows) -> Rids]
      BY <1>8, <2>1
    <2>3. rids \in Seq(Rids)
      BY <1>8, <2>2
    <2>4. DOMAIN rids = DOMAIN g.rows
      OBVIOUS
    <2>5. 1 \in DOMAIN rids
      BY <1>8, <2>4
    <2>6. QED
      BY <2>3, <2>5
  <1>12. IsInjective(rids)
    BY <1>4, <1>7, <1>8 DEF IsInjective, RidsUnique
  <1>13. Range(rids) \subseteq Range(admitted)
    BY <1>8, <1>9 DEF Range
  <1>14. \A row \in Range(g.rows) : row.rid \in Range(rids)
    BY DEF Range
  <1>15. \A r \in Range(rids) : RowOf(r) \in Range(g.rows)
    <2> SUFFICES ASSUME NEW i \in DOMAIN g.rows
                 PROVE  RowOf(g.rows[i].rid) \in Range(g.rows)
      BY DEF Range
    <2>1. QED
      BY <1>8, <1>9
  <1> HIDE DEF g, rids
  <1>16. admitted \in Seq(Rids) /\ IsInjective(admitted)
    BY DEF Placed
  <1>17. /\ admitted' \in Seq(Rids) /\ IsInjective(admitted')
         /\ Range(admitted') = Range(admitted) \ Range(rids)
    <2>1. I \in SUBSET DOMAIN admitted
      OBVIOUS
    <2>2. /\ Subsequence(admitted, I) \in Seq(Rids) /\ Range(Subsequence(admitted, I)) = {admitted[i] : i \in I}
          /\ IsInjective(admitted) => IsInjective(Subsequence(admitted, I))
      BY <1>16, <2>1, SubsequenceRange
    <2>3. {admitted[i] : i \in I} = Range(admitted) \ Range(rids)
      BY DEF Range
    <2>4. QED
      BY <1>1, <1>16, <2>2, <2>3
  <1> HIDE DEF I
  <1>18. Rows(Range(admitted')) = R \ Range(g.rows)
    <2>1. \A r \in Range(admitted) \ Range(rids) : RowOf(r) \in R /\ RowOf(r) \notin Range(g.rows)
      <3> SUFFICES ASSUME NEW r \in Range(admitted), r \notin Range(rids)
                   PROVE  RowOf(r) \in R /\ RowOf(r) \notin Range(g.rows)
        OBVIOUS
      <3>1. RowOf(r).rid = r
        BY <1>3, RowFacts
      <3>2. QED
        BY <1>14, <3>1 DEF Rows
    <2>2. ASSUME NEW row \in R, row \notin Range(g.rows)
          PROVE  row \in Rows(Range(admitted'))
      <3>1. row.rid \in Range(admitted) /\ row = RowOf(row.rid)
        BY <1>9
      <3>2. row.rid \notin Range(rids)
        BY <1>15, <2>2, <3>1
      <3>3. QED
        BY <1>17, <3>1, <3>2 DEF Rows
    <2>3. \A row \in Rows(Range(admitted')) : row \in R \ Range(g.rows)
      BY <1>17, <2>1 DEF Rows
    <2>4. QED
      BY <2>2, <2>3
  <1>19. ASSUME NEW r \in Range(rids)
         PROVE  /\ req[r].shared + padTo' <= MaxSeq
                /\ Len(req[r].prompt) <= req[r].shared + padTo'
                /\ padTo' # 0
    <2>1. r \in Live /\ RowOf(r) \in Range(g.rows)
      BY <1>3, <1>13, <1>15
    <2>2. /\ RowOf(r) \in RowSet /\ RowOf(r).shared = req[r].shared
          /\ RowOf(r).shared + RowOf(r).suffix = Len(req[r].prompt)
      BY <2>1, RowFacts
    <2>3. RowOf(r).shared \in Nat /\ RowOf(r).suffix \in Nat \ {0}
      BY <2>2 DEF RowSet
    <2>4. RowOf(r).shared + g.len <= MaxSeq /\ RowOf(r).suffix <= g.len
      BY <1>6, <1>7, <2>1, <2>3 DEF ShapeOf
    <2>5. QED
      BY <1>1, <1>6, <2>2, <2>3, <2>4
  <1>20. padTo' # 0
    <2>1. Head(rids) \in Range(rids)
      BY <1>11, HeadTail
    <2>2. QED
      BY <1>19, <2>1
  <1>21. /\ \A row \in Range(g.rows) : row.rid \in Range(rids) /\ row = RowOf(row.rid)
         /\ \A r \in Range(rids) : RowOf(r) \in Range(g.rows)
    BY <1>5, <1>9, <1>14, <1>15
  <1>22. settling' = rids /\ padTo' = g.len /\ groups' = Tail(groups)
    BY <1>1
  <1>23. LackingAll(groups) = Lacking(g.rows, padTo') \cup LackingAll(groups')
    BY <1>5, <1>22
  <1>24. Grouping(Rows(Range(admitted')), groups')
    BY <1>5, <1>18, <1>22
  <1>25. Range(settling') \subseteq Range(admitted) /\ Range(admitted') = Range(admitted) \ Range(settling')
    BY <1>13, <1>17, <1>22
  <1>26. settling' \in Seq(Rids) /\ IsInjective(settling') /\ settling' # << >>
    BY <1>11, <1>12, <1>22
  <1>27. padTo' \in Nat /\ padTo' = Head(groups).len
    BY <1>6, <1>22 DEF g
  <1>28. \A r \in Range(settling') : /\ req[r].shared + padTo' <= MaxSeq
                                     /\ Len(req[r].prompt) <= req[r].shared + padTo'
                                     /\ RowOf(r) \in Range(Head(groups).rows)
    BY <1>19, <1>21, <1>22 DEF g
  <1>29. \A row \in Range(Head(groups).rows) : row.rid \in Range(settling') /\ row = RowOf(row.rid)
    BY <1>21, <1>22 DEF g
  <1>30. LackingAll(groups) = Lacking(Head(groups).rows, padTo') \cup LackingAll(groups')
    BY <1>23 DEF g
  <1>31. QED
    BY <1>17, <1>20, <1>24, <1>25, <1>26, <1>27, <1>28, <1>29, <1>30

-----------------------------------------------------------------------------
(* Handing out tokens *)

LEMMA TakenFacts ==
  ASSUME TypeOK, NEW r \in Rids, Len(req[r].gen) < req[r].maxNew, NEW toks \in Seq(Tokens), toks # << >>
  PROVE  /\ Taken(r, toks) \in Seq(Tokens) /\ Len(Taken(r, toks)) \in 1..Len(toks)
         /\ \A i \in 1..Len(Taken(r, toks)) : Taken(r, toks)[i] = toks[i]
         /\ Len(req[r].gen) + Len(Taken(r, toks)) <= req[r].maxNew
         /\ Ends(r, toks) = {} => Taken(r, toks) = toks /\ Len(req[r].gen) + Len(toks) < req[r].maxNew
  <1> DEFINE E == Ends(r, toks)
             T == E \cup {Len(toks)}
             n == Min(T)
             g == Len(req[r].gen)
  <1>1. Len(toks) \in Nat \ {0} /\ DOMAIN toks = 1..Len(toks) /\ g \in Nat /\ req[r].maxNew \in Nat
    <2>1. g \in Nat /\ req[r].maxNew \in Nat
      BY ReqTypes
    <2>2. Len(toks) \in Nat \ {0} /\ DOMAIN toks = 1..Len(toks)
      OBVIOUS
    <2>3. QED
      BY <2>1, <2>2
  <1>2. \A k \in DOMAIN toks : g + k >= req[r].maxNew => k \in E
    BY DEF Ends
  <1>3. E \in SUBSET (1..Len(toks))
    BY <1>1 DEF Ends
  <1>4. T \in SUBSET Nat /\ T # {} /\ \A k \in T : k \in 1..Len(toks)
    BY <1>1, <1>3
  <1>5. n \in T /\ \A y \in T : n <= y
    BY <1>4, LeastOf
  <1>6. n \in 1..Len(toks)
    BY <1>4, <1>5
  <1>7. Taken(r, toks) = SubSeq(toks, 1, n)
    BY DEF Taken
  <1> HIDE DEF n
  <1>8. /\ SubSeq(toks, 1, n) \in Seq(Tokens) /\ Len(SubSeq(toks, 1, n)) = n
        /\ \A i \in 1..n : SubSeq(toks, 1, n)[i] = toks[i]
    BY <1>1, <1>6
  <1>9. g + n <= req[r].maxNew
    <2>1. SUFFICES ASSUME g + n > req[r].maxNew PROVE FALSE
      BY <1>1, <1>6
    <2>2. n - 1 \in DOMAIN toks /\ g + (n - 1) >= req[r].maxNew
      BY <1>1, <1>6, <2>1
    <2>3. n - 1 \in T
      BY <1>2, <2>2
    <2>4. n <= n - 1
      BY <1>5, <2>3
    <2>5. QED
      BY <1>6, <2>4
  <1>10. ASSUME E = {}
         PROVE  n = Len(toks) /\ g + n < req[r].maxNew /\ SubSeq(toks, 1, n) = toks
    <2>1. n = Len(toks)
      BY <1>5, <1>10
    <2>2. ~ (g + n >= req[r].maxNew)
      BY <1>1, <1>2, <1>10, <2>1
    <2>3. SubSeq(toks, 1, n) = toks
      BY <1>1, <2>1
    <2>4. QED
      BY <1>1, <1>6, <2>1, <2>2, <2>3
  <1> HIDE DEF E, T
  <1>11. Len(Taken(r, toks)) = n /\ Len(Taken(r, toks)) \in 1..Len(toks)
    BY <1>6, <1>7, <1>8
  <1>12. Taken(r, toks) \in Seq(Tokens) /\ \A i \in 1..Len(Taken(r, toks)) : Taken(r, toks)[i] = toks[i]
    BY <1>7, <1>8, <1>11
  <1>13. E = {} => Taken(r, toks) = toks /\ g + Len(toks) < req[r].maxNew
    BY <1>7, <1>10
  <1>14. QED
    BY <1>9, <1>11, <1>12, <1>13 DEF E

\* Settle and Emit hand the tokens toks to request r, the head of its queue.
Hands(r, toks) ==
  /\ r \in Live /\ r \in Rids /\ r # 0 /\ toks \in Seq(Tokens) /\ toks # << >>
  /\ r \notin Range(active) /\ r \notin Range(admitted) /\ retiring = 0
  /\ Len(req[r].gen) < req[r].maxNew
  /\ TakeTokens(r, toks)
  /\ \/ /\ pc = "settle" /\ settling # << >> /\ r = Head(settling) /\ settling' = Tail(settling)
        /\ Len(toks) = 1 /\ verified[r] = << >> /\ emitting = << >> /\ UNCHANGED <<emitting, verified>>
     \/ /\ pc = "emit" /\ emitting # << >> /\ r = Head(emitting) /\ emitting' = Tail(emitting)
        /\ verified' = [verified EXCEPT ![r] = << >>]
        /\ IF verified[r] # << >> THEN toks = verified[r] ELSE Len(toks) = 1
        /\ settling = << >> /\ UNCHANGED settling
  /\ UNCHANGED <<pool, kv, cacheVars, pending, submitted, nextRid, admitted, groups, padTo, failures>>

LEMMA HandsExist ==
  ASSUME TypeOK, Placed, Requests, Phases, Settle \/ Emit
  PROVE  \E r \in Rids, toks \in Seq(Tokens) : Hands(r, toks)
  <1>0. retiring = 0 /\ 0 \notin Rids
    BY DEF Settle, Emit, Phases, Retirement, Rids
  <1>1. CASE Settle
    <2> DEFINE r == Head(settling)
    <2>1. PICK tok \in Tokens : TakeTokens(r, <<tok>>)
      BY <1>1 DEF Settle
    <2>2. <<tok>> \in Seq(Tokens) /\ <<tok>> # << >> /\ Len(<<tok>>) = 1
      OBVIOUS
    <2>3. settling \in Seq(Rids) /\ settling # << >> /\ pc = "settle" /\ settling' = Tail(settling)
      BY <1>1 DEF Settle, Placed
    <2>4. r \in Rids /\ r \in Range(settling)
      BY <2>3, HeadTail
    <2> HIDE DEF r
    <2>5. r \in Live
      BY <2>4 DEF Live
    <2>6. r \notin Range(active) /\ r \notin Range(admitted) /\ r \notin Range(emitting)
      BY <2>4 DEF Placed, Disjoint
    <2>7. Len(req[r].gen) < req[r].maxNew
      <3>1. req[r].gen = << >> /\ req[r].maxNew \in Nat \ {0}
        BY <2>4, <2>5, LiveFacts DEF Requests
      <3>2. QED
        BY <3>1
    <2>8. verified[r] = << >>
      BY <2>4, <2>6 DEF Requests
    <2>9. emitting = << >>
      BY <2>3 DEF Phases, Retirement
    <2>10. UNCHANGED <<pool, kv, cacheVars, pending, submitted, nextRid, admitted, groups, padTo, failures, emitting, verified>>
      BY <1>1 DEF Settle
    <2>11. Hands(r, <<tok>>)
      BY <1>0, <2>1, <2>2, <2>3, <2>4, <2>5, <2>6, <2>7, <2>8, <2>9, <2>10 DEF Hands, r
    <2>12. QED
      BY <2>2, <2>4, <2>11
  <1>2. CASE Emit
    <2> DEFINE r == Head(emitting)
    <2>1. emitting \in Seq(Rids) /\ emitting # << >> /\ pc = "emit" /\ emitting' = Tail(emitting)
          /\ verified' = [verified EXCEPT ![r] = << >>]
      BY <1>2 DEF Emit, Placed
    <2>2. r \in Rids /\ r \in Range(emitting)
      BY <2>1, HeadTail
    <2>3. PICK toks \in IF verified[r] # << >> THEN {verified[r]} ELSE {<<tok>> : tok \in Tokens} : TakeTokens(r, toks)
      BY <1>2 DEF Emit
    <2>4. UNCHANGED <<pool, kv, cacheVars, pending, submitted, nextRid, admitted, groups, padTo, failures, settling>>
      BY <1>2 DEF Emit
    <2> HIDE DEF r
    <2>5. toks \in Seq(Tokens) /\ toks # << >> /\ IF verified[r] # << >> THEN toks = verified[r] ELSE Len(toks) = 1
      <3>1. CASE verified[r] # << >>
        BY <2>2, <2>3, <3>1, ReqTypes
      <3>2. CASE verified[r] = << >>
        <4>1. PICK tok \in Tokens : toks = <<tok>>
          BY <2>3, <3>2
        <4>2. QED
          BY <3>2, <4>1
      <3>3. QED
        BY <3>1, <3>2
    <2>6. r \in Live
      BY <2>2 DEF Live
    <2>7. r \notin Range(active) /\ r \notin Range(admitted)
      BY <2>2 DEF Placed, Disjoint
    <2>8. Len(req[r].gen) < req[r].maxNew
      BY <2>2 DEF Requests
    <2>9. settling = << >>
      <3>1. padTo > 0 => pc # "emit"
        BY <2>1 DEF Phases, Retirement
      <3>2. QED
        BY <2>1, <3>1 DEF Phases
    <2>10. Hands(r, toks)
      BY <1>0, <2>1, <2>2, <2>3, <2>4, <2>5, <2>6, <2>7, <2>8, <2>9 DEF Hands, r
    <2>11. QED
      BY <2>2, <2>5, <2>10
  <1>3. QED
    BY <1>1, <1>2

\* What a request is after it was handed its tokens.
LEMMA HandsFacts ==
  ASSUME TypeOK, Placed, Requests, Phases, NEW r \in Rids, NEW toks \in Seq(Tokens), Hands(r, toks)
  PROVE  /\ Live' = Live
         /\ \A s \in Rids \ {r} : req'[s] = req[s] /\ ToksOf(s)' = ToksOf(s)
         /\ req'[r] = [req[r] EXCEPT !.gen = @ \o Taken(r, toks)]
         /\ req'[r].ext = req[r].ext /\ req'[r].prompt = req[r].prompt /\ req'[r].maxNew = req[r].maxNew
         /\ req'[r].shared = req[r].shared /\ req'[r].gen = req[r].gen \o Taken(r, toks)
         /\ req'[r].gen # << >> /\ req'[r].gen \in Seq(Tokens) /\ Len(req'[r].gen) <= req[r].maxNew
         /\ ToksOf(r)' = ToksOf(r) \o Taken(r, toks)
         /\ req' \in [Rids -> [ext : 0..MaxRequests, prompt : Seq(Tokens), gen : Seq(Tokens), maxNew : Nat, shared : Nat]]
         /\ \/ /\ Ends(r, toks) # {} /\ retiring' = r /\ active' = active /\ pc' = "remember"
               /\ done' = done \cup {req[r].ext}
            \/ /\ Ends(r, toks) = {} /\ retiring' = 0 /\ active' = Append(active, r) /\ pc' = pc
               /\ done' = done /\ Taken(r, toks) = toks /\ Len(req'[r].gen) < req[r].maxNew
  <1> DEFINE t == Taken(r, toks)
  <1>1. Len(req[r].gen) < req[r].maxNew /\ toks # << >> /\ retiring = 0 /\ r # 0
    BY DEF Hands
  <1>2. /\ t \in Seq(Tokens) /\ Len(t) \in 1..Len(toks)
        /\ Len(req[r].gen) + Len(t) <= req[r].maxNew
        /\ Ends(r, toks) = {} => t = toks /\ Len(req[r].gen) + Len(toks) < req[r].maxNew
    BY <1>1, TakenFacts
  <1>3. req' = [req EXCEPT ![r].gen = @ \o t]
    BY DEF Hands, TakeTokens
  <1> HIDE DEF t
  <1>4. req \in [Rids -> [ext : 0..MaxRequests, prompt : Seq(Tokens), gen : Seq(Tokens), maxNew : Nat, shared : Nat]]
    BY DEF TypeOK
  <1>5. /\ req'[r] = [req[r] EXCEPT !.gen = @ \o t]
        /\ \A s \in Rids \ {r} : req'[s] = req[s]
        /\ DOMAIN req' = Rids
    BY <1>3, <1>4
  <1>6. /\ req'[r].ext = req[r].ext /\ req'[r].prompt = req[r].prompt /\ req'[r].maxNew = req[r].maxNew
        /\ req'[r].shared = req[r].shared /\ req'[r].gen = req[r].gen \o t
    BY <1>4, <1>5
  <1>7. req[r].gen \in Seq(Tokens) /\ Len(req[r].gen) \in Nat /\ req[r].prompt \in Seq(Tokens) /\ req[r].maxNew \in Nat
    BY ReqTypes
  <1>8. req'[r].gen \in Seq(Tokens) /\ Len(req'[r].gen) = Len(req[r].gen) + Len(t) /\ req'[r].gen # << >>
    BY <1>2, <1>6, <1>7
  <1>9. req' \in [Rids -> [ext : 0..MaxRequests, prompt : Seq(Tokens), gen : Seq(Tokens), maxNew : Nat, shared : Nat]]
    <2>1. req[r].gen \o t \in Seq(Tokens)
      BY <1>2, <1>7
    <2>2. QED
      BY <1>3, <1>4, <2>1
  <1>10. ToksOf(r)' = ToksOf(r) \o t
    <2>1. \A a, b, c \in Seq(Tokens) : a \o (b \o c) = (a \o b) \o c
      OBVIOUS
    <2>2. req[r].prompt \o (req[r].gen \o t) = (req[r].prompt \o req[r].gen) \o t
      BY <1>2, <1>7, <2>1
    <2>3. ToksOf(r)' = req'[r].prompt \o req'[r].gen
      BY DEF ToksOf
    <2>4. QED
      BY <1>6, <2>2, <2>3 DEF ToksOf
  <1>11. \A s \in Rids \ {r} : ToksOf(s)' = ToksOf(s)
    BY <1>5 DEF ToksOf
  <1>12. \/ Ends(r, toks) # {} /\ retiring' = r /\ active' = active /\ pc' = "remember" /\ done' = done \cup {req[r].ext}
         \/ Ends(r, toks) = {} /\ retiring' = 0 /\ active' = Append(active, r) /\ pc' = pc /\ done' = done
    BY <1>1 DEF Hands, TakeTokens
  <1>13. Range(settling) \cup Range(emitting) = Range(settling)' \cup Range(emitting)' \cup {r}
    <2>1. settling \in Seq(Rids) /\ emitting \in Seq(Rids)
      BY DEF Placed
    <2>2. CASE pc = "settle"
      <3>1. settling # << >> /\ r = Head(settling) /\ settling' = Tail(settling) /\ emitting' = emitting
        BY <2>2 DEF Hands
      <3>2. Range(settling) = Range(Tail(settling)) \cup {r}
        BY <2>1, <3>1, HeadTail
      <3>3. QED
        BY <3>1, <3>2
    <2>3. CASE pc # "settle"
      <3>1. emitting # << >> /\ r = Head(emitting) /\ emitting' = Tail(emitting) /\ settling' = settling
        BY <2>3 DEF Hands
      <3>2. Range(emitting) = Range(Tail(emitting)) \cup {r}
        BY <2>1, <3>1, HeadTail
      <3>3. QED
        BY <3>1, <3>2
    <2>4. QED
      BY <2>2, <2>3
  <1>14. Live' = Live
    <2>1. admitted' = admitted /\ active \in Seq(Rids)
      BY DEF Hands, Placed
    <2>2. CASE Ends(r, toks) # {}
      BY <1>1, <1>12, <1>13, <2>1, <2>2 DEF Live
    <2>3. CASE Ends(r, toks) = {}
      <3>1. Range(active)' = Range(active) \cup {r}
        BY <1>12, <2>1, <2>3, AppendOne
      <3>2. QED
        BY <1>1, <1>12, <1>13, <2>1, <2>3, <3>1 DEF Live
    <2>4. QED
      BY <2>2, <2>3
  <1>15. Len(req'[r].gen) <= req[r].maxNew /\ (Ends(r, toks) = {} => t = toks /\ Len(req'[r].gen) < req[r].maxNew)
    BY <1>2, <1>8
  <1>16. QED
    BY <1>5, <1>6, <1>8, <1>9, <1>10, <1>11, <1>12, <1>14, <1>15 DEF t

-----------------------------------------------------------------------------
(* Pages and positions *)

LEMMA DivFacts ==
  \A a \in Nat : /\ a \div PageSize \in Nat /\ (a \div PageSize) * PageSize <= a
                 /\ a < (a \div PageSize) * PageSize + PageSize
                 /\ a = (a \div PageSize) * PageSize + (a % PageSize)
                 /\ a % PageSize \in 0..PageSize - 1
  BY GroupsAssumption

LEMMA TimesFacts ==
  \A k \in Nat : k * PageSize \in Nat /\ k <= k * PageSize /\ (k * PageSize) % PageSize = 0
                 /\ (k * PageSize) \div PageSize = k /\ (k + 1) * PageSize = k * PageSize + PageSize
  BY GroupsAssumption

LEMMA TimesMonotone == \A k, l \in Nat : k <= l => k * PageSize <= l * PageSize
  BY GroupsAssumption

LEMMA SlotUnique == \A a, b \in Nat : a \div PageSize = b \div PageSize /\ a % PageSize = b % PageSize => a = b
  BY GroupsAssumption

LEMMA PageOfPosition ==
  \A a \in Nat, k \in Nat : a < k * PageSize => a \div PageSize < k /\ a \div PageSize + 1 \in 1..k
  BY GroupsAssumption

LEMMA CeilTimes == \A k \in Nat : Ceil(k * PageSize) = k
  BY GroupsAssumption DEF Ceil

LEMMA WholePages == \A a \in Nat : a % PageSize = 0 => (a \div PageSize) * PageSize = a
  BY GroupsAssumption

LEMMA Sizes == MaxSeq \in Nat /\ SpecK \in Nat /\ MaxRequests \in Nat /\ Capacity \in Nat
  BY GroupsAssumption, EngineAssumption

LEMMA WithinBounds ==
  \A a, b, m \in Nat : a + m <= MaxSeq /\ b <= m =>
    /\ a + b \in Nat /\ a + b <= MaxSeq + SpecK
    /\ a + b + SpecK \in Nat /\ a + b + SpecK <= MaxSeq + SpecK
    /\ a # 0 => a + b # 0 /\ a + b + SpecK # 0
  BY Sizes

LEMMA CeilCovers == \A a, k \in Nat : Ceil(a) <= k <=> a <= k * PageSize
  BY GroupsAssumption DEF Ceil

-----------------------------------------------------------------------------
(* What the router finds for a prompt *)

LEMMA CommonFacts ==
  ASSUME NEW s \in Seq(Tokens), NEW t \in Seq(Tokens)
  PROVE  /\ AlignedCommon(s, t) \in Nat /\ AlignedCommon(s, t) % PageSize = 0
         /\ SamePrefix(s, t, AlignedCommon(s, t))
  <1> DEFINE C == {n \in 0..Len(s) : n <= Len(t) /\ SubSeq(s, 1, n) = SubSeq(t, 1, n)}
             c == Max(C)
             a == (c \div PageSize) * PageSize
  <1>1. Len(s) \in Nat /\ Len(t) \in Nat
    OBVIOUS
  <1>2. 0 \in C
    <2>1. SubSeq(s, 1, 0) = SubSeq(t, 1, 0)
      OBVIOUS
    <2>2. QED
      BY <1>1, <2>1
  <1>3. C \in SUBSET Nat /\ \A y \in C : y <= Len(s)
    BY <1>1
  <1>4. c \in C
    BY <1>1, <1>2, <1>3, GreatestOf
  <1>5. c \in Nat /\ c <= Len(s) /\ c <= Len(t) /\ SubSeq(s, 1, c) = SubSeq(t, 1, c)
    <2> HIDE DEF c
    <2>1. c \in 0..Len(s) /\ c <= Len(t) /\ SubSeq(s, 1, c) = SubSeq(t, 1, c)
      BY <1>4
    <2>2. QED
      BY <1>1, <2>1
  <1> HIDE DEF c, C
  <1>6. \A i \in 1..c : s[i] = t[i]
    <2> SUFFICES ASSUME NEW i \in 1..c PROVE s[i] = t[i]
      OBVIOUS
    <2>1. SubSeq(s, 1, c)[i] = s[i] /\ SubSeq(t, 1, c)[i] = t[i]
      BY <1>1, <1>5
    <2>2. QED
      BY <1>5, <2>1
  <1>7. c \div PageSize \in Nat /\ a <= c
    BY <1>5, DivFacts
  <1>8. a \in Nat /\ a % PageSize = 0
    BY <1>7, TimesFacts
  <1>9. AlignedCommon(s, t) = a
    BY DEF AlignedCommon, a, c, C
  <1> HIDE DEF a
  <1>10. SamePrefix(s, t, a)
    BY <1>1, <1>5, <1>6, <1>7, <1>8 DEF SamePrefix
  <1>11. QED
    BY <1>8, <1>9, <1>10

LEMMA EntryTypes ==
  ASSUME TypeOK
  PROVE  /\ order \in Seq(Rids) /\ lru \in Seq(Rids)
         /\ \A e \in Rids : entries[e] \in Seq(Tokens) /\ Len(entries[e]) \in Nat
         /\ \A e \in Range(order) : e \in Rids
  <1>1. order \in Seq(Rids) /\ lru \in Seq(Rids) /\ entries \in [Rids -> Seq(Tokens)]
    BY DEF TypeOK
  <1>2. \A e \in Rids : entries[e] \in Seq(Tokens)
    BY <1>1
  <1>3. \A e \in Rids : Len(entries[e]) \in Nat
    BY <1>2
  <1>4. \A e \in Range(order) : e \in Rids
    BY <1>1 DEF Range
  <1>5. QED
    BY <1>1, <1>2, <1>3, <1>4

LEMMA DepthFacts ==
  ASSUME TypeOK, NEW p \in Seq(Tokens)
  PROVE  /\ Depth(p) \in Nat /\ Depth(p) % PageSize = 0 /\ Depth(p) <= Len(p)
         /\ order = << >> => Depth(p) = 0
         /\ Depth(p) > 0 => Route(p) \in Range(order) /\ SamePrefix(p, entries[Route(p)], Depth(p))
  <1> DEFINE A(e) == AlignedCommon(p, entries[e])
             D == {0} \cup {A(e) : e \in Range(order)}
             d == Max(D)
             I == {i \in DOMAIN order : A(order[i]) = d}
  <1>1. \A e \in Range(order) : A(e) \in Nat /\ A(e) % PageSize = 0 /\ SamePrefix(p, entries[e], A(e))
    BY EntryTypes, CommonFacts
  <1>2. Len(p) \in Nat /\ \A e \in Range(order) : A(e) <= Len(p)
    BY <1>1 DEF SamePrefix
  <1>3. D \in SUBSET Nat /\ D # {} /\ \A y \in D : y <= Len(p)
    BY <1>1, <1>2
  <1>4. d \in D
    BY <1>2, <1>3, GreatestOf
  <1>5. Depth(p) = d
    BY DEF Depth
  <1>6. d \in Nat /\ d <= Len(p)
    BY <1>3, <1>4
  <1>7. 0 % PageSize = 0
    BY GroupsAssumption
  <1>8. d % PageSize = 0
    BY <1>1, <1>4, <1>7
  <1>9. order = << >> => d = 0
    BY <1>4, EmptyRange
  <1>10. ASSUME d > 0
         PROVE  Route(p) \in Range(order) /\ SamePrefix(p, entries[Route(p)], d)
    <2>1. PICK e \in Range(order) : A(e) = d
      <3> HIDE DEF d
      <3>1. d # 0
        BY <1>6, <1>10
      <3>2. d \in {A(e) : e \in Range(order)}
        BY <1>4, <3>1
      <3>3. QED
        BY <3>2
    <2>2. PICK i \in DOMAIN order : order[i] = e
      BY <2>1 DEF Range
    <2>3. order \in Seq(Rids) /\ Len(order) \in Nat /\ DOMAIN order = 1..Len(order)
      BY EntryTypes
    <2>4. i \in I
      BY <2>1, <2>2
    <2>5. I \in SUBSET Nat /\ \A y \in I : y <= Len(order)
      BY <2>3
    <2>6. Max(I) \in I
      BY <2>3, <2>4, <2>5, GreatestOf
    <2>7. Route(p) = order[Max(I)]
      BY <1>5 DEF Route
    <2> HIDE DEF d, D
    <2>8. Max(I) \in DOMAIN order /\ A(order[Max(I)]) = d
      BY <2>6
    <2>9. Route(p) \in Range(order) /\ A(Route(p)) = d
      BY <2>7, <2>8 DEF Range
    <2>10. QED
      BY <1>1, <2>9
  <1> HIDE DEF d, D
  <1>11. QED
    BY <1>5, <1>6, <1>8, <1>9, <1>10

\* A whole cached prompt still recomputes its last page, and no prompt less.
LEMMA SharedTokensFacts ==
  ASSUME TypeOK, NEW p \in Seq(Tokens), p # << >>
  PROVE  /\ SharedTokens(p) \in Nat /\ SharedTokens(p) % PageSize = 0 /\ SharedTokens(p) < Len(p)
         /\ SharedTokens(p) <= Depth(p)
         /\ order = << >> => SharedTokens(p) = 0
  <1>1. Len(p) \in Nat \ {0}
    OBVIOUS
  <1>2. /\ Depth(p) \in Nat /\ Depth(p) % PageSize = 0 /\ Depth(p) <= Len(p)
        /\ order = << >> => Depth(p) = 0
    BY DepthFacts
  <1>3. CASE Depth(p) >= Len(p)
    <2> DEFINE n == Len(p) - 1
               k == n \div PageSize
    <2>1. n \in Nat /\ Depth(p) = n + 1
      BY <1>1, <1>2, <1>3
    <2>2. SharedTokens(p) = k * PageSize
      BY <1>3 DEF SharedTokens
    <2> HIDE DEF n
    <2>3. k \in Nat /\ k * PageSize <= n
      BY <2>1, DivFacts
    <2>4. k * PageSize \in Nat /\ (k * PageSize) % PageSize = 0
      BY <2>3, TimesFacts
    <2>5. Len(p) = n + 1
      BY <1>1 DEF n
    <2>6. order # << >>
      BY <1>1, <1>2, <1>3
    <2> HIDE DEF k
    <2>7. QED
      BY <2>1, <2>2, <2>3, <2>4, <2>5, <2>6
  <1>4. CASE ~ (Depth(p) >= Len(p))
    <2>1. SharedTokens(p) = Depth(p)
      BY <1>4 DEF SharedTokens
    <2>2. QED
      BY <1>1, <1>2, <1>4, <2>1
  <1>5. QED
    BY <1>3, <1>4

-----------------------------------------------------------------------------
(* The actions by what they leave alone *)

\* Steps that move the point of control, and the padding or the count of failures.
Quiet == BeginStep \/ EndSettle \/ NothingActive \/ BeginDraft \/ EndStep
         \/ NothingToRemember \/ EndEvict \/ ModelCallRaises

\* Steps that allocate pages.
Reserving == ReserveAdmitted \/ ReservePadding \/ ReserveDrafts \/ DraftsOutOfPages

\* Steps after which every request is where it was.
Staying == Quiet \/ Reserving \/ EndAdmit \/ Forward \/ Remember \/ Evict

Submitting == \E p \in Prompts, n \in MaxNews : Submit(p, n)
Decoding == Decode \/ Verify

places == <<pending, submitted, nextRid, req, admitted, settling, active, emitting, verified, retiring, done>>

LEMMA NextCases ==
  Next => \/ Staying \/ Submitting \/ Admit \/ TakeGroup \/ Settle \/ Emit
          \/ Decoding \/ Free \/ StartOnline
  BY DEF Next, Step, Staying, Quiet, Reserving, Submitting, Decoding

LEMMA QuietStays ==
  Quiet => UNCHANGED <<free, refcount, table, kv, entries, order, lru, groups>> /\ UNCHANGED places
  BY DEF Quiet, BeginStep, EndSettle, NothingActive, BeginDraft, EndStep, NothingToRemember, EndEvict,
         ModelCallRaises, pool, cacheVars, batch, places

LEMMA ReservingStays ==
  Reserving => UNCHANGED <<entries, order, lru, groups, padTo>> /\ UNCHANGED places
  BY DEF Reserving, ReserveAdmitted, ReservePadding, ReserveDrafts, DraftsOutOfPages, cacheVars, batch, places

LEMMA StayingStays == Staying => UNCHANGED places
  <1>1. EndAdmit \/ Forward \/ Remember \/ Evict => UNCHANGED places
    BY DEF EndAdmit, Forward, Remember, Evict, pool, cacheVars, batch, places
  <1>2. QED
    BY <1>1, QuietStays, ReservingStays DEF Staying

LEMMA DecodingFacts ==
  ASSUME TypeOK, Decoding, Phases
  PROVE  /\ emitting' = active /\ active' = << >> /\ pc \in {"decode", "draft"} /\ pc' = "emit"
         /\ emitting = << >> /\ retiring = 0 /\ admitted = << >> /\ groups = << >> /\ settling = << >> /\ padTo = 0
         /\ UNCHANGED <<free, refcount, table, entries, order, lru, pending, submitted, nextRid, req, admitted, groups,
                        settling, padTo, retiring, done, failures>>
  <1>1. /\ emitting' = active /\ active' = << >> /\ pc \in {"decode", "draft"} /\ pc' = "emit"
        /\ UNCHANGED <<free, refcount, table, entries, order, lru, pending, submitted, nextRid, req, admitted, groups,
                       settling, padTo, retiring, done, failures>>
    BY DEF Decoding, Decode, Verify, pool, cacheVars
  <1>2. emitting = << >> /\ retiring = 0 /\ admitted = << >> /\ groups = << >>
    BY <1>1 DEF Phases, Retirement, InWave
  <1>3. padTo = 0 /\ settling = << >>
    <2>1. padTo \in Nat
      BY GroupsAssumption DEF TypeOK
    <2>2. QED
      BY <1>1, <2>1 DEF Phases, Retirement
  <1>4. QED
    BY <1>1, <1>2, <1>3

\* A fresh request is not yet anywhere.
LEMMA AdmitFacts ==
  ASSUME TypeOK, Placed, Requests, Cached, Admit, NEW q, q = Head(pending)
  PROVE  /\ nextRid \in Rids /\ nextRid \notin Live /\ pending # << >> /\ q \in Range(pending)
         /\ q.ext \in 1..submitted /\ q.prompt \in Prompts /\ q.maxNew \in MaxNews
         /\ pending' = Tail(pending) /\ Len(pending') = Len(pending) - 1 /\ Len(pending) \in Nat
         /\ nextRid' = nextRid + 1 /\ admitted' = Append(admitted, nextRid) /\ pc = "admit" /\ pc' = "reserve"
         /\ req' = [req EXCEPT ![nextRid] = [ext |-> q.ext, prompt |-> q.prompt, gen |-> << >>,
                                             maxNew |-> q.maxNew, shared |-> SharedTokens(q.prompt)]]
         /\ q.prompt \in Seq(Tokens) /\ SharedTokens(q.prompt) \in Nat /\ SharedTokens(q.prompt) % PageSize = 0
         /\ SharedTokens(q.prompt) < Len(q.prompt)
         /\ Capacity = 0 => SharedTokens(q.prompt) = 0
         /\ SharedTokens(q.prompt) <= Depth(q.prompt)
         /\ Live' = Live \cup {nextRid}
         /\ UNCHANGED <<kv, entries, order, submitted, groups, settling, padTo, active, emitting, verified, retiring, done,
                        failures, free>>
  <1>1. /\ pc = "admit" /\ pending # << >> /\ pending' = Tail(pending) /\ nextRid' = nextRid + 1
        /\ admitted' = Append(admitted, nextRid) /\ pc' = "reserve"
        /\ req' = [req EXCEPT ![nextRid] = [ext |-> q.ext, prompt |-> q.prompt, gen |-> << >>,
                                            maxNew |-> q.maxNew, shared |-> SharedTokens(q.prompt)]]
        /\ UNCHANGED <<kv, entries, order, submitted, groups, settling, padTo, active, emitting, verified, retiring, done,
                       failures>>
    BY DEF Admit, CanAdmit
  <1>2. pending \in Seq([ext : Rids, prompt : Prompts, maxNew : MaxNews])
    BY DEF TypeOK
  <1>3. /\ q \in [ext : Rids, prompt : Prompts, maxNew : MaxNews] /\ q \in Range(pending)
        /\ Len(Tail(pending)) = Len(pending) - 1 /\ Len(pending) \in Nat \ {0}
    <2> DEFINE S == [ext : Rids, prompt : Prompts, maxNew : MaxNews]
    <2>1. pending \in Seq(S) /\ pending # << >>
      BY <1>1, <1>2
    <2> HIDE DEF S
    <2>2. Head(pending) \in S /\ Head(pending) \in Range(pending) /\ Len(Tail(pending)) = Len(pending) - 1
          /\ Len(pending) \in Nat \ {0}
      BY <2>1, HeadTail
    <2>3. QED
      BY <2>2 DEF S
  <1>4. q.prompt \in Prompts /\ q.maxNew \in MaxNews
    BY <1>3
  <1>5. q.ext \in 1..submitted
    <2>1. PICK i \in DOMAIN pending : q = pending[i]
      BY <1>3 DEF Range
    <2>2. QED
      BY <2>1 DEF Requests
  <1>6. nextRid \in Rids
    <2>1. nextRid \in 1..MaxRequests + 1 /\ submitted \in 0..MaxRequests /\ MaxRequests \in Nat
      BY EngineAssumption DEF TypeOK
    <2>2. nextRid + Len(pending) <= submitted + 1
      BY DEF Placed
    <2>3. QED
      BY <1>3, <2>1, <2>2 DEF Rids
  <1>7. nextRid \notin Live
    <2>1. nextRid \in Nat
      BY <1>6 DEF Rids
    <2>2. nextRid \in Live => nextRid < nextRid
      BY DEF Placed
    <2>3. QED
      BY <2>1, <2>2
  <1>8. q.prompt \in Seq(Tokens) /\ q.prompt # << >>
    BY <1>4, PromptFacts
  <1>9. /\ SharedTokens(q.prompt) \in Nat /\ SharedTokens(q.prompt) % PageSize = 0
        /\ SharedTokens(q.prompt) < Len(q.prompt) /\ SharedTokens(q.prompt) <= Depth(q.prompt)
        /\ order = << >> => SharedTokens(q.prompt) = 0
    BY <1>8, SharedTokensFacts
  <1>10. Capacity = 0 => order = << >>
    BY DEF Cached
  <1>11. Live' = Live \cup {nextRid}
    <2>1. admitted \in Seq(Rids)
      BY DEF Placed
    <2>2. Range(admitted)' = Range(admitted) \cup {nextRid}
      BY <1>1, <1>6, <2>1, AppendOne
    <2>3. QED
      BY <1>1, <2>2 DEF Live
  <1>12. free' = free
    BY DEF Admit, ShareInto, Pool!Alias, pool
  <1>13. QED
    BY <1>1, <1>3, <1>4, <1>5, <1>6, <1>7, <1>8, <1>9, <1>10, <1>11, <1>12

\* A freed request is no longer live.
LEMMA FreeFacts ==
  ASSUME TypeOK, Placed, Phases, Free
  PROVE  /\ retiring \in Rids /\ retiring' = 0 /\ Live' = Live \ {retiring} /\ retiring \in Live
         /\ req' = [req EXCEPT ![retiring] = NoRequest]
         /\ pc = "free" /\ pc' = (IF padTo > 0 THEN "settle" ELSE "emit")
         /\ Pool!Release(TableOf(retiring))
         /\ UNCHANGED <<kv, entries, order, lru, pending, submitted, nextRid, admitted, groups, settling, padTo, active,
                        emitting, verified, done, failures>>
  <1>1. /\ retiring' = 0 /\ pc = "free" /\ req' = [req EXCEPT ![retiring] = NoRequest]
        /\ pc' = (IF padTo > 0 THEN "settle" ELSE "emit") /\ Pool!Release(TableOf(retiring))
        /\ UNCHANGED <<kv, entries, order, lru, pending, submitted, nextRid, admitted, groups, settling, padTo, active,
                       emitting, verified, done, failures>>
    BY DEF Free, cacheVars
  <1>2. retiring # 0 /\ retiring \in Rids
    BY <1>1 DEF Phases, Retirement, Placed
  <1>3. retiring \in Live
    BY <1>2 DEF Live
  <1>4. retiring \notin Range(admitted) \cup Range(settling) \cup Range(active) \cup Range(emitting)
    BY DEF Placed
  <1>5. Live' = Live \ {retiring}
    BY <1>1, <1>2, <1>4 DEF Live
  <1>6. QED
    BY <1>1, <1>2, <1>3, <1>5

\* A restart forgets every request.
LEMMA StartOnlineFacts ==
  ASSUME Phases, StartOnline
  PROVE  /\ admitted' = << >> /\ settling' = << >> /\ active' = << >> /\ emitting' = << >> /\ groups' = << >>
         /\ padTo' = 0 /\ retiring' = 0 /\ retiring = 0 /\ emitting = << >> /\ Live' = {} /\ pending' = << >>
         /\ pc = "failed" /\ pc' = "idle" /\ req' = [r \in Rids |-> NoRequest]
         /\ nextRid' = (IF Capacity = 0 THEN 1 ELSE nextRid)
         /\ UNCHANGED <<free, refcount, table, kv, entries, order, lru, submitted, verified, done, failures>>
  <1>1. /\ admitted' = << >> /\ settling' = << >> /\ active' = << >> /\ groups' = << >> /\ padTo' = 0
        /\ pending' = << >> /\ pc = "failed" /\ pc' = "idle" /\ req' = [r \in Rids |-> NoRequest]
        /\ nextRid' = (IF Capacity = 0 THEN 1 ELSE nextRid)
        /\ UNCHANGED <<free, refcount, table, kv, entries, order, lru, submitted, emitting, verified, retiring, done, failures>>
    BY DEF StartOnline, pool, cacheVars
  <1>2. retiring = 0 /\ emitting = << >>
    BY <1>1 DEF Phases, Retirement
  <1>3. Live' = {}
    BY <1>1, <1>2, EmptyRange DEF Live
  <1>4. QED
    BY <1>1, <1>2, <1>3

-----------------------------------------------------------------------------
(* Phases *)

\* A plan without groups is a plan of nothing, and a plan of nothing has no group.
LEMMA EmptyPlan ==
  ASSUME NEW R, NEW gs, Grouping(R, gs)
  PROVE  gs = << >> <=> R = {}
  <1>1. ASSUME gs = << >> PROVE R = {}
    BY <1>1 DEF Grouping
  <1>2. ASSUME R = {}, gs # << >> PROVE FALSE
    <2>1. gs \in Seq(GroupSet) /\ 1 \in DOMAIN gs
      BY <1>2 DEF Grouping
    <2>2. gs[1].rows # << >> /\ Range(gs[1].rows) \subseteq R
      BY <2>1 DEF Grouping
    <2>3. gs[1] \in GroupSet
      BY <2>1
    <2>4. gs[1].rows \in Seq(RowSet)
      BY <2>3 DEF GroupSet
    <2>5. Head(gs[1].rows) \in Range(gs[1].rows)
      BY <2>2, <2>4, HeadTail
    <2>6. QED
      BY <1>2, <2>2, <2>5
  <1>3. QED
    BY <1>1, <1>2

LEMMA PhasesStep ==
  ASSUME TypeOK, Phases, Placed, Requests, Cached, Covered, Planned, Next
  PROVE  Phases'
  <1>1. CASE Quiet
    <2>1. CASE EndSettle
      <3>1. groups = << >> => admitted = << >>
        <4>1. Grouping(Rows(Range(admitted)), groups)
          BY <2>1 DEF EndSettle, Planned, InWave, Rows
        <4>2. groups = << >> => Range(admitted) = {}
          BY <4>1, EmptyPlan DEF Rows
        <4>3. admitted \in Seq(Rids)
          BY DEF Placed
        <4>4. QED
          BY <4>2, <4>3, NothingListed
      <3>2. QED
        BY <2>1, <3>1 DEF EndSettle, Phases, Retirement, InWave
    <2>2. CASE BeginStep
      BY <2>2 DEF BeginStep, batch, Phases, Retirement, InWave
    <2>3. CASE NothingActive
      BY <2>3 DEF NothingActive, batch, Phases, Retirement, InWave
    <2>4. CASE BeginDraft
      BY <2>4 DEF BeginDraft, batch, Phases, Retirement, InWave
    <2>5. CASE EndStep
      BY <2>5 DEF EndStep, batch, Phases, Retirement, InWave
    <2>6. CASE NothingToRemember
      BY <2>6 DEF NothingToRemember, batch, Phases, Retirement, InWave
    <2>7. CASE EndEvict
      BY <2>7 DEF EndEvict, batch, Phases, Retirement, InWave
    <2>8. CASE ModelCallRaises
      BY <2>8 DEF ModelCallRaises, batch, Phases, Retirement, InWave
    <2>9. QED
      BY <1>1, <2>1, <2>2, <2>3, <2>4, <2>5, <2>6, <2>7, <2>8 DEF Quiet
  <1>2. CASE Reserving
    <2>1. CASE ReserveAdmitted
      BY <2>1 DEF ReserveAdmitted, batch, Phases, Retirement, InWave
    <2>2. CASE ReservePadding
      BY <2>2 DEF ReservePadding, batch, Phases, Retirement, InWave
    <2>3. CASE ReserveDrafts
      BY <2>3 DEF ReserveDrafts, batch, Phases, Retirement, InWave
    <2>4. CASE DraftsOutOfPages
      BY <2>4 DEF DraftsOutOfPages, batch, Phases, Retirement, InWave
    <2>5. QED
      BY <1>2, <2>1, <2>2, <2>3, <2>4 DEF Reserving
  <1>3. CASE EndAdmit
    <2>1. Grouping(Rows(Range(admitted)), groups')
      BY <1>3, PlanEndAdmit
    <2>2. groups' = << >> <=> admitted = << >>
      <3>1. groups' = << >> <=> Range(admitted) = {}
        BY <2>1, EmptyPlan DEF Rows
      <3>2. admitted \in Seq(Rids)
        BY DEF Placed
      <3>3. QED
        BY <3>1, <3>2, NothingListed, EmptyRange
    <2>3. padTo \in Nat
      BY GroupsAssumption DEF TypeOK
    <2>4. QED
      BY <1>3, <2>2, <2>3 DEF EndAdmit, Phases, Retirement, InWave
  <1>4. CASE Forward
    BY <1>4 DEF Forward, batch, Phases, Retirement, InWave
  <1>5. CASE Remember
    BY <1>5 DEF Remember, batch, Phases, Retirement, InWave
  <1>6. CASE Evict
    BY <1>6 DEF Evict, batch, Phases, Retirement, InWave
  <1>7. CASE Submitting
    BY <1>7 DEF Submitting, Submit, batch, Phases, Retirement, InWave
  <1>8. CASE Admit
    <2>1. admitted' # << >>
      <3>1. admitted' = Append(admitted, nextRid) /\ nextRid \in Rids /\ admitted \in Seq(Rids)
        BY <1>8, AdmitFacts DEF Placed
      <3>2. QED
        BY <3>1, AppendOne
    <2>2. pc = "admit" /\ pc' = "reserve" /\ UNCHANGED <<groups, settling, padTo, emitting, retiring>>
      BY <1>8 DEF Admit
    <2>3. QED
      BY <2>1, <2>2 DEF Phases, Retirement, InWave
  <1>9. CASE TakeGroup
    <2>1. padTo' \in Nat /\ padTo' # 0
      BY <1>9, TakeFacts
    <2>2. pc = "prefill" /\ pc' = "pad" /\ UNCHANGED <<emitting, retiring>>
      BY <1>9 DEF TakeGroup
    <2>3. QED
      BY <2>1, <2>2 DEF Phases, Retirement, InWave
  <1>10. CASE Settle \/ Emit
    <2>1. PICK r \in Rids, toks \in Seq(Tokens) : Hands(r, toks)
      BY <1>10, HandsExist
    <2>2. /\ r # 0 /\ retiring = 0 /\ UNCHANGED <<admitted, groups, padTo>>
          /\ \/ pc = "settle" /\ settling # << >> /\ emitting = << >> /\ emitting' = emitting
             \/ pc = "emit" /\ settling = << >> /\ settling' = settling
      BY <2>1 DEF Hands
    <2>3. (retiring' = r /\ pc' = "remember") \/ (retiring' = 0 /\ pc' = pc)
      BY <2>1, HandsFacts
    <2>4. padTo \in Nat
      BY GroupsAssumption DEF TypeOK
    <2>5. CASE pc = "settle"
      BY <2>2, <2>3, <2>4, <2>5 DEF Phases, Retirement, InWave
    <2>6. CASE pc = "emit"
      BY <2>2, <2>3, <2>4, <2>6 DEF Phases, Retirement, InWave
    <2>7. QED
      BY <2>2, <2>5, <2>6
  <1>11. CASE Decoding
    BY <1>11, DecodingFacts DEF Phases, Retirement, InWave
  <1>12. CASE Free
    <2>1. /\ retiring' = 0 /\ pc = "free" /\ pc' = (IF padTo > 0 THEN "settle" ELSE "emit")
          /\ UNCHANGED <<admitted, groups, settling, padTo, emitting>>
      BY <1>12, FreeFacts
    <2>2. padTo \in Nat
      BY GroupsAssumption DEF TypeOK
    <2>3. QED
      BY <2>1, <2>2 DEF Phases, Retirement, InWave
  <1>13. CASE StartOnline
    BY <1>13, StartOnlineFacts DEF Phases, Retirement, InWave
  <1>14. QED
    BY <1>1, <1>2, <1>3, <1>4, <1>5, <1>6, <1>7, <1>8, <1>9, <1>10, <1>11, <1>12, <1>13, NextCases DEF Staying

-----------------------------------------------------------------------------
(* Places *)

LEMMA PlacedStep ==
  ASSUME TypeOK, Phases, Placed, Requests, Cached, Planned, Next
  PROVE  Placed'
  <1>0. /\ admitted \in Seq(Rids) /\ settling \in Seq(Rids) /\ active \in Seq(Rids) /\ emitting \in Seq(Rids)
        /\ IsInjective(admitted) /\ IsInjective(settling) /\ IsInjective(active) /\ IsInjective(emitting)
    BY DEF Placed
  <1>00. nextRid \in Nat /\ Len(pending) \in Nat /\ submitted \in Nat /\ nextRid + Len(pending) <= submitted + 1
    <2>1. nextRid \in 1..MaxRequests + 1 /\ submitted \in 0..MaxRequests /\ MaxRequests \in Nat
      BY EngineAssumption DEF TypeOK
    <2>2. Len(pending) \in Nat
      BY DEF TypeOK
    <2>3. QED
      BY <2>1, <2>2 DEF Placed
  <1>000. << >> \in Seq(Rids)
    OBVIOUS
  <1>1. CASE Staying
    BY <1>1, StayingStays DEF places, Placed, Live
  <1>2. CASE Submitting
    <2>1. Len(pending') = Len(pending) + 1 /\ submitted' = submitted + 1
      <3>1. PICK p \in Prompts, n \in MaxNews : Submit(p, n)
        BY <1>2 DEF Submitting
      <3> DEFINE q == [ext |-> submitted + 1, prompt |-> p, maxNew |-> n]
                 S == [ext : Rids, prompt : Prompts, maxNew : MaxNews]
      <3>2. pending' = Append(pending, q) /\ submitted' = submitted + 1 /\ pending \in Seq(S)
        BY <3>1 DEF Submit, TypeOK
      <3> HIDE DEF q, S
      <3>3. Len(Append(pending, q)) = Len(pending) + 1
        BY <3>2
      <3>4. QED
        BY <3>2, <3>3
    <2>2. UNCHANGED <<nextRid, admitted, settling, active, emitting, retiring>>
      BY <1>2 DEF Submitting, Submit, batch
    <2>3. Live' = Live
      BY <2>2 DEF Live
    <2>4. nextRid' + Len(pending') <= submitted' + 1
      BY <1>00, <2>1, <2>2
    <2>5. QED
      BY <2>2, <2>3, <2>4 DEF Placed
  <1>3. CASE Admit
    <2>1. /\ nextRid \in Rids /\ nextRid \notin Live /\ Len(pending') = Len(pending) - 1
          /\ nextRid' = nextRid + 1 /\ admitted' = Append(admitted, nextRid) /\ Live' = Live \cup {nextRid}
          /\ UNCHANGED <<submitted, settling, active, emitting, retiring>>
      BY <1>3, AdmitFacts
    <2>2. nextRid \notin Range(admitted) \cup Range(settling) \cup Range(active) \cup Range(emitting)
      BY <2>1 DEF Live
    <2>3. /\ admitted' \in Seq(Rids) /\ IsInjective(admitted') /\ Range(admitted') = Range(admitted) \cup {nextRid}
      BY <1>0, <2>1, <2>2, AppendOne
    <2>4. nextRid # retiring
      <3>1. 0 \notin Rids
        BY DEF Rids
      <3>2. QED
        BY <2>1, <3>1 DEF Live
    <2>5. \A r \in Live' : r < nextRid'
      <3>1. \A r \in Live : r < nextRid /\ r \in Nat
        BY DEF Placed, TypeOK, Rids
      <3>2. QED
        BY <1>00, <2>1, <3>1
    <2>6. nextRid' + Len(pending') <= submitted' + 1
      BY <1>00, <2>1
    <2>7. QED
      BY <1>0, <2>1, <2>2, <2>3, <2>4, <2>5, <2>6 DEF Placed, Disjoint
  <1>4. CASE TakeGroup
    <2>1. /\ settling' \in Seq(Rids) /\ IsInjective(settling')
          /\ admitted' \in Seq(Rids) /\ IsInjective(admitted')
          /\ Range(settling') \subseteq Range(admitted)
          /\ Range(admitted') = Range(admitted) \ Range(settling')
      BY <1>4, TakeFacts
    <2>2. UNCHANGED <<active, emitting, retiring, nextRid, pending, submitted>>
      BY <1>4 DEF TakeGroup
    <2>3. Live' \subseteq Live
      BY <2>1, <2>2 DEF Live
    <2>4. /\ Disjoint(Range(admitted)', Range(settling)') /\ Disjoint(Range(admitted)', Range(active)')
          /\ Disjoint(Range(admitted)', Range(emitting)') /\ Disjoint(Range(settling)', Range(active)')
          /\ Disjoint(Range(settling)', Range(emitting)') /\ Disjoint(Range(active)', Range(emitting)')
      BY <2>1, <2>2 DEF Placed, Disjoint
    <2>5. retiring' \notin Range(admitted)' \cup Range(settling)' \cup Range(active)' \cup Range(emitting)'
      BY <2>1, <2>2 DEF Placed
    <2>6. QED
      BY <1>0, <2>1, <2>2, <2>3, <2>4, <2>5 DEF Placed
  <1>5. CASE Settle \/ Emit
    <2>1. PICK r \in Rids, toks \in Seq(Tokens) : Hands(r, toks)
      BY <1>5, HandsExist
    <2>2. /\ r \notin Range(active) /\ r \notin Range(admitted) /\ retiring = 0 /\ r # 0
          /\ UNCHANGED <<admitted, nextRid, pending, submitted>>
          /\ \/ settling # << >> /\ r = Head(settling) /\ settling' = Tail(settling) /\ emitting' = emitting /\ emitting = << >>
             \/ emitting # << >> /\ r = Head(emitting) /\ emitting' = Tail(emitting) /\ settling' = settling /\ settling = << >>
      BY <2>1 DEF Hands
    <2>3. Live' = Live /\ \/ retiring' = r /\ active' = active
                          \/ retiring' = 0 /\ active' = Append(active, r)
      BY <2>1, HandsFacts
    <2>4. /\ settling' \in Seq(Rids) /\ emitting' \in Seq(Rids) /\ IsInjective(settling') /\ IsInjective(emitting')
          /\ Range(settling') \subseteq Range(settling) /\ Range(emitting') \subseteq Range(emitting)
          /\ r \notin Range(settling') /\ r \notin Range(emitting')
      <3>1. CASE settling # << >>
        <4>1. r = Head(settling) /\ settling' = Tail(settling) /\ emitting' = << >> /\ emitting = << >>
          BY <2>2, <3>1
        <4>2. /\ Tail(settling) \in Seq(Rids) /\ IsInjective(Tail(settling)) /\ Head(settling) \notin Range(Tail(settling))
              /\ Range(Tail(settling)) \subseteq Range(settling)
          BY <1>0, <3>1, HeadTail
        <4>3. QED
          BY <1>000, <4>1, <4>2, EmptyRange
      <3>2. CASE settling = << >>
        <4>1. r = Head(emitting) /\ emitting' = Tail(emitting) /\ settling' = << >> /\ emitting # << >>
          BY <2>2, <3>2
        <4>2. /\ Tail(emitting) \in Seq(Rids) /\ IsInjective(Tail(emitting)) /\ Head(emitting) \notin Range(Tail(emitting))
              /\ Range(Tail(emitting)) \subseteq Range(emitting)
          BY <1>0, <4>1, HeadTail
        <4>3. QED
          BY <1>000, <3>2, <4>1, <4>2, EmptyRange
      <3>3. QED
        BY <3>1, <3>2
    <2>5. /\ active' \in Seq(Rids) /\ IsInjective(active') /\ Range(active') \subseteq Range(active) \cup {r}
          /\ retiring' = r => active' = active
      <3>1. CASE active' = active
        BY <1>0, <3>1
      <3>2. CASE retiring' = 0 /\ active' = Append(active, r)
        <4>1. /\ Append(active, r) \in Seq(Rids) /\ Range(Append(active, r)) = Range(active) \cup {r}
              /\ IsInjective(Append(active, r))
          BY <1>0, <2>2, AppendOne
        <4>2. QED
          BY <2>2, <3>2, <4>1
      <3>3. QED
        BY <2>3, <3>1, <3>2
    <2>6. /\ Disjoint(Range(admitted)', Range(settling)') /\ Disjoint(Range(admitted)', Range(active)')
          /\ Disjoint(Range(admitted)', Range(emitting)') /\ Disjoint(Range(settling)', Range(active)')
          /\ Disjoint(Range(settling)', Range(emitting)') /\ Disjoint(Range(active)', Range(emitting)')
      BY <2>2, <2>4, <2>5 DEF Placed, Disjoint
    <2>7. retiring' \in Rids \cup {0} /\ retiring' \notin Range(admitted)' \cup Range(settling)' \cup Range(active)' \cup Range(emitting)'
      <3>1. CASE retiring' = r
        BY <2>2, <2>4, <2>5, <3>1
      <3>2. CASE retiring' = 0
        <4>1. 0 \notin Rids
          BY DEF Rids
        <4>2. Live \subseteq Rids
          BY DEF TypeOK
        <4>3. QED
          BY <2>3, <3>2, <4>1, <4>2 DEF Live
      <3>3. QED
        BY <2>3, <3>1, <3>2
    <2>8. QED
      BY <1>0, <2>2, <2>3, <2>4, <2>5, <2>6, <2>7 DEF Placed
  <1>6. CASE Decoding
    <2>1. /\ emitting' = active /\ active' = << >> /\ emitting = << >> /\ retiring = 0
          /\ UNCHANGED <<admitted, settling, retiring, nextRid, pending, submitted>>
      BY <1>6, DecodingFacts
    <2>2. Live' = Live
      BY <2>1, EmptyRange DEF Live
    <2>3. /\ Disjoint(Range(admitted)', Range(settling)') /\ Disjoint(Range(admitted)', Range(active)')
          /\ Disjoint(Range(admitted)', Range(emitting)') /\ Disjoint(Range(settling)', Range(active)')
          /\ Disjoint(Range(settling)', Range(emitting)') /\ Disjoint(Range(active)', Range(emitting)')
      BY <2>1, EmptyRange DEF Placed, Disjoint
    <2>4. retiring' \in Rids \cup {0} /\ retiring' \notin Range(admitted)' \cup Range(settling)' \cup Range(active)' \cup Range(emitting)'
      BY <2>1, EmptyRange DEF Placed
    <2>5. QED
      BY <1>0, <1>000, <2>1, <2>2, <2>3, <2>4, EmptyRange DEF Placed
  <1>7. CASE Free
    <2>1. /\ retiring' = 0 /\ Live' = Live \ {retiring}
          /\ UNCHANGED <<admitted, settling, active, emitting, nextRid, pending, submitted>>
      BY <1>7, FreeFacts
    <2>2. 0 \notin Rids
      BY DEF Rids
    <2>3. Live \subseteq Rids
      BY DEF TypeOK
    <2>4. retiring' \notin Range(admitted)' \cup Range(settling)' \cup Range(active)' \cup Range(emitting)'
      BY <2>1, <2>2, <2>3 DEF Live
    <2>5. QED
      BY <1>0, <2>1, <2>4 DEF Placed
  <1>8. CASE StartOnline
    <2>1. /\ admitted' = << >> /\ settling' = << >> /\ active' = << >> /\ emitting' = << >> /\ retiring' = 0
          /\ Live' = {} /\ pending' = << >> /\ submitted' = submitted
          /\ nextRid' = (IF Capacity = 0 THEN 1 ELSE nextRid)
      BY <1>8, StartOnlineFacts
    <2>2. nextRid' + Len(pending') <= submitted' + 1
      BY <1>00, <2>1
    <2>3. QED
      BY <1>000, <2>1, <2>2, EmptyRange DEF Placed, Disjoint
  <1>9. QED
    BY <1>1, <1>2, <1>3, <1>4, <1>5, <1>6, <1>7, <1>8, NextCases

LEMMA SameCardinality == \A S : Pool!Cardinality(S) = Cardinality(S)
  BY DEF Cardinality, Pool!Cardinality

-----------------------------------------------------------------------------
(* What the operations of the pool do to the tables *)

Grows(o, f) ==
  /\ f \in Seq(Pages) /\ IsInjective(f) /\ Range(f) \subseteq free
  /\ free' = free \ Range(f) /\ table' = [table EXCEPT ![o] = @ \o f]

Aliases(src, dst, k) ==
  /\ k \in 1..Len(table[src]) /\ table[dst] = << >>
  /\ table' = [table EXCEPT ![dst] = SubSeq(table[src], 1, k)] /\ free' = free

Releases(o) ==
  /\ free \subseteq free' /\ table' = [table EXCEPT ![o] = << >>]

LEMMA GrowNative ==
  ASSUME TypeOK, NEW o \in Owners, NEW k \in Nat, NEW f \in Pool!Picks(k), Pool!Grow(o, f)
  PROVE  Grows(o, f) /\ Len(f) = k
  <1>1. f \in [1..k -> free] /\ IsInjective(f)
    BY DEF Pool!Picks, Pool!Injection, Pool!IsInjective, IsInjective
  <1>2. f \in [1..k -> Pages]
    BY <1>1, PoolTypes
  <1>3. f \in Seq(Pages) /\ Len(f) = k
    BY <1>2
  <1>4. Range(f) \subseteq free
    BY <1>1 DEF Range
  <1>5. free' = free \ Range(f) /\ table' = [table EXCEPT ![o] = @ \o f]
    BY DEF Pool!Grow, Pool!Range, Range
  <1>6. QED
    BY <1>1, <1>3, <1>4, <1>5 DEF Grows

\* Taking pages from the free list leaves that many less.
LEMMA GrowsFree ==
  ASSUME TypeOK, NEW o \in Owners, NEW f, Grows(o, f)
  PROVE  /\ Cardinality(free') = Cardinality(free) - Len(f) /\ free \ free' = Range(f)
         /\ Len(f) \in Nat /\ Len(f) <= Cardinality(free)
  <1>1. IsFiniteSet(free) /\ Cardinality(free) \in Nat
    BY PoolTypes
  <1>2. f \in Seq(Pages) /\ IsInjective(f) /\ Range(f) \subseteq free /\ free' = free \ Range(f)
    BY DEF Grows
  <1>3. IsFiniteSet(Range(f)) /\ Cardinality(Range(f)) = Len(f)
    BY <1>2, InjectiveLen
  <1>4. Cardinality(free \ Range(f)) = Cardinality(free) - Cardinality(free \cap Range(f))
    BY <1>1, FS_Difference
  <1>5. free \cap Range(f) = Range(f) /\ free \ (free \ Range(f)) = Range(f)
    BY <1>2
  <1>6. Cardinality(Range(f)) <= Cardinality(free)
    BY <1>1, <1>2, FS_Subset
  <1>7. Len(f) \in Nat
    BY <1>2
  <1>8. QED
    BY <1>1, <1>2, <1>3, <1>4, <1>5, <1>6, <1>7

LEMMA ReserveNative ==
  ASSUME TypeOK, NEW o \in Owners, NEW n \in Nat, Pool!Reserve(o, n)
  PROVE  \E f : Grows(o, f) /\ Len(f) = (IF n > Len(table[o]) THEN n - Len(table[o]) ELSE 0)
  <1>1. Pool!Missing(o, n) \in Nat /\ Pool!Missing(o, n) = (IF n > Len(table[o]) THEN n - Len(table[o]) ELSE 0)
    <2>1. Len(table[o]) \in Nat
      BY PoolTypes
    <2>2. QED
      BY <2>1 DEF Pool!Missing
  <1>2. PICK f \in Pool!Picks(Pool!Missing(o, n)) : Pool!Grow(o, f)
    BY DEF Pool!Reserve
  <1>3. QED
    BY <1>1, <1>2, GrowNative

LEMMA OutOfPagesNative ==
  ASSUME TypeOK, NEW o \in Owners, NEW n \in Nat, Pool!ReserveOutOfPages(o, n)
  PROVE  \E f : Grows(o, f)
  <1>1. Pool!Cardinality(free) \in Nat
    BY PoolTypes, SameCardinality
  <1>2. PICK f \in Pool!Picks(Pool!Cardinality(free)) : Pool!Grow(o, f)
    BY DEF Pool!ReserveOutOfPages
  <1>3. QED
    BY <1>1, <1>2, GrowNative

LEMMA AliasNative ==
  ASSUME NEW src, NEW dst, NEW k, Pool!Alias(src, dst, k)
  PROVE  Aliases(src, dst, k)
  BY DEF Pool!Alias, Aliases

LEMMA ReleaseNative ==
  ASSUME NEW o, Pool!Release(o)
  PROVE  Releases(o) /\ table[o] # << >>
  BY DEF Pool!Release, Releases

\* Nobody lists a free page, and pages taken from the free list are nobody else's.
LEMMA FreeUnlisted ==
  ASSUME TypeOK, Pool!PoolInv, NEW o \in Owners, NEW p \in free
  PROVE  p \notin Range(table[o])
  <1>1. p \in Pages /\ refcount[p] = 0
    BY PoolTypes DEF Pool!PoolInv, Pool!FreeExact
  <1>2. Cardinality(Pool!Referrers(p)) = 0
    BY <1>1, SameCardinality DEF Pool!PoolInv, Pool!RefcountExact
  <1>3. IsFiniteSet(Pool!Referrers(p))
    BY OwnersFinite, FS_Subset DEF Pool!Referrers
  <1>4. Pool!Referrers(p) = {}
    BY <1>2, <1>3, FS_EmptySet
  <1>5. QED
    BY <1>4 DEF Pool!Referrers, Pool!Held, Pool!Range, Range

\* A page that one owner lists and no other is counted once.
LEMMA CountedOnce ==
  ASSUME TypeOK, Pool!PoolInv, NEW o \in Owners, NEW p \in Range(table[o]),
         \A q \in Owners \ {o} : p \notin Range(table[q])
  PROVE  refcount[p] = 1
  <1>1. p \in Pages
    BY PoolTypes DEF Range
  <1>2. Pool!Referrers(p) = {o}
    BY DEF Pool!Referrers, Pool!Held, Pool!Range, Range
  <1>3. Cardinality({o}) = 1
    BY FS_Singleton
  <1>4. QED
    BY <1>1, <1>2, <1>3, SameCardinality DEF Pool!PoolInv, Pool!RefcountExact

LEMMA TablesInjective ==
  ASSUME Pool!PoolInv, NEW o \in Owners
  PROVE  IsInjective(table[o])
  BY DEF Pool!PoolInv, Pool!NoPageTwice, Pool!IsInjective, IsInjective

\* The three moves, table by table.
LEMMA GrowsTables ==
  ASSUME TypeOK, NEW o \in Owners, NEW f, Grows(o, f)
  PROVE  /\ \A q \in Owners \ {o} : table'[q] = table[q]
         /\ table'[o] = table[o] \o f /\ Len(table'[o]) = Len(table[o]) + Len(f)
         /\ DOMAIN table'[o] = 1..(Len(table[o]) + Len(f))
         /\ \A k \in 1..Len(table[o]) : table'[o][k] = table[o][k]
         /\ \A k \in 1..Len(f) : table'[o][Len(table[o]) + k] = f[k]
         /\ \A k \in DOMAIN table'[o] : k \notin 1..Len(table[o]) => table'[o][k] \in Range(f)
         /\ Range(table'[o]) = Range(table[o]) \cup Range(f)
         /\ table' \in [Owners -> Seq(Pages)]
  <1>1. table \in [Owners -> Seq(Pages)] /\ f \in Seq(Pages) /\ table' = [table EXCEPT ![o] = @ \o f]
    BY PoolTypes DEF Grows
  <1>2. table'[o] = table[o] \o f /\ \A q \in Owners \ {o} : table'[q] = table[q]
    BY <1>1
  <1> DEFINE s == table[o]
             t == s \o f
  <1>3. s \in Seq(Pages) /\ Len(s) \in Nat /\ Len(f) \in Nat
    BY <1>1
  <1>4. t \in Seq(Pages) /\ Len(t) = Len(s) + Len(f) /\ DOMAIN t = 1..(Len(s) + Len(f))
    BY <1>1, <1>3
  <1>5. /\ \A k \in 1..Len(s) : t[k] = s[k]
        /\ \A k \in 1..Len(f) : t[Len(s) + k] = f[k]
    BY <1>1, <1>3
  <1>6. \A k \in DOMAIN t : k \notin 1..Len(s) => t[k] \in Range(f)
    <2> SUFFICES ASSUME NEW k \in DOMAIN t, k \notin 1..Len(s)
                 PROVE  t[k] \in Range(f)
      OBVIOUS
    <2> DEFINE j == k - Len(s)
    <2>1. j \in 1..Len(f) /\ k = Len(s) + j
      BY <1>3, <1>4
    <2>2. t[k] = f[j]
      BY <1>5, <2>1
    <2>3. QED
      BY <1>1, <2>1, <2>2 DEF Range
  <1>7. Range(t) = Range(s) \cup Range(f)
    BY <1>1, <1>3, ConcatRange
  <1>8. table' \in [Owners -> Seq(Pages)]
    BY <1>1, <1>4
  <1>9. QED
    BY <1>2, <1>4, <1>5, <1>6, <1>7, <1>8

LEMMA AliasesTables ==
  ASSUME TypeOK, NEW src \in Owners, NEW dst \in Owners, NEW k, Aliases(src, dst, k)
  PROVE  /\ \A q \in Owners \ {dst} : table'[q] = table[q]
         /\ k \in 1..Len(table[src]) /\ Len(table'[dst]) = k /\ DOMAIN table'[dst] = 1..k
         /\ src # dst /\ \A i \in 1..k : table'[dst][i] = table[src][i]
         /\ Range(table'[dst]) \subseteq Range(table[src])
         /\ table' \in [Owners -> Seq(Pages)]
  <1>1. table \in [Owners -> Seq(Pages)] /\ k \in 1..Len(table[src]) /\ table[dst] = << >>
        /\ table' = [table EXCEPT ![dst] = SubSeq(table[src], 1, k)]
    BY PoolTypes DEF Aliases
  <1>2. table'[dst] = SubSeq(table[src], 1, k) /\ \A q \in Owners \ {dst} : table'[q] = table[q]
    BY <1>1
  <1> DEFINE s == table[src]
             t == SubSeq(s, 1, k)
  <1>3. s \in Seq(Pages) /\ Len(s) \in Nat /\ DOMAIN s = 1..Len(s) /\ k \in 1..Len(s)
    BY <1>1
  <1>4. t \in Seq(Pages) /\ Len(t) = k /\ DOMAIN t = 1..k /\ \A i \in 1..k : t[i] = s[i]
    BY <1>3
  <1>5. Range(t) \subseteq Range(s)
    BY <1>3, <1>4 DEF Range
  <1>6. src # dst
    BY <1>1
  <1>7. table' \in [Owners -> Seq(Pages)]
    BY <1>1, <1>4
  <1>8. QED
    BY <1>2, <1>3, <1>4, <1>5, <1>6, <1>7

LEMMA ReleasesTables ==
  ASSUME TypeOK, NEW o \in Owners, Releases(o)
  PROVE  /\ \A q \in Owners \ {o} : table'[q] = table[q]
         /\ table'[o] = << >> /\ table' \in [Owners -> Seq(Pages)]
  BY PoolTypes DEF Releases

-----------------------------------------------------------------------------
(* Every step of the engine is at most one operation of the pool *)

MaxTables == Ceil(MaxSeq + SpecK)

LEMMA CeilBounds ==
  ASSUME NEW n \in Nat \ {0}, n <= MaxSeq + SpecK
  PROVE  Ceil(n) \in 1..MaxTables
  <1>1. MaxSeq + SpecK \in Nat /\ 1 <= n
    BY GroupsAssumption, EngineAssumption
  <1>2. Ceil(n) \in Nat /\ MaxTables \in Nat /\ Ceil(n) <= MaxTables
    BY <1>1, CeilMonotone, CeilType DEF MaxTables
  <1>3. Ceil(1) <= Ceil(n)
    BY <1>1, CeilMonotone
  <1>4. Ceil(1) = 1
    BY GroupsAssumption DEF Ceil
  <1>5. QED
    BY <1>2, <1>3, <1>4

LEMMA UncoveredFacts ==
  ASSUME TypeOK, Placed
  PROVE  /\ Uncovered \in Seq(Rids) /\ Range(Uncovered) \subseteq Range(active)
         /\ Uncovered # << >> => Head(Uncovered) \in Range(active)
         /\ Uncovered = << >> => \A r \in Range(active) : Pool!Missing(TableOf(r), DraftPages(r)) <= 0
  <1> DEFINE I == {i \in DOMAIN active : Pool!Missing(TableOf(active[i]), DraftPages(active[i])) > 0}
  <1>1. active \in Seq(Rids) /\ I \in SUBSET DOMAIN active
    BY DEF Placed
  <1>2. /\ Subsequence(active, I) \in Seq(Rids) /\ Range(Subsequence(active, I)) = {active[i] : i \in I}
        /\ Subsequence(active, I) = << >> <=> I = {}
    BY <1>1, SubsequenceRange
  <1>3. Uncovered = Subsequence(active, I)
    BY DEF Uncovered
  <1>4. {active[i] : i \in I} \subseteq Range(active)
    BY DEF Range
  <1>5. ASSUME Uncovered = << >>, NEW r \in Range(active)
        PROVE  Pool!Missing(TableOf(r), DraftPages(r)) <= 0
    <2>1. PICK i \in DOMAIN active : active[i] = r
      BY DEF Range
    <2>2. i \notin I
      BY <1>2, <1>3, <1>5
    <2>3. r \in Live /\ r \in Rids
      BY DEF Live, TypeOK
    <2>4. Len(table[TableOf(r)]) \in Nat
      BY <2>3, PoolTypes, OwnerFacts
    <2>5. DraftPages(r) \in Nat
      <3>1. Len(ToksOf(r)) + SpecK \in Nat
        BY <2>3, ReqTypes, EngineAssumption
      <3>2. QED
        BY <3>1, CeilType DEF DraftPages
    <2>6. Pool!Missing(TableOf(r), DraftPages(r)) \in Nat
      BY <2>4, <2>5 DEF Pool!Missing
    <2>7. QED
      BY <2>1, <2>2, <2>6
  <1> HIDE DEF I
  <1>6. ASSUME Uncovered # << >> PROVE Head(Uncovered) \in Range(active)
    BY <1>2, <1>3, <1>4, <1>6, HeadTail
  <1>7. QED
    BY <1>2, <1>3, <1>4, <1>5, <1>6

LEMMA ReserveAdmittedMove ==
  ASSUME TypeOK, Placed, Phases, Requests, ReserveAdmitted, NEW r, r = Last(admitted)
  PROVE  /\ r \in Live /\ r \in Rids /\ r \in Range(admitted)
         /\ Ceil(Len(req[r].prompt) + req[r].maxNew) \in 1..MaxTables
         /\ Pool!Reserve(TableOf(r), Ceil(Len(req[r].prompt) + req[r].maxNew))
  <1>1. pc = "reserve" /\ Pool!Reserve(TableOf(r), Ceil(Len(req[r].prompt) + req[r].maxNew))
    BY DEF ReserveAdmitted
  <1>2. r \in Range(admitted)
    BY <1>1, LastFacts DEF Phases, Placed
  <1>3. r \in Live
    BY <1>2 DEF Live
  <1>4. /\ r \in Rids /\ Len(req[r].prompt) \in Nat \ {0} /\ req[r].maxNew \in Nat \ {0}
        /\ Len(req[r].prompt) + req[r].maxNew <= MaxSeq
    BY <1>3, LiveFacts
  <1> DEFINE n == Len(req[r].prompt) + req[r].maxNew
  <1>5. n \in Nat \ {0} /\ n <= MaxSeq + SpecK
    BY <1>4, GroupsAssumption, EngineAssumption
  <1> HIDE DEF n
  <1>6. Ceil(n) \in 1..MaxTables
    BY <1>5, CeilBounds
  <1>7. QED
    BY <1>1, <1>2, <1>3, <1>4, <1>6 DEF n

LEMMA ReservePaddingMove ==
  ASSUME TypeOK, Placed, Phases, Requests, Planned, ReservePadding
  PROVE  \E r \in Range(settling) :
           /\ r \in Live /\ r \in Rids /\ req[r].shared + padTo \in Nat
           /\ Ceil(req[r].shared + padTo) \in 1..MaxTables
           /\ Pool!Reserve(TableOf(r), Ceil(req[r].shared + padTo))
  <1>1. PICK r \in Unpadded : Pool!Reserve(TableOf(r), Ceil(req[r].shared + padTo))
    BY DEF ReservePadding
  <1>2. r \in Range(settling) /\ pc = "pad"
    BY DEF Unpadded, ReservePadding
  <1>3. r \in Live
    BY <1>2 DEF Live
  <1>4. req[r].shared + padTo <= MaxSeq
    BY <1>2 DEF Planned
  <1>5. r \in Rids /\ req[r].shared \in Nat
    BY <1>3, LiveFacts
  <1>6. padTo \in Nat /\ padTo > 0
    BY <1>2, GroupsAssumption DEF TypeOK, Phases
  <1> DEFINE n == req[r].shared + padTo
  <1>7. n \in Nat \ {0} /\ n <= MaxSeq + SpecK
    BY <1>4, <1>5, <1>6, GroupsAssumption, EngineAssumption
  <1> HIDE DEF n
  <1>8. Ceil(n) \in 1..MaxTables
    BY <1>7, CeilBounds
  <1>9. QED
    BY <1>1, <1>2, <1>3, <1>5, <1>7, <1>8 DEF n

LEMMA DraftsMove ==
  ASSUME TypeOK, Placed, Requests, ReserveDrafts \/ DraftsOutOfPages
  PROVE  \E r \in Range(active) :
           /\ r \in Live /\ r \in Rids /\ DraftPages(r) \in 1..MaxTables
           /\ \/ ReserveDrafts /\ Pool!Reserve(TableOf(r), DraftPages(r))
              \/ DraftsOutOfPages /\ Pool!ReserveOutOfPages(TableOf(r), DraftPages(r))
  <1> DEFINE r == Head(Uncovered)
  <1>1. /\ Uncovered # << >>
        /\ \/ ReserveDrafts /\ Pool!Reserve(TableOf(r), DraftPages(r))
           \/ DraftsOutOfPages /\ Pool!ReserveOutOfPages(TableOf(r), DraftPages(r))
    BY DEF ReserveDrafts, DraftsOutOfPages
  <1>2. r \in Range(active)
    BY <1>1, UncoveredFacts
  <1> HIDE DEF r
  <1>3. r \in Live
    BY <1>2 DEF Live
  <1>4. /\ r \in Rids /\ Len(ToksOf(r)) = Len(req[r].prompt) + Len(req[r].gen)
        /\ Len(req[r].prompt) \in Nat \ {0} /\ Len(req[r].gen) \in Nat /\ req[r].maxNew \in Nat \ {0}
        /\ Len(req[r].prompt) + req[r].maxNew <= MaxSeq /\ Len(req[r].gen) <= req[r].maxNew
    BY <1>3, LiveFacts
  <1> DEFINE m == Len(ToksOf(r))
             n == m + SpecK
  <1>5. n \in Nat \ {0} /\ n <= MaxSeq + SpecK
    <2> HIDE DEF m
    <2>1. m = Len(req[r].prompt) + Len(req[r].gen)
      BY <1>4 DEF m
    <2>2. Len(req[r].prompt) \in Nat /\ req[r].maxNew \in Nat /\ Len(req[r].prompt) # 0
      BY <1>4
    <2>3. QED
      BY <1>4, <2>1, <2>2, WithinBounds
  <1> HIDE DEF n
  <1>6. Ceil(n) \in 1..MaxTables
    BY <1>5, CeilBounds
  <1>7. DraftPages(r) \in 1..MaxTables
    BY <1>6 DEF n, DraftPages
  <1>8. QED
    BY <1>1, <1>2, <1>3, <1>4, <1>7

\* The retired request leaves its full pages to the cache.
LEMMA RememberMove ==
  ASSUME TypeOK, Placed, Phases, Requests, Remember
  PROVE  /\ retiring \in Rids /\ retiring \in Live /\ FullPages(retiring) \in 1..MaxTables
         /\ FullPages(retiring) <= Len(table[TableOf(retiring)])
         /\ FullPages(retiring) * PageSize <= Len(ToksOf(retiring))
         /\ Pool!Alias(TableOf(retiring), KeptBy(retiring), FullPages(retiring))
  <1> DEFINE n == Len(ToksOf(retiring))
             T == {Len(table[TableOf(retiring)]), n \div PageSize}
             k == Min(T)
  <1>1. /\ pc = "remember" /\ FullPages(retiring) > 0
        /\ Pool!Alias(TableOf(retiring), KeptBy(retiring), FullPages(retiring))
    BY DEF Remember
  <1>2. retiring # 0 /\ retiring \in Rids
    BY <1>1 DEF Phases, Retirement, Placed
  <1>3. retiring \in Live
    BY <1>2 DEF Live
  <1>4. /\ n = Len(req[retiring].prompt) + Len(req[retiring].gen)
        /\ Len(req[retiring].prompt) \in Nat \ {0} /\ Len(req[retiring].gen) \in Nat /\ req[retiring].maxNew \in Nat \ {0}
        /\ Len(req[retiring].prompt) + req[retiring].maxNew <= MaxSeq /\ Len(req[retiring].gen) <= req[retiring].maxNew
    BY <1>3, LiveFacts
  <1>5. n \in Nat /\ n <= MaxSeq + SpecK
    <2>1. Len(req[retiring].prompt) \in Nat /\ req[retiring].maxNew \in Nat
      BY <1>4
    <2> HIDE DEF n
    <2>2. QED
      BY <1>4, <2>1, WithinBounds
  <1> HIDE DEF n
  <1>6. n \div PageSize \in Nat /\ (n \div PageSize) * PageSize <= n
    BY <1>5, DivFacts
  <1>7. Len(table[TableOf(retiring)]) \in Nat
    BY <1>2, PoolTypes, OwnerFacts
  <1>8. T \in SUBSET Nat /\ T # {}
    BY <1>6, <1>7
  <1>9. k \in T /\ \A y \in T : k <= y
    BY <1>8, LeastOf
  <1>10. k \in Nat /\ k <= Len(table[TableOf(retiring)]) /\ k <= n \div PageSize
    BY <1>8, <1>9
  <1>11. FullPages(retiring) = k
    BY DEF FullPages, n
  <1> HIDE DEF k, T
  <1>12. k * PageSize <= (n \div PageSize) * PageSize /\ k <= k * PageSize /\ k * PageSize \in Nat
         /\ (n \div PageSize) * PageSize \in Nat
    BY <1>6, <1>10, TimesMonotone, TimesFacts
  <1>13. k * PageSize <= n /\ k <= n
    BY <1>5, <1>6, <1>10, <1>12
  <1>14. Ceil(k * PageSize) <= MaxTables /\ MaxTables \in Nat
    <2>1. MaxSeq + SpecK \in Nat /\ k * PageSize <= MaxSeq + SpecK
      BY <1>5, <1>12, <1>13, GroupsAssumption, EngineAssumption
    <2>2. QED
      BY <1>12, <2>1, CeilMonotone, CeilType DEF MaxTables
  <1>15. Ceil(k * PageSize) = k
    BY <1>10, CeilTimes
  <1>16. k \in 1..MaxTables
    BY <1>1, <1>10, <1>11, <1>14, <1>15
  <1>17. QED
    BY <1>1, <1>2, <1>3, <1>10, <1>11, <1>13, <1>16 DEF n

\* A prompt that meets a cached one takes over its whole pages.
LEMMA AdmitMove ==
  ASSUME TypeOK, Placed, Requests, Cached, Admit, NEW q, q = Head(pending)
  PROVE  \/ UNCHANGED <<free, refcount, table, lru>> /\ Depth(q.prompt) < PageSize
         \/ /\ Depth(q.prompt) \in Nat /\ Depth(q.prompt) \div PageSize \in 1..MaxTables
            /\ (Depth(q.prompt) \div PageSize) * PageSize = Depth(q.prompt)
            /\ Depth(q.prompt) <= Len(q.prompt)
            /\ Route(q.prompt) \in Range(order) /\ Route(q.prompt) \in Rids
            /\ SamePrefix(q.prompt, entries[Route(q.prompt)], Depth(q.prompt))
            /\ Pool!Alias(KeptBy(Route(q.prompt)), TableOf(nextRid), Depth(q.prompt) \div PageSize)
            /\ lru' = Touch(Route(q.prompt))
  <1> DEFINE p == q.prompt
             d == Depth(p)
  <1>1. p \in Seq(Tokens) /\ q.maxNew \in MaxNews /\ p \in Prompts
    BY AdmitFacts
  <1>2. Len(p) + q.maxNew <= MaxSeq /\ q.maxNew \in Nat /\ Len(p) \in Nat
    BY <1>1, PromptFacts
  <1>3. ShareInto(nextRid, p)
    BY DEF Admit
  <1> HIDE DEF p
  <1>4. /\ d \in Nat /\ d % PageSize = 0 /\ d <= Len(p)
        /\ d > 0 => Route(p) \in Range(order) /\ SamePrefix(p, entries[Route(p)], d)
    BY <1>1, DepthFacts
  <1>5. CASE ~ (Depth(p) >= PageSize)
    <2>1. UNCHANGED <<free, refcount, table, lru>>
      BY <1>3, <1>5 DEF ShareInto, pool
    <2>2. QED
      BY <1>4, <1>5, <2>1, GroupsAssumption DEF p
  <1>6. CASE Depth(p) >= PageSize
    <2>1. Pool!Alias(KeptBy(Route(p)), TableOf(nextRid), d \div PageSize) /\ lru' = Touch(Route(p))
      BY <1>3, <1>6 DEF ShareInto
    <2>2. Route(p) \in Range(order) /\ SamePrefix(p, entries[Route(p)], d)
      BY <1>4, <1>6, GroupsAssumption
    <2>3. Route(p) \in Rids
      BY <2>2, EntryTypes
    <2>4. /\ d \div PageSize \in Nat /\ (d \div PageSize) * PageSize <= d
          /\ d = (d \div PageSize) * PageSize + (d % PageSize)
      BY <1>4, DivFacts
    <2>5. (d \div PageSize) * PageSize = d
      BY <1>4, WholePages DEF d
    <2> HIDE DEF d
    <2>6. d \div PageSize # 0
      <3>1. d >= PageSize /\ PageSize \in Nat \ {0}
        BY <1>6, GroupsAssumption DEF d
      <3>2. QED
        BY <1>4, <2>5, <3>1
    <2>7. d \in Nat \ {0} /\ d <= MaxSeq + SpecK
      BY <1>2, <1>4, <1>6, GroupsAssumption, EngineAssumption DEF d
    <2>8. Ceil(d) \in 1..MaxTables
      BY <2>7, CeilBounds
    <2>9. Ceil(d) = d \div PageSize
      <3> DEFINE k == d \div PageSize
      <3>1. k \in Nat /\ d = k * PageSize
        BY <2>4, <2>5
      <3> HIDE DEF k
      <3>2. Ceil(k * PageSize) = k
        BY <3>1, CeilTimes
      <3>3. QED
        BY <3>1, <3>2 DEF k
    <2>10. QED
      BY <1>4, <2>1, <2>2, <2>3, <2>5, <2>8, <2>9 DEF p, d
  <1>7. QED
    BY <1>5, <1>6

LEMMA EvictMove ==
  ASSUME TypeOK, Evict
  PROVE  /\ lru # << >> /\ Head(lru) \in Rids /\ Head(lru) \in Range(lru) /\ Pool!Release(KeptBy(Head(lru)))
  <1>1. Len(lru) > Capacity /\ Pool!Release(KeptBy(Head(lru))) /\ lru \in Seq(Rids)
    BY DEF Evict, TypeOK
  <1>2. lru # << >>
    <2>1. SUFFICES ASSUME lru = << >> PROVE FALSE
      OBVIOUS
    <2>2. Len(lru) = 0
      BY <2>1
    <2>3. QED
      BY <1>1, <2>2, EngineAssumption
  <1>3. QED
    BY <1>1, <1>2, HeadTail

LEMMA EnginePoolStep ==
  ASSUME TypeOK, Placed, Phases, Requests, Cached, Planned, Next
  PROVE  [Pool!Next]_(Pool!poolVars)
  <1>0. Ceil(MaxSeq + SpecK) = MaxTables
    BY DEF MaxTables
  <1>1. ASSUME UNCHANGED <<free, refcount, table>> PROVE [Pool!Next]_(Pool!poolVars)
    BY <1>1 DEF Pool!poolVars
  <1>2. ASSUME NEW o \in Owners, NEW n \in 1..MaxTables, Pool!Reserve(o, n) \/ Pool!ReserveOutOfPages(o, n)
        PROVE  Pool!Next
    BY <1>0, <1>2 DEF Pool!Next
  <1>3. ASSUME NEW src \in Owners, NEW dst \in Owners, NEW n \in 1..MaxTables, Pool!Alias(src, dst, n)
        PROVE  Pool!Next
    BY <1>0, <1>3 DEF Pool!Next
  <1>4. ASSUME NEW o \in Owners, Pool!Release(o) PROVE Pool!Next
    BY <1>4 DEF Pool!Next
  <1>5. CASE Reserving
    <2>1. CASE ReserveAdmitted
      <3>1. PICK r : r = Last(admitted)
        OBVIOUS
      <3>2. r \in Rids /\ Ceil(Len(req[r].prompt) + req[r].maxNew) \in 1..MaxTables
            /\ Pool!Reserve(TableOf(r), Ceil(Len(req[r].prompt) + req[r].maxNew))
        BY <2>1, <3>1, ReserveAdmittedMove
      <3>3. QED
        BY <1>2, <3>2, OwnerFacts
    <2>2. CASE ReservePadding
      <3>1. PICK r \in Range(settling) :
               /\ r \in Rids /\ Ceil(req[r].shared + padTo) \in 1..MaxTables
               /\ Pool!Reserve(TableOf(r), Ceil(req[r].shared + padTo))
        BY <2>2, ReservePaddingMove
      <3>2. QED
        BY <1>2, <3>1, OwnerFacts
    <2>3. CASE ReserveDrafts \/ DraftsOutOfPages
      <3>1. PICK r \in Range(active) :
               /\ r \in Rids /\ DraftPages(r) \in 1..MaxTables
               /\ Pool!Reserve(TableOf(r), DraftPages(r)) \/ Pool!ReserveOutOfPages(TableOf(r), DraftPages(r))
        BY <2>3, DraftsMove
      <3>2. QED
        BY <1>2, <3>1, OwnerFacts
    <2>4. QED
      BY <1>5, <2>1, <2>2, <2>3 DEF Reserving
  <1>6. CASE Remember
    BY <1>3, <1>6, RememberMove, OwnerFacts
  <1>7. CASE Evict
    BY <1>4, <1>7, EvictMove, OwnerFacts
  <1>8. CASE Admit
    <2>1. PICK q : q = Head(pending)
      OBVIOUS
    <2>2. nextRid \in Rids
      BY <1>8, <2>1, AdmitFacts
    <2>3. CASE UNCHANGED <<free, refcount, table, lru>>
      BY <1>1, <2>3
    <2>4. CASE /\ Depth(q.prompt) \div PageSize \in 1..MaxTables /\ Route(q.prompt) \in Rids
               /\ Pool!Alias(KeptBy(Route(q.prompt)), TableOf(nextRid), Depth(q.prompt) \div PageSize)
      BY <1>3, <2>2, <2>4, OwnerFacts
    <2>5. QED
      BY <1>8, <2>1, <2>3, <2>4, AdmitMove
  <1>9. CASE Free
    <2>1. retiring \in Rids /\ Pool!Release(TableOf(retiring))
      BY <1>9, FreeFacts
    <2>2. QED
      BY <1>4, <2>1, OwnerFacts
  <1>10. CASE Quiet
    BY <1>1, <1>10, QuietStays
  <1>11. CASE EndAdmit \/ Forward \/ Submitting \/ TakeGroup
    BY <1>1, <1>11 DEF EndAdmit, Forward, Submitting, Submit, TakeGroup, pool
  <1>12. CASE Settle \/ Emit
    BY <1>1, <1>12 DEF Settle, Emit, pool
  <1>13. CASE Decoding
    BY <1>1, <1>13, DecodingFacts
  <1>14. CASE StartOnline
    BY <1>1, <1>14, StartOnlineFacts
  <1>15. QED
    BY <1>5, <1>6, <1>7, <1>8, <1>9, <1>10, <1>11, <1>12, <1>13, <1>14, NextCases DEF Staying

-----------------------------------------------------------------------------
(* What the engine keeps of each request *)

\* Taking a group in hand moves requests within the wave.
LEMMA TakeLive ==
  ASSUME TypeOK, Placed, Requests, Planned, Phases, TakeGroup
  PROVE  /\ Live' = Live /\ settling = << >> /\ pc = "prefill" /\ pc' = "pad" /\ padTo = 0
         /\ retiring = 0 /\ emitting = << >>
         /\ UNCHANGED <<free, refcount, table, kv, entries, order, lru, pending, submitted, nextRid, req, active,
                        emitting, verified, retiring, done, failures>>
  <1>1. /\ pc = "prefill" /\ pc' = "pad"
        /\ UNCHANGED <<free, refcount, table, kv, entries, order, lru, pending, submitted, nextRid, req, active, emitting,
                       verified, retiring, done, failures>>
    BY DEF TakeGroup, pool, cacheVars
  <1>2. padTo \in Nat
    BY GroupsAssumption DEF TypeOK
  <1>3. settling = << >> /\ padTo = 0 /\ retiring = 0 /\ emitting = << >>
    BY <1>1, <1>2 DEF Phases, Retirement
  <1>4. Range(settling') \subseteq Range(admitted) /\ Range(admitted') = Range(admitted) \ Range(settling')
    BY TakeFacts
  <1>5. Range(settling) = {} /\ Range(admitted)' = Range(admitted') /\ Range(settling)' = Range(settling')
    BY <1>3, EmptyRange
  <1>6. Live' = Live
    BY <1>1, <1>4, <1>5 DEF Live
  <1>7. QED
    BY <1>1, <1>3, <1>6

\* Decoding moves the active requests on to be emitted.
LEMMA DecodingLive ==
  ASSUME TypeOK, Decoding, Phases, Requests
  PROVE  /\ Live' = Live /\ Live = Range(active) /\ Range(active)' = {} /\ Range(emitting)' = Range(active)
         /\ \A r \in Rids : verified[r] = << >>
         /\ \A r \in Rids : verified'[r] # << >> => r \in Range(active)
  <1>1. /\ emitting' = active /\ active' = << >> /\ emitting = << >> /\ retiring = 0 /\ admitted = << >>
        /\ settling = << >> /\ UNCHANGED <<admitted, settling, retiring>>
    BY DecodingFacts
  <1>2. Range(active)' = {} /\ Range(emitting)' = Range(active) /\ Range(emitting) = {}
    BY <1>1, EmptyRange
  <1>3. Live' = Live /\ Live = Range(active)
    BY <1>1, <1>2, EmptyRange DEF Live
  <1>4. \A r \in Rids : verified[r] = << >>
    BY <1>2 DEF Requests
  <1>5. \A r \in Rids : verified'[r] # << >> => r \in Range(active)
    BY <1>4 DEF Decoding, Decode, Verify
  <1>6. QED
    BY <1>2, <1>3, <1>4, <1>5

LEMMA RequestsStep ==
  ASSUME TypeOK, Phases, Placed, Requests, Cached, Planned, Next
  PROVE  Requests'
  <1>1. CASE Staying
    <2>1. UNCHANGED places
      BY <1>1, StayingStays
    <2>2. QED
      BY <2>1 DEF places, Requests, Live
  <1>2. CASE Submitting
    <2> DEFINE S == [ext : Rids, prompt : Prompts, maxNew : MaxNews]
    <2>1. PICK p \in Prompts, n \in MaxNews : Submit(p, n)
      BY <1>2 DEF Submitting
    <2>2. /\ pending' = Append(pending, [ext |-> submitted + 1, prompt |-> p, maxNew |-> n])
          /\ submitted' = submitted + 1 /\ submitted < MaxRequests
          /\ UNCHANGED <<req, admitted, settling, active, emitting, verified, retiring>>
      BY <2>1 DEF Submit, batch
    <2>3. submitted \in Nat
      BY Sizes DEF TypeOK
    <2>4. ASSUME NEW i \in DOMAIN pending'
          PROVE  pending'[i].ext \in 1..submitted + 1
      <3>1. pending \in Seq(S)
        BY DEF TypeOK
      <3>2. PICK x : x = [ext |-> submitted + 1, prompt |-> p, maxNew |-> n]
        OBVIOUS
      <3>3. pending' = Append(pending, x) /\ x.ext = submitted + 1
        BY <2>2, <3>2
      <3> HIDE DEF S
      <3>4. Len(pending) \in Nat /\ DOMAIN pending' = 1..Len(pending) + 1
            /\ \A j \in 1..Len(pending) : j \in DOMAIN pending /\ pending'[j] = pending[j]
            /\ pending'[Len(pending) + 1] = x
        BY <3>1, <3>3
      <3>5. CASE i = Len(pending) + 1
        <4>1. pending'[i].ext = submitted + 1
          BY <3>3, <3>4, <3>5
        <4>2. QED
          BY <2>3, <4>1
      <3>6. CASE i # Len(pending) + 1
        <4>1. i \in DOMAIN pending /\ pending'[i] = pending[i]
          BY <3>4, <3>6
        <4>2. pending[i].ext \in 1..submitted
          BY <4>1 DEF Requests
        <4>3. QED
          BY <2>3, <4>1, <4>2
      <3>7. QED
        BY <3>5, <3>6
    <2>5. Live' = Live
      BY <2>2 DEF Live
    <2>6. \A r \in Live : req[r].ext \in 1..submitted + 1
      BY <2>3 DEF Requests
    <2>7. QED
      BY <2>2, <2>4, <2>5, <2>6 DEF Requests
  <1>3. CASE Admit
    <2>1. PICK q : q = Head(pending)
      OBVIOUS
    <2> DEFINE new == [ext |-> q.ext, prompt |-> q.prompt, gen |-> << >>, maxNew |-> q.maxNew,
                       shared |-> SharedTokens(q.prompt)]
               S == [ext : Rids, prompt : Prompts, maxNew : MaxNews]
    <2>2. /\ nextRid \in Rids /\ nextRid \notin Live /\ pending # << >>
          /\ q.ext \in 1..submitted /\ q.prompt \in Prompts /\ q.maxNew \in MaxNews
          /\ pending' = Tail(pending) /\ Len(pending') = Len(pending) - 1 /\ Len(pending) \in Nat
          /\ admitted' = Append(admitted, nextRid) /\ req' = [req EXCEPT ![nextRid] = new]
          /\ SharedTokens(q.prompt) % PageSize = 0 /\ SharedTokens(q.prompt) < Len(q.prompt)
          /\ Capacity = 0 => SharedTokens(q.prompt) = 0
          /\ Live' = Live \cup {nextRid}
          /\ UNCHANGED <<submitted, settling, active, emitting, verified, retiring>>
      BY <1>3, <2>1, AdmitFacts
    <2>3. DOMAIN req = Rids
      BY DEF TypeOK
    <2>4. req'[nextRid] = new /\ \A r \in Rids : r # nextRid => req'[r] = req[r]
      BY <2>2, <2>3
    <2>5. Live \subseteq Rids
      BY DEF TypeOK
    <2>6. \A r \in Live : req'[r] = req[r]
      BY <2>2, <2>4, <2>5
    <2>7. Range(admitted)' = Range(admitted) \cup {nextRid}
      BY <2>2, AppendOne DEF Placed
    <2>8. ASSUME NEW i \in DOMAIN pending'
          PROVE  pending'[i].ext \in 1..submitted
      <3>1. pending \in Seq(S)
        BY DEF TypeOK
      <3> HIDE DEF S
      <3>2. i + 1 \in DOMAIN pending /\ pending'[i] = pending[i + 1]
        BY <2>2, <3>1
      <3>3. QED
        BY <3>2 DEF Requests
    <2>9. \A r \in Live' : /\ req'[r].ext \in 1..submitted /\ req'[r].prompt \in Prompts /\ req'[r].maxNew \in MaxNews
                           /\ req'[r].shared % PageSize = 0 /\ req'[r].shared < Len(req'[r].prompt)
                           /\ Capacity = 0 => req'[r].shared = 0
      <3>1. \A r \in Live : /\ req'[r].ext \in 1..submitted /\ req'[r].prompt \in Prompts /\ req'[r].maxNew \in MaxNews
                            /\ req'[r].shared % PageSize = 0 /\ req'[r].shared < Len(req'[r].prompt)
                            /\ Capacity = 0 => req'[r].shared = 0
        BY <2>6 DEF Requests
      <3>2. QED
        BY <2>2, <2>4, <3>1
    <2>10. \A r \in Range(admitted)' \cup Range(settling)' : req'[r].gen = << >>
      <3>1. \A r \in Range(admitted) \cup Range(settling) : r \in Live /\ req[r].gen = << >>
        BY DEF Requests, Live
      <3>2. QED
        BY <2>2, <2>4, <2>6, <2>7, <3>1
    <2>11. \A r \in Range(active)' \cup Range(emitting)' : req'[r].gen # << >> /\ Len(req'[r].gen) < req'[r].maxNew
      <3>1. \A r \in Range(active) \cup Range(emitting) :
              r \in Live /\ req[r].gen # << >> /\ Len(req[r].gen) < req[r].maxNew
        BY DEF Requests, Live
      <3>2. QED
        BY <2>2, <2>6, <3>1
    <2>12. retiring' # 0 => req'[retiring'].gen # << >> /\ Len(req'[retiring'].gen) <= req'[retiring'].maxNew
      <3>1. retiring # 0 => retiring \in Live
        BY DEF Live
      <3>2. QED
        BY <2>2, <2>6, <3>1 DEF Requests
    <2>13. \A r \in Rids : verified'[r] # << >> => r \in Range(emitting)'
      BY <2>2 DEF Requests
    <2>14. QED
      BY <2>2, <2>8, <2>9, <2>10, <2>11, <2>12, <2>13 DEF Requests
  <1>4. CASE TakeGroup
    <2>1. /\ Live' = Live /\ settling = << >> /\ retiring = 0
          /\ UNCHANGED <<pending, submitted, req, active, emitting, verified, retiring>>
      BY <1>4, TakeLive
    <2>2. Range(settling') \subseteq Range(admitted) /\ Range(admitted') = Range(admitted) \ Range(settling')
      BY <1>4, TakeFacts
    <2>3. \A r \in Range(admitted)' \cup Range(settling)' : req'[r].gen = << >>
      BY <2>1, <2>2 DEF Requests
    <2>4. QED
      BY <2>1, <2>3 DEF Requests
  <1>5. CASE Settle \/ Emit
    <2>1. PICK r \in Rids, toks \in Seq(Tokens) : Hands(r, toks)
      BY <1>5, HandsExist
    <2>2. /\ Live' = Live
          /\ \A s \in Rids \ {r} : req'[s] = req[s]
          /\ req'[r].ext = req[r].ext /\ req'[r].prompt = req[r].prompt /\ req'[r].maxNew = req[r].maxNew
          /\ req'[r].shared = req[r].shared /\ req'[r].gen # << >> /\ Len(req'[r].gen) <= req[r].maxNew
          /\ \/ retiring' = r /\ active' = active
             \/ retiring' = 0 /\ active' = Append(active, r) /\ Len(req'[r].gen) < req[r].maxNew
      BY <2>1, HandsFacts
    <2>3. /\ r \in Live /\ r \notin Range(active) /\ r \notin Range(admitted) /\ r # 0 /\ retiring = 0
          /\ UNCHANGED <<pending, submitted, admitted>>
      BY <2>1 DEF Hands
    <2>4. /\ settling \in Seq(Rids) /\ emitting \in Seq(Rids) /\ active \in Seq(Rids)
          /\ IsInjective(settling) /\ IsInjective(emitting) /\ Live \subseteq Rids
      BY DEF Placed, TypeOK
    <2>5. /\ Range(settling)' \subseteq Range(settling) \ {r} /\ Range(emitting)' \subseteq Range(emitting) \ {r}
          /\ \A s \in Rids : verified'[s] # << >> => s # r /\ verified[s] # << >>
          /\ Range(emitting) \ {r} \subseteq Range(emitting)'
      <3>1. CASE pc = "settle"
        <4>1. /\ settling # << >> /\ r = Head(settling) /\ settling' = Tail(settling) /\ verified[r] = << >>
              /\ emitting = << >> /\ emitting' = emitting /\ verified' = verified
          BY <2>1, <3>1 DEF Hands
        <4>2. Range(settling) = Range(Tail(settling)) \cup {r} /\ r \notin Range(Tail(settling))
          BY <2>4, <4>1, HeadTail
        <4>3. QED
          BY <4>1, <4>2, EmptyRange
      <3>2. CASE pc # "settle"
        <4>1. /\ emitting # << >> /\ r = Head(emitting) /\ emitting' = Tail(emitting)
              /\ verified' = [verified EXCEPT ![r] = << >>]
              /\ settling = << >> /\ settling' = settling
          BY <2>1, <3>2 DEF Hands
        <4>2. Range(emitting) = Range(Tail(emitting)) \cup {r} /\ r \notin Range(Tail(emitting))
          BY <2>4, <4>1, HeadTail
        <4>3. \A s \in Rids : verified'[s] # << >> => s # r /\ verified[s] # << >>
          BY <4>1 DEF TypeOK
        <4>4. QED
          BY <4>1, <4>2, <4>3, EmptyRange
      <3>3. QED
        BY <3>1, <3>2
    <2>6. \A s \in Live' : /\ req'[s].ext \in 1..submitted /\ req'[s].prompt \in Prompts /\ req'[s].maxNew \in MaxNews
                           /\ req'[s].shared % PageSize = 0 /\ req'[s].shared < Len(req'[s].prompt)
                           /\ Capacity = 0 => req'[s].shared = 0
      BY <2>2, <2>4 DEF Requests
    <2>7. \A s \in Range(admitted)' \cup Range(settling)' : req'[s].gen = << >>
      <3>1. \A s \in Range(admitted)' \cup Range(settling)' :
              s \in Live /\ s # r /\ s \in Range(admitted) \cup Range(settling)
        BY <2>3, <2>5 DEF Live
      <3>2. QED
        BY <2>2, <2>4, <3>1 DEF Requests
    <2>8. \A s \in Range(active)' \cup Range(emitting)' : req'[s].gen # << >> /\ Len(req'[s].gen) < req'[s].maxNew
      <3>1. \A s \in (Range(active) \cup Range(emitting)) \ {r} : req'[s].gen # << >> /\ Len(req'[s].gen) < req'[s].maxNew
        BY <2>2, <2>4 DEF Requests, Live
      <3>2. CASE active' = active
        BY <2>3, <2>5, <3>1, <3>2
      <3>3. CASE active' = Append(active, r) /\ Len(req'[r].gen) < req[r].maxNew
        <4>1. Range(active)' = Range(active) \cup {r}
          BY <2>4, <3>3, AppendOne
        <4>2. QED
          BY <2>2, <2>5, <3>1, <3>3, <4>1
      <3>4. QED
        BY <2>2, <3>2, <3>3
    <2>9. retiring' # 0 => req'[retiring'].gen # << >> /\ Len(req'[retiring'].gen) <= req'[retiring'].maxNew
      BY <2>2
    <2>10. \A s \in Rids : verified'[s] # << >> => s \in Range(emitting)'
      BY <2>5 DEF Requests
    <2>11. \A i \in DOMAIN pending' : pending'[i].ext \in 1..submitted'
      BY <2>3 DEF Requests
    <2>12. submitted' = submitted
      BY <2>3
    <2>13. QED
      BY <2>6, <2>7, <2>8, <2>9, <2>10, <2>11, <2>12 DEF Requests
  <1>6. CASE Decoding
    <2>1. /\ admitted = << >> /\ settling = << >> /\ retiring = 0
          /\ UNCHANGED <<pending, submitted, req, admitted, settling, retiring>>
      BY <1>6, DecodingFacts
    <2>2. /\ Live' = Live /\ Range(active)' = {} /\ Range(emitting)' = Range(active)
          /\ \A r \in Rids : verified'[r] # << >> => r \in Range(active)
      BY <1>6, DecodingLive
    <2>3. QED
      BY <2>1, <2>2 DEF Requests
  <1>7. CASE Free
    <2>1. /\ retiring \in Rids /\ retiring' = 0 /\ Live' = Live \ {retiring}
          /\ req' = [req EXCEPT ![retiring] = NoRequest]
          /\ UNCHANGED <<pending, submitted, admitted, settling, active, emitting, verified>>
      BY <1>7, FreeFacts
    <2>2. \A r \in Live' : req'[r] = req[r]
      BY <2>1 DEF TypeOK
    <2>3. Range(admitted) \cup Range(settling) \cup Range(active) \cup Range(emitting) \subseteq Live'
      BY <2>1 DEF Live, Placed
    <2>4. QED
      BY <2>1, <2>2, <2>3 DEF Requests
  <1>8. CASE StartOnline
    <2>1. /\ admitted' = << >> /\ settling' = << >> /\ active' = << >> /\ emitting' = << >> /\ retiring' = 0
          /\ Live' = {} /\ pending' = << >> /\ emitting = << >> /\ verified' = verified
      BY <1>8, StartOnlineFacts
    <2>2. \A r \in Rids : verified[r] = << >>
      BY <2>1, EmptyRange DEF Requests
    <2>3. QED
      BY <2>1, <2>2, EmptyRange DEF Requests
  <1>9. QED
    BY <1>1, <1>2, <1>3, <1>4, <1>5, <1>6, <1>7, <1>8, NextCases

-----------------------------------------------------------------------------
(* What a step does to the tables *)

\* The table of o keeps its pages and may have new ones behind them.
Extends(o) ==
  /\ Len(table[o]) <= Len(table'[o])
  /\ \A k \in 1..Len(table[o]) : k \in DOMAIN table'[o] /\ table'[o][k] = table[o][k]

LEMMA ReservingGrows ==
  ASSUME TypeOK, Placed, Phases, Requests, Planned, Reserving
  PROVE  \E r \in Live : \E f : r \in Rids /\ Grows(TableOf(r), f) /\ ForgetFresh
  <1>0. ForgetFresh
    BY DEF Reserving, ReserveAdmitted, ReservePadding, ReserveDrafts, DraftsOutOfPages
  <1>00. \A n \in 1..MaxTables : n \in Nat
    OBVIOUS
  <1>1. CASE ReserveAdmitted
    <2>1. PICK r : r = Last(admitted)
      OBVIOUS
    <2>2. r \in Live /\ r \in Rids /\ Ceil(Len(req[r].prompt) + req[r].maxNew) \in Nat
          /\ Pool!Reserve(TableOf(r), Ceil(Len(req[r].prompt) + req[r].maxNew))
      BY <1>00, <1>1, <2>1, ReserveAdmittedMove
    <2>3. QED
      BY <1>0, <2>2, OwnerFacts, ReserveNative
  <1>2. CASE ReservePadding
    <2>1. PICK r \in Range(settling) :
             /\ r \in Live /\ r \in Rids /\ Ceil(req[r].shared + padTo) \in Nat
             /\ Pool!Reserve(TableOf(r), Ceil(req[r].shared + padTo))
      BY <1>00, <1>2, ReservePaddingMove
    <2>2. QED
      BY <1>0, <2>1, OwnerFacts, ReserveNative
  <1>3. CASE ReserveDrafts \/ DraftsOutOfPages
    <2>1. PICK r \in Range(active) :
             /\ r \in Live /\ r \in Rids /\ DraftPages(r) \in Nat
             /\ Pool!Reserve(TableOf(r), DraftPages(r)) \/ Pool!ReserveOutOfPages(TableOf(r), DraftPages(r))
      BY <1>00, <1>3, DraftsMove
    <2>2. \E f : Grows(TableOf(r), f)
      BY <2>1, OwnerFacts, ReserveNative, OutOfPagesNative
    <2>3. QED
      BY <1>0, <2>1, <2>2
  <1>4. QED
    BY <1>1, <1>2, <1>3 DEF Reserving

\* The kinds of steps, by what becomes of the block tables.
LEMMA TableMoves ==
  ASSUME TypeOK, Placed, Phases, Requests, Cached, Planned, Next
  PROVE  \/ UNCHANGED <<free, table>> /\ ~Reserving /\ ~Evict /\ ~Remember /\ ~Free
         \/ Reserving /\ \E r \in Live : \E f : r \in Rids /\ Grows(TableOf(r), f) /\ ForgetFresh
         \/ Remember /\ Aliases(TableOf(retiring), KeptBy(retiring), FullPages(retiring)) /\ retiring \in Rids
         \/ Admit /\ \E q : /\ q = Head(pending) /\ nextRid \in Rids /\ Route(q.prompt) \in Rids
                            /\ Aliases(KeptBy(Route(q.prompt)), TableOf(nextRid), Depth(q.prompt) \div PageSize)
         \/ Evict /\ Releases(KeptBy(Head(lru))) /\ Head(lru) \in Rids
         \/ Free /\ Releases(TableOf(retiring)) /\ retiring \in Rids
  <1>1. CASE Reserving
    BY <1>1, ReservingGrows
  <1>2. CASE Remember
    BY <1>2, RememberMove, AliasNative
  <1>3. CASE Evict
    BY <1>3, EvictMove, ReleaseNative
  <1>4. CASE Free
    BY <1>4, FreeFacts, ReleaseNative
  <1>5. CASE Admit /\ ~Reserving /\ ~Evict /\ ~Remember /\ ~Free
    <2>1. PICK q : q = Head(pending)
      OBVIOUS
    <2>2. nextRid \in Rids
      BY <1>5, <2>1, AdmitFacts
    <2>3. \/ UNCHANGED <<free, table>>
          \/ /\ Route(q.prompt) \in Rids
             /\ Pool!Alias(KeptBy(Route(q.prompt)), TableOf(nextRid), Depth(q.prompt) \div PageSize)
      BY <1>5, <2>1, AdmitMove
    <2>4. QED
      BY <1>5, <2>1, <2>2, <2>3, AliasNative
  <1>6. ASSUME ~Reserving, ~Evict, ~Remember, ~Free, ~Admit
        PROVE  UNCHANGED <<free, table>>
    <2>1. CASE Quiet
      BY <2>1, QuietStays
    <2>2. CASE EndAdmit \/ Forward \/ Submitting \/ TakeGroup
      BY <2>2 DEF EndAdmit, Forward, Submitting, Submit, TakeGroup, pool
    <2>3. CASE Settle \/ Emit
      BY <2>3 DEF Settle, Emit, pool
    <2>4. CASE Decoding
      BY <2>4, DecodingFacts
    <2>5. CASE StartOnline
      BY <2>5, StartOnlineFacts
    <2>6. QED
      BY <1>6, <2>1, <2>2, <2>3, <2>4, <2>5, NextCases DEF Staying
  <1>7. QED
    BY <1>1, <1>2, <1>3, <1>4, <1>5, <1>6

\* No table loses a page, except one that is released.
LEMMA TablesExtend ==
  ASSUME TypeOK, Placed, Phases, Requests, Cached, Planned, Next, NEW o \in Owners
  PROVE  \/ Extends(o)
         \/ Free /\ o = TableOf(retiring) /\ table'[o] = << >>
         \/ Evict /\ o = KeptBy(Head(lru)) /\ table'[o] = << >>
  <1>0. Len(table[o]) \in Nat /\ DOMAIN table[o] = 1..Len(table[o])
    BY PoolTypes
  <1>1. ASSUME table'[o] = table[o] PROVE Extends(o)
    BY <1>0, <1>1 DEF Extends
  <1>2. CASE UNCHANGED <<free, table>>
    BY <1>1, <1>2
  <1>3. ASSUME NEW r \in Rids, NEW f, Grows(TableOf(r), f)
        PROVE  Extends(o)
    <2>1. TableOf(r) \in Owners
      BY OwnerFacts
    <2>2. CASE o = TableOf(r)
      <3>1. /\ Len(table'[o]) = Len(table[o]) + Len(f) /\ DOMAIN table'[o] = 1..(Len(table[o]) + Len(f))
            /\ \A k \in 1..Len(table[o]) : table'[o][k] = table[o][k]
        BY <1>3, <2>1, <2>2, GrowsTables
      <3>2. Len(f) \in Nat
        BY <1>3, <2>1, GrowsFree
      <3>3. QED
        BY <1>0, <3>1, <3>2 DEF Extends
    <2>3. CASE o # TableOf(r)
      BY <1>1, <1>3, <2>1, <2>3, GrowsTables
    <2>4. QED
      BY <2>2, <2>3
  <1>4. ASSUME NEW src \in Owners, NEW dst \in Owners, NEW k, Aliases(src, dst, k)
        PROVE  Extends(o)
    <2>1. CASE o = dst
      <3>1. table[o] = << >> /\ Len(table[o]) = 0
        BY <1>4, <2>1 DEF Aliases
      <3>2. Len(table'[o]) = k /\ k \in Nat
        <4>1. Len(table'[o]) = k /\ k \in 1..Len(table[src])
          BY <1>4, <2>1, AliasesTables
        <4>2. QED
          BY <4>1
      <3>3. QED
        BY <3>1, <3>2 DEF Extends
    <2>2. CASE o # dst
      BY <1>1, <1>4, <2>2, AliasesTables
    <2>3. QED
      BY <2>1, <2>2
  <1>5. ASSUME NEW q \in Owners, Releases(q)
        PROVE  Extends(o) \/ (o = q /\ table'[o] = << >>)
    BY <1>1, <1>5, ReleasesTables
  <1>6. CASE Reserving
    BY <1>3, <1>6, ReservingGrows
  <1>7. CASE Remember /\ Aliases(TableOf(retiring), KeptBy(retiring), FullPages(retiring)) /\ retiring \in Rids
    BY <1>4, <1>7, OwnerFacts
  <1>8. CASE Evict /\ Releases(KeptBy(Head(lru))) /\ Head(lru) \in Rids
    BY <1>5, <1>8, OwnerFacts
  <1>9. CASE Free /\ Releases(TableOf(retiring)) /\ retiring \in Rids
    BY <1>5, <1>9, OwnerFacts
  <1>10. CASE \E q : /\ nextRid \in Rids /\ Route(q.prompt) \in Rids
                     /\ Aliases(KeptBy(Route(q.prompt)), TableOf(nextRid), Depth(q.prompt) \div PageSize)
    BY <1>4, <1>10, OwnerFacts
  <1>11. QED
    BY <1>2, <1>6, <1>7, <1>8, <1>9, <1>10, TableMoves

\* The table of a request that stays live only grows.
LEMMA LiveExtends ==
  ASSUME TypeOK, Placed, Phases, Requests, Cached, Planned, Next, NEW r \in Rids, ~Free \/ r # retiring
  PROVE  Extends(TableOf(r))
  <1>1. TableOf(r) \in Owners
    BY OwnerFacts
  <1>2. Free => retiring \in Rids
    BY FreeFacts
  <1>3. Evict => Head(lru) \in Rids
    BY EvictMove
  <1>4. QED
    BY <1>1, <1>2, <1>3, OwnerFacts, TablesExtend

\* Outside of Remember and Evict the tables of the cache stay.
LEMMA KeptStays ==
  ASSUME TypeOK, Placed, Phases, Requests, Cached, Planned, Next, ~Remember, ~Evict, NEW e \in Rids
  PROVE  table'[KeptBy(e)] = table[KeptBy(e)]
  <1>1. KeptBy(e) \in Owners
    BY OwnerFacts
  <1>2. CASE UNCHANGED <<free, table>>
    BY <1>2
  <1>3. ASSUME NEW r \in Rids, NEW f, Grows(TableOf(r), f)
        PROVE  table'[KeptBy(e)] = table[KeptBy(e)]
    BY <1>1, <1>3, OwnerFacts, GrowsTables
  <1>4. ASSUME NEW src \in Rids, NEW dst \in Rids, NEW k, Aliases(KeptBy(src), TableOf(dst), k)
        PROVE  table'[KeptBy(e)] = table[KeptBy(e)]
    BY <1>1, <1>4, OwnerFacts, AliasesTables
  <1>5. ASSUME NEW r \in Rids, Releases(TableOf(r))
        PROVE  table'[KeptBy(e)] = table[KeptBy(e)]
    BY <1>1, <1>5, OwnerFacts, ReleasesTables
  <1>6. QED
    BY <1>2, <1>3, <1>4, <1>5, TableMoves

-----------------------------------------------------------------------------
(* The prefix cache *)

CacheShape ==
  /\ IsInjective(order) /\ IsInjective(lru) /\ Range(order) = Range(lru)
  /\ Capacity = 0 => order = << >>
  /\ \A e \in Rids : Len(entries[e]) = Len(table[KeptBy(e)]) * PageSize
  /\ \A e \in Rids : e \in Range(order) <=> table[KeptBy(e)] # << >>

EntriesOver == \A e \in Range(order) : e < nextRid /\ (e \in Live => e = retiring /\ pc \in {"evict", "free"})

FreshEmpty == Capacity > 0 => \A r \in Rids : r >= nextRid => table[TableOf(r)] = << >>

LEMMA CachedParts ==
  /\ Cached <=> CacheShape /\ EntriesOver /\ FreshEmpty
  /\ Cached' <=> CacheShape' /\ EntriesOver' /\ FreshEmpty'
  BY DEF Cached, CacheShape, EntriesOver, FreshEmpty

\* Routing a prompt to an entry makes it the last in line for eviction.
LEMMA CacheStays ==
  ASSUME TypeOK, Placed, Phases, Requests, Cached, Planned, Next, ~Remember, ~Evict
  PROVE  UNCHANGED <<entries, order>> /\ IsInjective(lru') /\ Range(lru') = Range(lru) /\ lru' \in Seq(Rids)
  <1>1. ASSUME UNCHANGED <<entries, order, lru>>
        PROVE  UNCHANGED <<entries, order>> /\ IsInjective(lru') /\ Range(lru') = Range(lru) /\ lru' \in Seq(Rids)
    BY <1>1 DEF Cached, TypeOK
  <1>2. CASE Admit
    <2>1. PICK q : q = Head(pending)
      OBVIOUS
    <2>2. UNCHANGED <<entries, order>>
      BY <1>2, <2>1, AdmitFacts
    <2>3. CASE lru' = lru
      BY <2>2, <2>3, <1>1
    <2>4. CASE Route(q.prompt) \in Range(order) /\ Route(q.prompt) \in Rids /\ lru' = Touch(Route(q.prompt))
      <3> DEFINE e == Route(q.prompt)
      <3>1. e \in Range(lru) /\ e \in Rids /\ lru \in Seq(Rids) /\ IsInjective(lru) /\ lru' = Append(Without(lru, e), e)
        BY <2>4 DEF Cached, TypeOK, Touch
      <3> HIDE DEF e
      <3>2. Without(lru, e) \in Seq(Rids) /\ Range(Without(lru, e)) = Range(lru) \ {e} /\ IsInjective(Without(lru, e))
        BY <3>1, WithoutFacts
      <3>3. IsInjective(lru') /\ Range(lru') = (Range(lru) \ {e}) \cup {e} /\ lru' \in Seq(Rids)
        BY <3>1, <3>2, AppendOne
      <3>4. QED
        BY <2>2, <3>1, <3>3
    <2>5. QED
      BY <1>2, <2>1, <2>3, <2>4, AdmitMove
  <1>3. CASE Quiet
    BY <1>1, <1>3, QuietStays
  <1>4. CASE Reserving
    BY <1>1, <1>4, ReservingStays
  <1>5. CASE EndAdmit \/ Forward \/ Submitting \/ TakeGroup
    BY <1>1, <1>5 DEF EndAdmit, Forward, Submitting, Submit, TakeGroup, cacheVars
  <1>6. CASE Settle \/ Emit
    BY <1>1, <1>6 DEF Settle, Emit, cacheVars
  <1>7. CASE Decoding
    BY <1>1, <1>7, DecodingFacts
  <1>8. CASE Free
    BY <1>1, <1>8, FreeFacts
  <1>9. CASE StartOnline
    BY <1>1, <1>9, StartOnlineFacts
  <1>10. QED
    BY <1>2, <1>3, <1>4, <1>5, <1>6, <1>7, <1>8, <1>9, NextCases DEF Staying

\* What Remember and Evict do to the cache.
LEMMA RememberFacts ==
  ASSUME TypeOK, Placed, Phases, Requests, Cached, Remember
  PROVE  /\ retiring \in Rids /\ retiring \in Live /\ retiring \notin Range(order) /\ retiring \notin Range(lru)
         /\ FullPages(retiring) \in Nat \ {0} /\ FullPages(retiring) * PageSize <= Len(ToksOf(retiring))
         /\ Aliases(TableOf(retiring), KeptBy(retiring), FullPages(retiring))
         /\ FullPages(retiring) <= Len(table[TableOf(retiring)])
         /\ table'[KeptBy(retiring)] # << >> /\ Len(table'[KeptBy(retiring)]) = FullPages(retiring)
         /\ \A o \in Owners \ {KeptBy(retiring)} : table'[o] = table[o]
         /\ entries' = [entries EXCEPT ![retiring] = SubSeq(ToksOf(retiring), 1, FullPages(retiring) * PageSize)]
         /\ Len(entries'[retiring]) = FullPages(retiring) * PageSize
         /\ \A i \in 1..FullPages(retiring) * PageSize : entries'[retiring][i] = ToksOf(retiring)[i]
         /\ entries'[retiring] \in Seq(Tokens)
         /\ order' = Append(order, retiring) /\ lru' = Append(lru, retiring) /\ pc = "remember" /\ pc' = "evict"
         /\ Capacity > 0 /\ UNCHANGED <<free, kv>> /\ UNCHANGED places
  <1>1. /\ pc = "remember" /\ pc' = "evict" /\ Capacity > 0 /\ order' = Append(order, retiring) /\ lru' = Append(lru, retiring)
        /\ entries' = [entries EXCEPT ![retiring] = SubSeq(ToksOf(retiring), 1, FullPages(retiring) * PageSize)]
        /\ kv' = kv
    BY DEF Remember
  <1>2. UNCHANGED places
    BY StayingStays DEF Staying
  <1>3. /\ retiring \in Rids /\ retiring \in Live /\ FullPages(retiring) \in 1..MaxTables
        /\ FullPages(retiring) <= Len(table[TableOf(retiring)])
        /\ FullPages(retiring) * PageSize <= Len(ToksOf(retiring))
        /\ Pool!Alias(TableOf(retiring), KeptBy(retiring), FullPages(retiring))
    BY RememberMove
  <1>4. Aliases(TableOf(retiring), KeptBy(retiring), FullPages(retiring))
    BY <1>3, AliasNative
  <1>5. FullPages(retiring) \in Nat \ {0}
    BY <1>3
  <1>6. retiring \notin Range(order) /\ Range(order) = Range(lru)
    BY <1>1, <1>3 DEF Cached
  <1>7. /\ Len(table'[KeptBy(retiring)]) = FullPages(retiring) /\ free' = free
        /\ \A o \in Owners \ {KeptBy(retiring)} : table'[o] = table[o]
    <2>1. TableOf(retiring) \in Owners /\ KeptBy(retiring) \in Owners
      BY <1>3, OwnerFacts
    <2>2. free' = free
      BY <1>4 DEF Aliases
    <2>3. QED
      BY <1>4, <2>1, <2>2, AliasesTables
  <1>8. table'[KeptBy(retiring)] # << >>
    <2>1. Len(<< >>) = 0
      OBVIOUS
    <2>2. QED
      BY <1>5, <1>7, <2>1
  <1> DEFINE n == FullPages(retiring) * PageSize
             t == ToksOf(retiring)
  <1>9. n \in Nat /\ t \in Seq(Tokens) /\ n <= Len(t)
    BY <1>3, <1>5, TimesFacts, ReqTypes
  <1>10. entries'[retiring] = SubSeq(t, 1, n)
    BY <1>1, <1>3 DEF TypeOK
  <1> HIDE DEF n, t
  <1>11. Len(SubSeq(t, 1, n)) = n /\ (\A i \in 1..n : SubSeq(t, 1, n)[i] = t[i]) /\ SubSeq(t, 1, n) \in Seq(Tokens)
    BY <1>9
  <1>12. Len(entries'[retiring]) = n /\ (\A i \in 1..n : entries'[retiring][i] = t[i]) /\ entries'[retiring] \in Seq(Tokens)
    BY <1>10, <1>11
  <1>13. QED
    BY <1>1, <1>2, <1>3, <1>4, <1>5, <1>6, <1>7, <1>8, <1>12 DEF n, t

LEMMA EvictFacts ==
  ASSUME TypeOK, Cached, Evict, NEW h, h = Head(lru)
  PROVE  /\ h \in Rids /\ h \in Range(order) /\ Releases(KeptBy(h)) /\ table'[KeptBy(h)] = << >>
         /\ \A o \in Owners \ {KeptBy(h)} : table'[o] = table[o]
         /\ entries' = [entries EXCEPT ![h] = << >>]
         /\ order' \in Seq(Rids) /\ IsInjective(order') /\ Range(order') = Range(order) \ {h}
         /\ lru' \in Seq(Rids) /\ IsInjective(lru') /\ Range(lru') = Range(lru) \ {h}
         /\ pc = "evict" /\ pc' = "evict" /\ kv' = kv /\ UNCHANGED places /\ Capacity > 0
  <1>1. /\ pc = "evict" /\ pc' = "evict" /\ entries' = [entries EXCEPT ![h] = << >>] /\ kv' = kv
        /\ order' = Without(order, h) /\ lru' = Tail(lru)
    BY DEF Evict
  <1>2. h \in Rids /\ h \in Range(lru) /\ lru # << >> /\ Releases(KeptBy(h))
    BY EvictMove, ReleaseNative
  <1>3. /\ order \in Seq(Rids) /\ lru \in Seq(Rids) /\ IsInjective(order) /\ IsInjective(lru)
        /\ Range(order) = Range(lru)
        /\ Capacity = 0 => order = << >>
    BY DEF TypeOK, Cached
  <1>4. order' \in Seq(Rids) /\ IsInjective(order') /\ Range(order') = Range(order) \ {h}
    BY <1>1, <1>3, WithoutFacts
  <1>5. /\ Tail(lru) \in Seq(Rids) /\ IsInjective(Tail(lru)) /\ h \notin Range(Tail(lru))
        /\ Range(lru) = Range(Tail(lru)) \cup {h}
    BY <1>2, <1>3, HeadTail
  <1>6. lru' \in Seq(Rids) /\ IsInjective(lru') /\ Range(lru') = Range(lru) \ {h}
    BY <1>1, <1>5
  <1>7. UNCHANGED places
    BY StayingStays DEF Staying
  <1>8. table'[KeptBy(h)] = << >> /\ \A o \in Owners \ {KeptBy(h)} : table'[o] = table[o]
    BY <1>2, OwnerFacts, ReleasesTables
  <1>9. Capacity > 0
    <2>1. order # << >>
      BY <1>2, <1>3, EmptyRange
    <2>2. QED
      BY <1>3, <2>1, Sizes
  <1>10. h \in Range(order)
    BY <1>2, <1>3
  <1>11. QED
    BY <1>1, <1>2, <1>4, <1>6, <1>7, <1>8, <1>9, <1>10

LEMMA CacheShapeStep ==
  ASSUME TypeOK, Placed, Phases, Requests, Cached, Planned, Next
  PROVE  CacheShape'
  <1>0. order \in Seq(Rids) /\ lru \in Seq(Rids) /\ entries \in [Rids -> Seq(Tokens)] /\ CacheShape
    BY CachedParts DEF TypeOK
  <1>1. CASE Remember
    <2> DEFINE x == retiring
    <2>1. /\ x \in Rids /\ x \notin Range(order) /\ x \notin Range(lru) /\ Capacity > 0
          /\ order' = Append(order, x) /\ lru' = Append(lru, x)
          /\ \A o \in Owners \ {KeptBy(x)} : table'[o] = table[o]
          /\ entries' = [entries EXCEPT ![x] = SubSeq(ToksOf(x), 1, FullPages(x) * PageSize)]
          /\ Len(entries'[x]) = FullPages(x) * PageSize
          /\ table'[KeptBy(x)] # << >> /\ Len(table'[KeptBy(x)]) = FullPages(x)
      BY <1>1, RememberFacts
    <2> HIDE DEF x
    <2>2. /\ IsInjective(order') /\ IsInjective(lru')
          /\ Range(order') = Range(order) \cup {x} /\ Range(lru') = Range(lru) \cup {x}
      BY <1>0, <2>1, AppendOne DEF CacheShape
    <2>3. \A e \in Rids : e # x => entries'[e] = entries[e] /\ table'[KeptBy(e)] = table[KeptBy(e)]
      BY <1>0, <2>1, OwnerFacts
    <2>4. \A e \in Rids : Len(entries'[e]) = Len(table'[KeptBy(e)]) * PageSize
      BY <1>0, <2>1, <2>3 DEF CacheShape
    <2>5. \A e \in Rids : e \in Range(order') <=> table'[KeptBy(e)] # << >>
      BY <1>0, <2>1, <2>2, <2>3 DEF CacheShape
    <2>6. Range(order') = Range(lru')
      BY <1>0, <2>2 DEF CacheShape
    <2>7. Capacity # 0
      BY <2>1
    <2>8. QED
      BY <2>2, <2>4, <2>5, <2>6, <2>7 DEF CacheShape
  <1>2. CASE Evict
    <2>1. PICK h : h = Head(lru)
      OBVIOUS
    <2>2. /\ h \in Rids /\ table'[KeptBy(h)] = << >> /\ \A o \in Owners \ {KeptBy(h)} : table'[o] = table[o]
          /\ entries' = [entries EXCEPT ![h] = << >>]
          /\ IsInjective(order') /\ Range(order') = Range(order) \ {h}
          /\ IsInjective(lru') /\ Range(lru') = Range(lru) \ {h} /\ Capacity > 0
      BY <1>2, <2>1, EvictFacts
    <2>3. \A e \in Rids : e # h => entries'[e] = entries[e] /\ table'[KeptBy(e)] = table[KeptBy(e)]
      BY <1>0, <2>2, OwnerFacts
    <2>4. entries'[h] = << >> /\ Len(<< >>) = 0 * PageSize
      BY <1>0, <2>2, GroupsAssumption
    <2>5. \A e \in Rids : Len(entries'[e]) = Len(table'[KeptBy(e)]) * PageSize
      <3>1. Len(<< >>) = 0
        OBVIOUS
      <3>2. QED
        BY <1>0, <2>2, <2>3, <2>4, <3>1 DEF CacheShape
    <2>6. \A e \in Rids : e \in Range(order') <=> table'[KeptBy(e)] # << >>
      BY <1>0, <2>2, <2>3 DEF CacheShape
    <2>7. Range(order') = Range(lru') /\ Capacity # 0
      BY <1>0, <2>2 DEF CacheShape
    <2>8. QED
      BY <2>2, <2>5, <2>6, <2>7 DEF CacheShape
  <1>3. CASE ~Remember /\ ~Evict
    <2>1. UNCHANGED <<entries, order>> /\ IsInjective(lru') /\ Range(lru') = Range(lru)
      BY <1>3, CacheStays
    <2>2. \A e \in Rids : table'[KeptBy(e)] = table[KeptBy(e)]
      BY <1>3, KeptStays
    <2>3. QED
      BY <1>0, <2>1, <2>2 DEF CacheShape
  <1>4. QED
    BY <1>1, <1>2, <1>3

LEMMA EntriesOverStep ==
  ASSUME TypeOK, Placed, Phases, Requests, Cached, Planned, Next
  PROVE  EntriesOver'
  <1>0. EntriesOver /\ nextRid \in Nat /\ order \in Seq(Rids) /\ lru \in Seq(Rids) /\ Range(order) \subseteq Nat
    <2>1. order \in Seq(Rids) /\ lru \in Seq(Rids) /\ nextRid \in Nat
      BY Sizes DEF TypeOK
    <2>2. \A e \in Range(order) : e \in Rids
      BY EntryTypes
    <2>3. QED
      BY <2>1, <2>2, CachedParts DEF Rids
  <1>1. CASE Remember
    <2>1. /\ retiring \in Rids /\ retiring \in Live /\ order' = Append(order, retiring) /\ pc = "remember" /\ pc' = "evict"
          /\ UNCHANGED places
      BY <1>1, RememberFacts
    <2>2. Range(order') = Range(order) \cup {retiring}
      BY <1>0, <2>1, AppendOne
    <2>3. Live' = Live /\ retiring < nextRid
      BY <2>1 DEF places, Live, Placed
    <2>4. QED
      BY <1>0, <2>1, <2>2, <2>3 DEF EntriesOver, places
  <1>2. CASE Evict
    <2>1. PICK h : h = Head(lru)
      OBVIOUS
    <2>2. Range(order') = Range(order) \ {h} /\ pc = "evict" /\ pc' = "evict" /\ UNCHANGED places
      BY <1>2, <2>1, EvictFacts
    <2>3. QED
      BY <1>0, <2>2 DEF EntriesOver, places, Live
  <1>3. ASSUME ~Remember, ~Evict
        PROVE  EntriesOver'
    <2>1. order' = order
      BY <1>3, CacheStays
    <2>2. ASSUME nextRid' >= nextRid, pc \notin {"evict", "free"}, nextRid' \in Nat,
                 Live' \subseteq Live \cup {nextRid}
          PROVE  EntriesOver'
      BY <1>0, <2>1, <2>2 DEF EntriesOver
    <2>3. CASE Quiet \/ Reserving \/ EndAdmit \/ Forward
      <3>1. UNCHANGED places
        BY <2>3, StayingStays DEF Staying
      <3>2. Live' = Live /\ nextRid' = nextRid /\ retiring' = retiring
        BY <3>1 DEF places, Live
      <3>3. pc \in {"evict", "free"} => pc' \in {"evict", "free"}
        BY <2>3 DEF Quiet, BeginStep, EndSettle, NothingActive, BeginDraft, EndStep, NothingToRemember, EndEvict,
           ModelCallRaises, Reserving, ReserveAdmitted, ReservePadding, ReserveDrafts, DraftsOutOfPages, EndAdmit, Forward
      <3>4. QED
        BY <1>0, <2>1, <3>2, <3>3 DEF EntriesOver
    <2>4. CASE Submitting
      <3>1. pc = "idle" /\ nextRid' = nextRid /\ UNCHANGED batch
        BY <2>4 DEF Submitting, Submit
      <3>2. Live' = Live
        BY <3>1 DEF batch, Live
      <3>3. QED
        BY <1>0, <2>2, <3>1, <3>2
    <2>5. CASE Admit
      <3>1. PICK q : q = Head(pending)
        OBVIOUS
      <3>2. pc = "admit" /\ nextRid' = nextRid + 1 /\ Live' = Live \cup {nextRid}
        BY <2>5, <3>1, AdmitFacts
      <3>3. QED
        BY <1>0, <2>2, <3>2
    <2>6. CASE TakeGroup
      BY <1>0, <2>2, <2>6, TakeLive
    <2>7. CASE Settle \/ Emit
      <3>1. PICK r \in Rids, toks \in Seq(Tokens) : Hands(r, toks)
        BY <2>7, HandsExist
      <3>2. Live' = Live /\ nextRid' = nextRid /\ pc \in {"settle", "emit"}
        BY <3>1, HandsFacts DEF Hands
      <3>3. QED
        BY <1>0, <2>2, <3>2
    <2>8. CASE Decoding
      BY <1>0, <2>2, <2>8, DecodingFacts, DecodingLive
    <2>9. CASE Free
      <3>1. Live' = Live \ {retiring} /\ nextRid' = nextRid
        BY <2>9, FreeFacts
      <3>2. QED
        BY <1>0, <2>1, <3>1 DEF EntriesOver
    <2>10. CASE StartOnline
      <3>1. Live' = {} /\ nextRid' = (IF Capacity = 0 THEN 1 ELSE nextRid)
        BY <2>10, StartOnlineFacts
      <3>2. Capacity = 0 => Range(order) = {}
        BY EmptyRange DEF Cached
      <3>3. QED
        BY <1>0, <2>1, <3>1, <3>2 DEF EntriesOver
    <2>11. QED
      BY <1>3, <2>3, <2>4, <2>5, <2>6, <2>7, <2>8, <2>9, <2>10, NextCases DEF Staying
  <1>4. QED
    BY <1>1, <1>2, <1>3

\* With a prefix cache no id is used twice.
LEMMA IdsOnlyGrow ==
  ASSUME TypeOK, Placed, Phases, Requests, Cached, Planned, Next, Capacity > 0
  PROVE  nextRid' \in Nat /\ nextRid \in Nat /\ nextRid <= nextRid' /\ (Admit => nextRid < nextRid')
  <1>0. nextRid \in Nat
    BY Sizes DEF TypeOK
  <1>1. CASE Staying
    BY <1>0, <1>1, StayingStays DEF places, Staying, Quiet, Reserving, BeginStep, EndSettle, NothingActive, BeginDraft, EndStep,
       NothingToRemember, EndEvict, ModelCallRaises, ReserveAdmitted, ReservePadding, ReserveDrafts, DraftsOutOfPages,
       EndAdmit, Forward, Remember, Evict, Admit
  <1>2. CASE Submitting
    BY <1>0, <1>2 DEF Submitting, Submit, Admit
  <1>3. CASE Admit
    <2>1. nextRid' = nextRid + 1
      BY <1>3 DEF Admit
    <2>2. QED
      BY <1>0, <2>1
  <1>4. CASE TakeGroup \/ Settle \/ Emit
    BY <1>0, <1>4 DEF TakeGroup, Settle, Emit, Admit
  <1>5. CASE Decoding
    BY <1>0, <1>5, DecodingFacts DEF Admit
  <1>6. CASE Free
    BY <1>0, <1>6, FreeFacts DEF Admit
  <1>7. CASE StartOnline
    <2>1. nextRid' = nextRid /\ pc = "failed"
      BY <1>7, Sizes, StartOnlineFacts
    <2>2. QED
      BY <1>0, <2>1 DEF Admit
  <1>8. QED
    BY <1>1, <1>2, <1>3, <1>4, <1>5, <1>6, <1>7, NextCases

LEMMA FreshEmptyStep ==
  ASSUME TypeOK, Placed, Phases, Requests, Cached, Planned, Next
  PROVE  FreshEmpty'
  <1> SUFFICES ASSUME Capacity > 0, NEW r \in Rids, r >= nextRid'
               PROVE  table'[TableOf(r)] = << >>
    BY DEF FreshEmpty
  <1>1. nextRid' \in Nat /\ nextRid \in Nat /\ nextRid <= nextRid' /\ (Admit => nextRid < nextRid')
    BY IdsOnlyGrow
  <1>2. r \in Nat /\ r >= nextRid /\ TableOf(r) \in Owners
    BY <1>1, OwnerFacts DEF Rids
  <1>3. table[TableOf(r)] = << >>
    BY <1>2 DEF Cached
  <1>4. ASSUME NEW s \in Live, s \in Rids, NEW f, Grows(TableOf(s), f)
        PROVE  table'[TableOf(r)] = table[TableOf(r)]
    <2>1. s < nextRid /\ s \in Nat
      BY <1>4 DEF Placed, Rids
    <2>2. s # r
      BY <1>1, <1>2, <2>1
    <2>3. QED
      BY <1>2, <1>4, <2>2, OwnerFacts, GrowsTables
  <1>5. ASSUME Admit, NEW e \in Rids, nextRid \in Rids, NEW k, Aliases(KeptBy(e), TableOf(nextRid), k)
        PROVE  table'[TableOf(r)] = table[TableOf(r)]
    <2>1. r # nextRid
      BY <1>1, <1>2, <1>5
    <2>2. QED
      BY <1>2, <1>5, <2>1, OwnerFacts, AliasesTables
  <1>6. ASSUME NEW e \in Rids, NEW k, Aliases(TableOf(e), KeptBy(e), k)
        PROVE  table'[TableOf(r)] = table[TableOf(r)]
    BY <1>2, <1>6, OwnerFacts, AliasesTables
  <1>7. ASSUME NEW o \in Owners, Releases(o)
        PROVE  table'[TableOf(r)] = table[TableOf(r)] \/ table'[TableOf(r)] = << >>
    BY <1>2, <1>7, ReleasesTables
  <1>8. QED
    BY <1>3, <1>4, <1>5, <1>6, <1>7, OwnerFacts, TableMoves

LEMMA CachedStep ==
  ASSUME TypeOK, Placed, Phases, Requests, Cached, Planned, Next
  PROVE  Cached'
  BY CacheShapeStep, EntriesOverStep, FreshEmptyStep, CachedParts

-----------------------------------------------------------------------------
(* What admission reserves *)

LEMMA CoveredKeeps ==
  ASSUME TypeOK, Requests, Covered, pc # "reserve", pc' # "reserve",
         \A r \in Live' : /\ r \in Live /\ Extends(TableOf(r)) /\ Len(table'[TableOf(r)]) \in Nat
                          /\ req'[r].prompt = req[r].prompt /\ req'[r].maxNew = req[r].maxNew
  PROVE  Covered'
  <1> SUFFICES ASSUME NEW r \in Live'
               PROVE  Ceil(Len(req'[r].prompt) + req'[r].maxNew) <= Len(table'[TableOf(r)])
    BY DEF Covered
  <1>1. r \in Live
    OBVIOUS
  <1>2. Ceil(Len(req[r].prompt) + req[r].maxNew) <= Len(table[TableOf(r)])
    BY <1>1 DEF Covered
  <1>3. Len(table[TableOf(r)]) <= Len(table'[TableOf(r)])
    BY DEF Extends
  <1>4. r \in Rids /\ Len(req[r].prompt) \in Nat /\ req[r].maxNew \in Nat
    BY <1>1, LiveFacts
  <1>5. Len(table[TableOf(r)]) \in Nat
    BY <1>4, PoolTypes, OwnerFacts
  <1> DEFINE n == Len(req[r].prompt) + req[r].maxNew
  <1>6. Ceil(n) \in Nat
    <2>1. n \in Nat
      BY <1>4
    <2> HIDE DEF n
    <2>2. QED
      BY <2>1, CeilType
  <1>7. Ceil(n) <= Len(table'[TableOf(r)])
    BY <1>2, <1>3, <1>5, <1>6
  <1>8. QED
    BY <1>7

\* The tables stay tables.
LEMMA TableTypes ==
  ASSUME Pool!PoolInv', NEW o \in Owners
  PROVE  /\ table'[o] \in Seq(Pages) /\ Len(table'[o]) \in Nat /\ DOMAIN table'[o] = 1..Len(table'[o])
         /\ IsInjective(table'[o])
  <1>1. table'[o] \in Seq(Pages)
    BY DEF Pool!PoolInv, Pool!TypeOK
  <1>2. IsInjective(table'[o])
    BY DEF Pool!PoolInv, Pool!NoPageTwice, Pool!IsInjective, IsInjective
  <1>3. QED
    BY <1>1, <1>2

LEMMA FreeTypes ==
  ASSUME Pool!PoolInv'
  PROVE  free' \subseteq Pages /\ IsFiniteSet(free') /\ Cardinality(free') \in Nat
  <1>1. free' \subseteq Pages
    BY DEF Pool!PoolInv, Pool!TypeOK
  <1>2. IsFiniteSet(free')
    BY <1>1, EngineAssumption, FS_Subset
  <1>3. QED
    BY <1>1, <1>2, FS_CardinalityType

LEMMA CoveredStep ==
  ASSUME TypeOK, Placed, Phases, Requests, Cached, Covered, Planned, Pool!PoolInv', Next
  PROVE  Covered'
  <1>0. \A r \in Live : r \in Rids
    BY DEF TypeOK
  <1>1. ASSUME pc # "reserve", pc' # "reserve",
               \A r \in Live' : /\ r \in Live /\ (~Free \/ r # retiring)
                                /\ req'[r].prompt = req[r].prompt /\ req'[r].maxNew = req[r].maxNew
        PROVE  Covered'
    <2>1. \A r \in Live' : Extends(TableOf(r)) /\ Len(table'[TableOf(r)]) \in Nat
      BY <1>0, <1>1, LiveExtends, TableTypes, OwnerFacts
    <2>2. QED
      BY <1>1, <2>1, CoveredKeeps
  <1>2. CASE ReserveAdmitted
    <2>1. PICK r : r = Last(admitted)
      OBVIOUS
    <2> DEFINE n == Ceil(Len(req[r].prompt) + req[r].maxNew)
    <2>2. r \in Live /\ r \in Rids /\ n \in 1..MaxTables /\ Pool!Reserve(TableOf(r), n)
      BY <1>2, <2>1, ReserveAdmittedMove
    <2>3. pc = "reserve" /\ pc' = "admit" /\ UNCHANGED places
      BY <1>2, ReservingStays DEF ReserveAdmitted, Reserving
    <2>4. Live' = Live /\ req' = req
      BY <2>3 DEF places, Live
    <2> HIDE DEF n
    <2>5. n \in Nat
      BY <2>2
    <2>6. PICK f : Grows(TableOf(r), f) /\ Len(f) = (IF n > Len(table[TableOf(r)]) THEN n - Len(table[TableOf(r)]) ELSE 0)
      BY <2>2, <2>5, OwnerFacts, ReserveNative
    <2>7. n <= Len(table'[TableOf(r)])
      <3> DEFINE a == Len(table[TableOf(r)])
                 b == Len(table'[TableOf(r)])
      <3>1. b = a + Len(f) /\ a \in Nat
        BY <2>2, <2>6, OwnerFacts, GrowsTables, PoolTypes
      <3>2. Len(f) = (IF n > a THEN n - a ELSE 0)
        BY <2>6
      <3> HIDE DEF a, b
      <3>3. n <= b
        BY <2>5, <3>1, <3>2
      <3>4. QED
        BY <3>3 DEF b
    <2>8. ASSUME NEW s \in Live, s # r
          PROVE  Ceil(Len(req[s].prompt) + req[s].maxNew) <= Len(table'[TableOf(s)])
      <3>1. Ceil(Len(req[s].prompt) + req[s].maxNew) <= Len(table[TableOf(s)])
        BY <2>1, <2>8 DEF Covered
      <3>2. table'[TableOf(s)] = table[TableOf(s)]
        BY <1>0, <2>2, <2>6, <2>8, OwnerFacts, GrowsTables
      <3>3. QED
        BY <3>1, <3>2
    <2>9. QED
      BY <2>3, <2>4, <2>7, <2>8 DEF Covered, n
  <1>3. CASE Admit
    <2>1. PICK q : q = Head(pending)
      OBVIOUS
    <2> DEFINE new == [ext |-> q.ext, prompt |-> q.prompt, gen |-> << >>, maxNew |-> q.maxNew,
                       shared |-> SharedTokens(q.prompt)]
    <2>2. /\ nextRid \in Rids /\ nextRid \notin Live /\ admitted' = Append(admitted, nextRid)
          /\ pc = "admit" /\ pc' = "reserve" /\ req' = [req EXCEPT ![nextRid] = new] /\ Live' = Live \cup {nextRid}
          /\ free' = free
      BY <1>3, <2>1, AdmitFacts
    <2>3. req'[nextRid] = new /\ \A s \in Live : req'[s] = req[s]
      BY <1>0, <2>2 DEF TypeOK
    <2>4. Last(admitted') = nextRid
      BY <2>2, LastAppended DEF Placed
    <2>5. Ceil(Len(q.prompt) + q.maxNew) <= Cardinality(free)
      BY <1>3, <2>1 DEF Admit, CanAdmit, Need
    <2>6. ~Free
      BY <2>2 DEF Free
    <2>7. ASSUME NEW s \in Live
          PROVE  Ceil(Len(req'[s].prompt) + req'[s].maxNew) <= Len(table'[TableOf(s)])
      <3>1. Ceil(Len(req[s].prompt) + req[s].maxNew) <= Len(table[TableOf(s)])
        BY <2>2 DEF Covered
      <3>2. Extends(TableOf(s))
        BY <1>0, <2>6, LiveExtends
      <3>3. Len(table[TableOf(s)]) <= Len(table'[TableOf(s)])
        BY <3>2 DEF Extends
      <3>4. Len(table[TableOf(s)]) \in Nat /\ Len(table'[TableOf(s)]) \in Nat
        BY <1>0, PoolTypes, TableTypes, OwnerFacts
      <3> DEFINE n == Len(req[s].prompt) + req[s].maxNew
      <3>5. Ceil(n) \in Nat
        <4>1. Len(req[s].prompt) \in Nat /\ req[s].maxNew \in Nat
          BY LiveFacts
        <4>2. n \in Nat
          BY <4>1
        <4> HIDE DEF n
        <4>3. QED
          BY <4>2, CeilType
      <3>6. Ceil(n) <= Len(table'[TableOf(s)])
        BY <3>1, <3>3, <3>4, <3>5
      <3>7. QED
        BY <2>3, <3>6
    <2>8. QED
      BY <2>2, <2>3, <2>4, <2>5, <2>7 DEF Covered
  <1>4. CASE Quiet \/ ReservePadding \/ ReserveDrafts \/ DraftsOutOfPages \/ EndAdmit \/ Forward \/ Remember \/ Evict
    <2>1. UNCHANGED places /\ ~Free
      <3>1. UNCHANGED places
        BY <1>4, StayingStays DEF Staying, Reserving
      <3>2. ~Free
        BY <1>4 DEF Free, Quiet, BeginStep, EndSettle, NothingActive, BeginDraft, EndStep, NothingToRemember, EndEvict,
           ModelCallRaises, ReservePadding, ReserveDrafts, DraftsOutOfPages, EndAdmit, Forward, Remember, Evict
      <3>3. QED
        BY <3>1, <3>2
    <2>2. Live' = Live /\ req' = req
      BY <2>1 DEF places, Live
    <2>3. pc # "reserve" /\ pc' # "reserve"
      BY <1>4 DEF Quiet, BeginStep, EndSettle, NothingActive, BeginDraft, EndStep, NothingToRemember, EndEvict,
         ModelCallRaises, ReservePadding, ReserveDrafts, DraftsOutOfPages, EndAdmit, Forward, Remember, Evict
    <2>4. QED
      BY <1>1, <2>1, <2>2, <2>3
  <1>5. CASE Submitting
    <2>1. pc = "idle" /\ pc' = "idle" /\ req' = req /\ UNCHANGED batch
      BY <1>5 DEF Submitting, Submit
    <2>2. Live' = Live /\ ~Free
      BY <2>1 DEF batch, Live, Free
    <2>3. QED
      BY <1>1, <2>1, <2>2
  <1>6. CASE TakeGroup
    <2>1. Live' = Live /\ req' = req /\ pc = "prefill" /\ pc' = "pad"
      BY <1>6, TakeLive
    <2>2. QED
      BY <1>1, <2>1 DEF Free
  <1>7. CASE Settle \/ Emit
    <2>1. PICK r \in Rids, toks \in Seq(Tokens) : Hands(r, toks)
      BY <1>7, HandsExist
    <2>2. /\ Live' = Live /\ \A s \in Rids \ {r} : req'[s] = req[s]
          /\ req'[r].prompt = req[r].prompt /\ req'[r].maxNew = req[r].maxNew
          /\ pc' = pc \/ pc' = "remember"
      BY <2>1, HandsFacts
    <2>3. pc \in {"settle", "emit"}
      BY <2>1 DEF Hands
    <2>4. ~Free
      BY <2>3 DEF Free
    <2>5. QED
      BY <1>0, <1>1, <2>2, <2>3, <2>4
  <1>8. CASE Decoding
    <2>1. Live' = Live /\ req' = req /\ pc \in {"decode", "draft"} /\ pc' = "emit"
      BY <1>8, DecodingFacts, DecodingLive
    <2>2. QED
      BY <1>1, <2>1 DEF Free
  <1>9. CASE Free
    <2>1. /\ Live' = Live \ {retiring} /\ req' = [req EXCEPT ![retiring] = NoRequest]
          /\ pc = "free" /\ pc' = (IF padTo > 0 THEN "settle" ELSE "emit")
      BY <1>9, FreeFacts
    <2>2. \A s \in Live' : req'[s] = req[s] /\ s # retiring /\ s \in Live
      BY <1>0, <2>1 DEF TypeOK
    <2>3. QED
      BY <1>1, <2>1, <2>2
  <1>10. CASE StartOnline
    <2>1. Live' = {} /\ pc = "failed" /\ pc' = "idle"
      BY <1>10, StartOnlineFacts
    <2>2. QED
      BY <1>1, <2>1
  <1>11. QED
    BY <1>2, <1>3, <1>4, <1>5, <1>6, <1>7, <1>8, <1>9, <1>10, NextCases DEF Staying, Reserving

-----------------------------------------------------------------------------
(* The plan of the wave *)

LEMMA LackingRids ==
  ASSUME TypeOK, Requests, Grouping(Rows(Range(admitted)), groups)
  PROVE  IsFiniteSet(LackingAll(groups)) /\ \A x \in LackingAll(groups) : x[1] \in Range(admitted)
  <1>1. groups \in Seq(GroupSet)
    BY DEF Grouping
  <1>2. ASSUME NEW x \in LackingAll(groups)
        PROVE  x[1] \in Range(admitted)
    <2>1. PICK g \in DOMAIN groups : x \in Lacking(groups[g].rows, groups[g].len)
      BY DEF LackingAll
    <2>2. PICK row \in Range(groups[g].rows) : x \in {row.rid} \X (row.pages + 1 .. Ceil(row.shared + groups[g].len))
      BY <2>1 DEF Lacking
    <2>3. row \in Rows(Range(admitted))
      BY <2>2 DEF Grouping
    <2>4. PICK r \in Range(admitted) : row = RowOf(r)
      BY <2>3 DEF Rows
    <2>5. row.rid = r
      BY <2>4 DEF RowOf
    <2>6. QED
      BY <2>2, <2>5
  <1>3. QED
    BY <1>1, <1>2, LackingAllFinite

\* What the group in hand lacks: a pair for each missing page.
ShortOf(r) == {r} \X (Len(table[TableOf(r)]) + 1 .. Ceil(req[r].shared + padTo))

LEMMA ShortParts == Short = UNION {ShortOf(r) : r \in Range(settling)}
  BY DEF Short, ShortOf

LEMMA ShortSize ==
  ASSUME TypeOK, NEW r \in Rids, NEW n \in Nat
  PROVE  /\ IsFiniteSet({r} \X (Len(table[TableOf(r)]) + 1 .. n))
         /\ Cardinality({r} \X (Len(table[TableOf(r)]) + 1 .. n))
              = IF n > Len(table[TableOf(r)]) THEN n - Len(table[TableOf(r)]) ELSE 0
  <1> DEFINE k == Len(table[TableOf(r)])
  <1>1. k \in Nat
    BY PoolTypes, OwnerFacts
  <1> HIDE DEF k
  <1>2. IsFiniteSet(k + 1 .. n) /\ Cardinality(k + 1 .. n) = IF k + 1 > n THEN 0 ELSE n - (k + 1) + 1
    BY <1>1, FS_Interval
  <1>3. IsFiniteSet({r}) /\ Cardinality({r}) = 1
    BY FS_Singleton
  <1>4. /\ IsFiniteSet({r} \X (k + 1 .. n))
        /\ Cardinality({r} \X (k + 1 .. n)) = Cardinality({r}) * Cardinality(k + 1 .. n)
    BY <1>2, <1>3, FS_Product
  <1>5. Cardinality({r} \X (k + 1 .. n)) = IF n > k THEN n - k ELSE 0
    BY <1>1, <1>2, <1>3, <1>4
  <1>6. QED
    BY <1>4, <1>5 DEF k

LEMMA ShortFinite ==
  ASSUME TypeOK, Placed, Requests
  PROVE  IsFiniteSet(Short)
  <1>1. padTo \in Nat /\ settling \in Seq(Rids)
    BY Sizes DEF TypeOK, Placed
  <1> DEFINE f == [i \in DOMAIN settling |-> ShortOf(settling[i])]
  <1>2. \A r \in Range(settling) : IsFiniteSet(ShortOf(r))
    <2> SUFFICES ASSUME NEW r \in Range(settling) PROVE IsFiniteSet(ShortOf(r))
      OBVIOUS
    <2>1. r \in Live
      BY DEF Live
    <2>2. r \in Rids /\ req[r].shared \in Nat
      BY <2>1, LiveFacts
    <2> DEFINE n == req[r].shared + padTo
    <2>3. n \in Nat
      BY <1>1, <2>2
    <2> HIDE DEF n
    <2>4. Ceil(n) \in Nat
      BY <2>3, CeilType
    <2>5. QED
      BY <2>2, <2>4, ShortSize DEF ShortOf, n
  <1>3. DOMAIN settling = 1..Len(settling) /\ Len(settling) \in Nat
    BY <1>1
  <1>4. IsFiniteSet(DOMAIN f)
    BY <1>3, FS_Interval
  <1>5. IsFiniteSet(Range(f))
    BY <1>4, ImageFinite
  <1>6. Range(f) = {ShortOf(r) : r \in Range(settling)}
    BY DEF Range
  <1> HIDE DEF f
  <1>7. \A T \in Range(f) : IsFiniteSet(T)
    BY <1>2, <1>6
  <1>8. IsFiniteSet(UNION Range(f))
    BY <1>5, <1>7, FS_UNION
  <1>9. QED
    BY <1>6, <1>8, ShortParts

\* A step within the wave that leaves the rows of the rest of the plan alone.
LEMMA PlanKeeps ==
  ASSUME TypeOK, Placed, Requests, Planned, InWave, pc' # "pad",
         admitted' = admitted, groups' = groups,
         \A r \in Range(admitted) : RowOf(r)' = RowOf(r),
         Cardinality(free') \in Nat, Cardinality(free) <= Cardinality(free')
  PROVE  Planned'
  <1>1. Grouping(Rows(Range(admitted)), groups)
    BY DEF Planned, Rows
  <1>2. {RowOf(r) : r \in Range(admitted)}' = {RowOf(r) : r \in Range(admitted)}
    OBVIOUS
  <1>3. Grouping({RowOf(r) : r \in Range(admitted)}', groups')
    BY <1>1, <1>2 DEF Rows
  <1>4. IsFiniteSet(LackingAll(groups))
    BY <1>1, LackingRids
  <1> DEFINE S == IF pc = "pad" THEN Short ELSE {}
  <1>5. IsFiniteSet(S)
    BY ShortFinite, FS_EmptySet
  <1> HIDE DEF S
  <1>6. IsFiniteSet(LackingAll(groups) \cup S)
    BY <1>4, <1>5, FS_Union
  <1>7. /\ Cardinality(LackingAll(groups)) <= Cardinality(LackingAll(groups) \cup S)
        /\ Cardinality(LackingAll(groups)) \in Nat /\ Cardinality(LackingAll(groups) \cup S) \in Nat
    BY <1>4, <1>6, FS_Subset, FS_CardinalityType
  <1>8. Cardinality(LackingAll(groups) \cup S) <= Cardinality(free) /\ Cardinality(free) \in Nat
    BY PoolTypes DEF Planned, S
  <1>9. Cardinality(LackingAll(groups)) <= Cardinality(free')
    BY <1>7, <1>8
  <1>10. LackingAll(groups') \cup {} = LackingAll(groups)
    OBVIOUS
  <1>11. Cardinality(LackingAll(groups') \cup {}) <= Cardinality(free')
    BY <1>9, <1>10
  <1>12. QED
    BY <1>3, <1>11 DEF Planned

LEMMA PlannedTake ==
  ASSUME TypeOK, Placed, Phases, Requests, Planned, TakeGroup
  PROVE  Planned'
  <1>1. /\ Range(settling') \subseteq Range(admitted)
        /\ Grouping(Rows(Range(admitted')), groups') /\ padTo' \in Nat
        /\ \A r \in Range(settling') : /\ req[r].shared + padTo' <= MaxSeq
                                       /\ Len(req[r].prompt) <= req[r].shared + padTo'
                                       /\ RowOf(r) \in Range(Head(groups).rows)
        /\ \A row \in Range(Head(groups).rows) : row.rid \in Range(settling') /\ row = RowOf(row.rid)
        /\ LackingAll(groups) = Lacking(Head(groups).rows, padTo') \cup LackingAll(groups')
    BY TakeFacts
  <1>2. pc = "prefill" /\ pc' = "pad" /\ UNCHANGED <<free, table, req>>
    BY TakeLive
  <1>3. \A r \in Range(admitted) : RowOf(r)' = RowOf(r)
    BY <1>2 DEF RowOf
  <1>4. Grouping({RowOf(r) : r \in Range(admitted)}', groups')
    <2>1. {RowOf(r) : r \in Range(admitted)}' = {RowOf(r)' : r \in Range(admitted')}
      OBVIOUS
    <2>2. \A r : RowOf(r)' = RowOf(r)
      BY <1>2 DEF RowOf
    <2>3. {RowOf(r) : r \in Range(admitted)}' = Rows(Range(admitted'))
      BY <2>1, <2>2 DEF Rows
    <2>4. QED
      BY <1>1, <2>3
  <1>5. Short' \subseteq Lacking(Head(groups).rows, padTo')
    <2> SUFFICES ASSUME NEW r \in Range(settling'),
                        NEW x \in {r} \X (Len(table[TableOf(r)]) + 1 .. Ceil(req[r].shared + padTo'))
                 PROVE  x \in Lacking(Head(groups).rows, padTo')
      BY <1>2 DEF Short
    <2>1. r \in Live
      BY <1>1 DEF Live
    <2>2. RowOf(r).rid = r /\ RowOf(r).shared = req[r].shared /\ RowOf(r).pages = Len(table[TableOf(r)])
      BY <2>1, RowFacts
    <2>3. QED
      BY <1>1, <2>2 DEF Lacking
  <1>6. LackingAll(groups') \cup Short' \subseteq LackingAll(groups)
    BY <1>1, <1>5
  <1>7. Grouping(Rows(Range(admitted)), groups) /\ Cardinality(LackingAll(groups) \cup {}) <= Cardinality(free)
    BY <1>2 DEF Planned, InWave, Rows
  <1>8. IsFiniteSet(LackingAll(groups))
    BY <1>7, LackingRids
  <1>9. LackingAll(groups) \cup {} = LackingAll(groups)
    OBVIOUS
  <1>10. /\ Cardinality(LackingAll(groups') \cup Short') <= Cardinality(LackingAll(groups))
         /\ Cardinality(LackingAll(groups') \cup Short') \in Nat /\ Cardinality(LackingAll(groups)) \in Nat
    BY <1>6, <1>8, FS_Subset, FS_CardinalityType
  <1>11. Cardinality(free) \in Nat /\ free' = free
    BY <1>2, PoolTypes
  <1>12. Cardinality(LackingAll(groups') \cup Short') <= Cardinality(free')
    BY <1>7, <1>9, <1>10, <1>11
  <1>13. \A r \in Range(settling') : /\ req'[r].shared + padTo' <= MaxSeq
                                     /\ Len(req'[r].prompt) <= req'[r].shared + padTo'
    BY <1>1, <1>2
  <1>14. QED
    BY <1>2, <1>4, <1>12, <1>13 DEF Planned

\* Reserving the padding of a row takes as many pages as it lacked.
LEMMA PlannedPadding ==
  ASSUME TypeOK, Placed, Phases, Requests, Planned, Pool!PoolInv', ReservePadding
  PROVE  Planned'
  <1>1. PICK r \in Range(settling) :
           /\ r \in Live /\ r \in Rids /\ req[r].shared + padTo \in Nat
           /\ Ceil(req[r].shared + padTo) \in 1..MaxTables
           /\ Pool!Reserve(TableOf(r), Ceil(req[r].shared + padTo))
    BY ReservePaddingMove
  <1> DEFINE n == Ceil(req[r].shared + padTo)
             D == {r} \X (Len(table[TableOf(r)]) + 1 .. n)
             S == LackingAll(groups) \cup Short
  <1>2. n \in Nat
    BY <1>1
  <1>3. PICK f : Grows(TableOf(r), f) /\ Len(f) = (IF n > Len(table[TableOf(r)]) THEN n - Len(table[TableOf(r)]) ELSE 0)
    BY <1>1, <1>2, OwnerFacts, ReserveNative
  <1>4. pc = "pad" /\ pc' = "pad" /\ UNCHANGED places /\ groups' = groups /\ padTo' = padTo
    BY ReservingStays DEF ReservePadding, Reserving
  <1>5. IsFiniteSet(D) /\ Cardinality(D) = Len(f)
    BY <1>1, <1>2, <1>3, ShortSize
  <1>6. Cardinality(free') = Cardinality(free) - Len(f) /\ Len(f) \in Nat /\ Cardinality(free) \in Nat
    BY <1>1, <1>3, GrowsFree, OwnerFacts, PoolTypes
  <1>7. Grouping(Rows(Range(admitted)), groups) /\ Cardinality(S) <= Cardinality(free)
    BY <1>4 DEF Planned, InWave, Rows
  <1>8. IsFiniteSet(S)
    BY <1>7, LackingRids, ShortFinite, FS_Union
  <1>9. r \notin Range(admitted)
    BY <1>1 DEF Placed, Disjoint
  <1>10. D \subseteq S
    BY <1>1 DEF Short
  <1>11. Len(table'[TableOf(r)]) >= n /\ Len(table'[TableOf(r)]) \in Nat /\ n \in Nat
    <2> DEFINE a == Len(table[TableOf(r)])
               b == Len(table'[TableOf(r)])
    <2>1. b = a + Len(f) /\ a \in Nat
      BY <1>1, <1>3, OwnerFacts, GrowsTables, PoolTypes
    <2>2. Len(f) = (IF n > a THEN n - a ELSE 0)
      BY <1>3
    <2> HIDE DEF a, b, n
    <2>3. b >= n /\ b \in Nat
      BY <1>2, <2>1, <2>2
    <2>4. QED
      BY <1>2, <2>3 DEF b
  <1>12. \A s \in Rids \ {r} : table'[TableOf(s)] = table[TableOf(s)]
    BY <1>1, <1>3, OwnerFacts, GrowsTables
  <1> HIDE DEF n, D
  <1>13. LackingAll(groups') \cup Short' \subseteq S \ D
    <2>1. \A x \in LackingAll(groups') : x \in S \ D
      BY <1>4, <1>7, <1>9, LackingRids DEF D
    <2>2. ASSUME NEW s \in Range(settling), NEW x \in {s} \X (Len(table'[TableOf(s)]) + 1 .. Ceil(req[s].shared + padTo))
          PROVE  x \in S \ D
      <3>1. CASE s = r
        <4>1. PICK y \in (Len(table'[TableOf(r)]) + 1 .. n) : TRUE
          BY <2>2, <3>1 DEF n
        <4>2. y \in Int /\ Len(table'[TableOf(r)]) + 1 <= y /\ y <= n
          BY <1>11
        <4>3. FALSE
          BY <1>11, <4>2
        <4>4. QED
          BY <4>3
      <3>2. CASE s # r
        <4>1. s \in Rids
          BY DEF Live, TypeOK
        <4>2. x \in {s} \X (Len(table[TableOf(s)]) + 1 .. Ceil(req[s].shared + padTo))
          BY <1>12, <2>2, <3>2, <4>1
        <4>3. x \in Short /\ x[1] = s
          BY <4>2 DEF Short
        <4>4. QED
          BY <3>2, <4>3 DEF D
      <3>3. QED
        BY <3>1, <3>2
    <2>3. \A x \in Short' : x \in S \ D
      BY <1>4, <2>2 DEF Short, places
    <2>4. QED
      BY <2>1, <2>3
  <1> HIDE DEF S
  <1>14. IsFiniteSet(S \ D) /\ Cardinality(S \ D) = Cardinality(S) - Cardinality(D)
    <2>1. IsFiniteSet(S \ D) /\ Cardinality(S \ D) = Cardinality(S) - Cardinality(S \cap D)
      BY <1>8, FS_Difference
    <2>2. S \cap D = D
      BY <1>10
    <2>3. QED
      BY <2>1, <2>2
  <1>15. Cardinality(LackingAll(groups') \cup Short') <= Cardinality(S \ D)
         /\ Cardinality(LackingAll(groups') \cup Short') \in Nat
    BY <1>13, <1>14, FS_Subset, FS_CardinalityType
  <1>16. Cardinality(S) \in Nat /\ Cardinality(D) \in Nat
    BY <1>5, <1>8, FS_CardinalityType
  <1>17. Cardinality(LackingAll(groups') \cup Short') <= Cardinality(free')
    BY <1>5, <1>6, <1>7, <1>14, <1>15, <1>16
  <1>18. Grouping({RowOf(s) : s \in Range(admitted)}', groups')
    <2>1. ASSUME NEW s \in Range(admitted)
          PROVE  RowOf(s)' = RowOf(s)
      <3>1. s \in Rids /\ s # r
        BY <1>9 DEF Live, TypeOK
      <3>2. QED
        BY <1>4, <1>12, <3>1 DEF RowOf, places
    <2>2. {RowOf(s) : s \in Range(admitted)}' = Rows(Range(admitted))
      BY <1>4, <2>1 DEF Rows, places
    <2>3. QED
      BY <1>4, <1>7, <2>2
  <1>19. \A s \in Range(settling') : /\ req'[s].shared + padTo' <= MaxSeq
                                     /\ Len(req'[s].prompt) <= req'[s].shared + padTo'
    BY <1>4 DEF Planned, places
  <1>20. QED
    BY <1>4, <1>17, <1>18, <1>19 DEF Planned

LEMMA PlannedStep ==
  ASSUME TypeOK, Placed, Phases, Requests, Cached, Covered, Planned, Pool!PoolInv', Next
  PROVE  Planned'
  <1>0. /\ padTo \in Nat /\ \A r \in Range(admitted) : r \in Rids /\ r \in Live
        /\ Cardinality(free) \in Nat /\ Cardinality(free') \in Nat
        /\ IsFiniteSet(free')
    BY Sizes, PoolTypes, FreeTypes DEF TypeOK, Live
  <1>00. free \subseteq free' => Cardinality(free) <= Cardinality(free')
    BY <1>0, FS_Subset
  <1>1. CASE ~InWave'
    BY <1>1 DEF Planned, InWave
  <1>2. ASSUME InWave, pc' # "pad", admitted' = admitted, groups' = groups, free \subseteq free',
               \A r \in Range(admitted) : /\ req'[r].shared = req[r].shared /\ req'[r].prompt = req[r].prompt
                                          /\ table'[TableOf(r)] = table[TableOf(r)]
        PROVE  Planned'
    <2>1. \A r \in Range(admitted) : RowOf(r)' = RowOf(r)
      BY <1>2 DEF RowOf
    <2>2. QED
      BY <1>0, <1>00, <1>2, <2>1, PlanKeeps
  <1>3. CASE EndAdmit
    <2>1. Grouping(Rows(Range(admitted)), groups') /\ Cardinality(LackingAll(groups')) <= Cardinality(free)
      BY <1>3, PlanEndAdmit
    <2>2. pc' # "pad" /\ UNCHANGED <<free, table, req, admitted>>
      BY <1>3 DEF EndAdmit, pool
    <2>3. {RowOf(s) : s \in Range(admitted)}' = Rows(Range(admitted))
      BY <2>2 DEF Rows, RowOf
    <2>4. LackingAll(groups') \cup {} = LackingAll(groups')
      OBVIOUS
    <2>5. QED
      BY <2>1, <2>2, <2>3, <2>4 DEF Planned
  <1>4. CASE TakeGroup
    BY <1>4, PlannedTake
  <1>5. CASE ReservePadding
    BY <1>5, PlannedPadding
  <1>6. CASE EndSettle \/ NothingToRemember \/ EndEvict \/ Forward
    <2>1. /\ admitted' = admitted /\ groups' = groups /\ UNCHANGED <<free, table, req>> /\ pc' # "pad"
          /\ InWave' => InWave
      BY <1>6 DEF EndSettle, NothingToRemember, EndEvict, Forward, pool, batch, InWave, Retirement
    <2>2. QED
      BY <1>1, <1>2, <2>1
  <1>7. CASE BeginStep \/ NothingActive \/ BeginDraft \/ EndStep \/ ModelCallRaises
             \/ ReserveAdmitted \/ ReserveDrafts \/ DraftsOutOfPages \/ Submitting \/ Admit
    <2>1. ~InWave'
      BY <1>7 DEF BeginStep, NothingActive, BeginDraft, EndStep, ModelCallRaises, ReserveAdmitted, ReserveDrafts,
         DraftsOutOfPages, Submitting, Submit, Admit, InWave, Retirement
    <2>2. QED
      BY <1>1, <2>1
  <1>8. CASE Decoding
    <2>1. ~InWave'
      BY <1>8, DecodingFacts DEF InWave, Retirement
    <2>2. QED
      BY <1>1, <2>1
  <1>9. CASE StartOnline
    <2>1. ~InWave'
      BY <1>9, StartOnlineFacts DEF InWave, Retirement
    <2>2. QED
      BY <1>1, <2>1
  <1>10. CASE Remember \/ Evict
    <2>1. UNCHANGED places /\ groups' = groups /\ padTo' = padTo /\ pc \in Retirement /\ pc' = "evict"
      <3>1. UNCHANGED places
        BY <1>10, StayingStays DEF Staying
      <3>2. QED
        BY <1>10, <3>1 DEF Remember, Evict, batch, Retirement
    <2>2. free \subseteq free'
      BY <1>10, RememberMove, AliasNative, EvictMove, ReleaseNative DEF Aliases, Releases
    <2>3. ~Free
      BY <1>10 DEF Free, Remember, Evict
    <2>4. ASSUME NEW r \in Range(admitted)
          PROVE  table'[TableOf(r)] = table[TableOf(r)]
      <3>1. CASE Remember
        BY <1>0, <3>1, OwnerFacts, RememberFacts
      <3>2. CASE Evict
        BY <1>0, <3>2, OwnerFacts, EvictFacts
      <3>3. QED
        BY <1>10, <3>1, <3>2
    <2>5. InWave' => InWave
      BY <2>1 DEF InWave, Retirement
    <2>6. QED
      BY <1>1, <1>2, <2>1, <2>2, <2>4, <2>5 DEF places
  <1>11. CASE Settle \/ Emit
    <2>1. PICK r \in Rids, toks \in Seq(Tokens) : Hands(r, toks)
      BY <1>11, HandsExist
    <2>2. /\ r \notin Range(admitted) /\ UNCHANGED <<free, table, admitted, groups, padTo>>
          /\ pc \in {"settle", "emit"}
      BY <2>1 DEF Hands, pool
    <2>3. (\A s \in Rids \ {r} : req'[s] = req[s]) /\ pc' \in {pc, "remember"}
      BY <2>1, HandsFacts
    <2>4. InWave' => InWave
      BY <2>2, <2>3 DEF InWave, Retirement, Phases
    <2>5. QED
      BY <1>0, <1>1, <1>2, <2>2, <2>3, <2>4
  <1>12. CASE Free
    <2>1. /\ retiring \in Rids /\ req' = [req EXCEPT ![retiring] = NoRequest] /\ pc = "free"
          /\ pc' = (IF padTo > 0 THEN "settle" ELSE "emit") /\ Pool!Release(TableOf(retiring))
          /\ UNCHANGED <<admitted, groups, padTo>>
      BY <1>12, FreeFacts
    <2>2. Releases(TableOf(retiring)) /\ retiring \notin Range(admitted)
      BY <2>1, ReleaseNative DEF Placed
    <2>3. \A r \in Range(admitted) : req'[r] = req[r] /\ table'[TableOf(r)] = table[TableOf(r)]
      <3>1. \A r \in Range(admitted) : r \in Rids /\ r # retiring
        BY <1>0, <2>2
      <3>2. \A r \in Range(admitted) : req'[r] = req[r]
        BY <2>1, <3>1 DEF TypeOK
      <3>3. TableOf(retiring) \in Owners /\ \A r \in Range(admitted) : TableOf(r) \in Owners \ {TableOf(retiring)}
        BY <2>1, <3>1, OwnerFacts
      <3>4. \A r \in Range(admitted) : table'[TableOf(r)] = table[TableOf(r)]
        BY <2>2, <3>3, ReleasesTables
      <3>5. QED
        BY <3>2, <3>4
    <2>4. InWave' => InWave
      BY <2>1 DEF InWave, Retirement
    <2>5. free \subseteq free'
      BY <2>2 DEF Releases
    <2>6. QED
      BY <1>1, <1>2, <2>1, <2>3, <2>4, <2>5
  <1>13. QED
    BY <1>3, <1>4, <1>5, <1>6, <1>7, <1>8, <1>9, <1>10, <1>11, <1>12, NextCases DEF Staying, Quiet, Reserving

-----------------------------------------------------------------------------
(* The forward passes and what they write *)

\* The slot of a page is left alone or gets one of the values written there.
LEMMA ScatterFacts ==
  ASSUME NEW W, NEW p \in Pages, NEW o \in 0..PageSize - 1
  PROVE  \/ Scatter(W)[p][o] = kv[p][o] /\ \A x \in W : ~(PageAt(x.rid, x.pos) = p /\ x.pos % PageSize = o)
         \/ \E x \in W : PageAt(x.rid, x.pos) = p /\ x.pos % PageSize = o /\ Scatter(W)[p][o] = x.val
  <1> DEFINE vals == {x.val : x \in {x \in W : PageAt(x.rid, x.pos) = p /\ x.pos % PageSize = o}}
  <1>1. Scatter(W)[p][o] = IF vals = {} THEN kv[p][o] ELSE CHOOSE v \in vals : TRUE
    BY DEF Scatter
  <1>2. CASE vals = {}
    <2>1. \A x \in W : ~(PageAt(x.rid, x.pos) = p /\ x.pos % PageSize = o)
      BY <1>2
    <2>2. QED
      BY <1>1, <1>2, <2>1
  <1>3. CASE vals # {}
    <2>1. (CHOOSE v \in vals : TRUE) \in vals
      BY <1>3
    <2>2. Scatter(W)[p][o] \in vals
      BY <1>1, <1>3, <2>1
    <2>3. QED
      BY <2>2
  <1>4. QED
    BY <1>2, <1>3

\* The writes of a pass over the requests R: of r the KV of toks[r] at P[r].
Written(R, toks, P) == UNION {WritesOf(r, toks[r], P[r]) : r \in R}

LEMMA WrittenFacts ==
  ASSUME NEW R, NEW toks, NEW P, NEW x \in Written(R, toks, P)
  PROVE  /\ x.rid \in R /\ x.pos \in P[x.rid]
         /\ x.val = IF x.pos < Len(toks[x.rid]) THEN SubSeq(toks[x.rid], 1, x.pos + 1) ELSE << >>
  <1>1. PICK r \in R : x \in WritesOf(r, toks[r], P[r])
    BY DEF Written
  <1>2. PICK i \in P[r] : x = [rid |-> r, pos |-> i, val |-> IF i < Len(toks[r]) THEN SubSeq(toks[r], 1, i + 1) ELSE << >>]
    BY <1>1 DEF WritesOf
  <1>3. x.rid = r /\ x.pos = i /\ x.val = IF i < Len(toks[r]) THEN SubSeq(toks[r], 1, i + 1) ELSE << >>
    BY <1>2
  <1>4. QED
    BY <1>3

LEMMA WrittenAt ==
  ASSUME NEW R, NEW toks, NEW P, NEW r \in R, NEW i \in P[r]
  PROVE  \E x \in Written(R, toks, P) : x.rid = r /\ x.pos = i
  <1> DEFINE x == [rid |-> r, pos |-> i, val |-> IF i < Len(toks[r]) THEN SubSeq(toks[r], 1, i + 1) ELSE << >>]
  <1>1. x \in WritesOf(r, toks[r], P[r])
    BY DEF WritesOf
  <1>2. x \in Written(R, toks, P)
    BY <1>1 DEF Written
  <1>3. x.rid = r /\ x.pos = i
    OBVIOUS
  <1>4. QED
    BY <1>2, <1>3

\* A pass over the requests R that gives r the KV of the tokens toks[r].
Pass(R, toks, P) ==
  /\ R \subseteq Live \ {retiring} /\ retiring = 0
  /\ \A r \in R : /\ toks[r] \in Seq(Tokens) /\ P[r] \subseteq Nat
                  /\ Len(req[r].prompt) <= Len(toks[r]) /\ \A i \in 1..Len(req[r].prompt) : toks[r][i] = ToksOf(r)[i]
                  /\ \A i \in P[r] : i < Len(table[TableOf(r)]) * PageSize
  /\ kv' = Scatter(Written(R, toks, P))

KVType == [Pages -> [0..PageSize - 1 -> Seq(Tokens)]]

LEMMA PassTypes ==
  ASSUME TypeOK, NEW R, NEW toks, NEW P, Pass(R, toks, P)
  PROVE  kv' \in KVType
  <1> DEFINE W == Written(R, toks, P)
  <1>1. \A x \in W : x.val \in Seq(Tokens)
    <2> SUFFICES ASSUME NEW x \in W PROVE x.val \in Seq(Tokens)
      OBVIOUS
    <2>1. PICK r, i : /\ r = x.rid /\ i = x.pos /\ r \in R /\ i \in P[r]
                      /\ x.val = IF i < Len(toks[r]) THEN SubSeq(toks[r], 1, i + 1) ELSE << >>
      BY WrittenFacts
    <2>2. toks[r] \in Seq(Tokens) /\ i \in Nat
      BY <2>1 DEF Pass
    <2>3. PICK t : t = toks[r]
      OBVIOUS
    <2>4. t \in Seq(Tokens) /\ x.val = IF i < Len(t) THEN SubSeq(t, 1, i + 1) ELSE << >>
      BY <2>1, <2>2, <2>3
    <2>5. i < Len(t) => SubSeq(t, 1, i + 1) \in Seq(Tokens)
      BY <2>2, <2>4
    <2>6. << >> \in Seq(Tokens)
      OBVIOUS
    <2>7. QED
      BY <2>4, <2>5, <2>6
  <1> HIDE DEF W
  <1>2. ASSUME NEW p \in Pages, NEW o \in 0..PageSize - 1
        PROVE  Scatter(W)[p][o] \in Seq(Tokens)
    <2>1. kv[p][o] \in Seq(Tokens)
      <3>1. kv \in [Pages -> [0..PageSize - 1 -> Seq(Tokens)]]
        BY DEF TypeOK
      <3>2. kv[p] \in [0..PageSize - 1 -> Seq(Tokens)]
        BY <3>1
      <3>3. QED
        BY <3>2
    <2>2. QED
      BY <1>1, <2>1, ScatterFacts
  <1>3. Scatter(W) = [p \in Pages |-> [o \in 0..PageSize - 1 |-> Scatter(W)[p][o]]]
    BY DEF Scatter
  <1>4. Scatter(W) \in KVType
    BY <1>2, <1>3 DEF KVType
  <1>5. QED
    BY <1>4 DEF Pass, W

\* Any position the table covers is at an offset in one of its pages.
LEMMA PositionInTable ==
  ASSUME TypeOK, NEW o \in Owners, NEW i \in Nat, i < Len(table[o]) * PageSize
  PROVE  /\ i \div PageSize + 1 \in DOMAIN table[o] /\ i \div PageSize + 1 \in 1..Len(table[o])
         /\ table[o][i \div PageSize + 1] \in Pages
         /\ i % PageSize \in 0..PageSize - 1
  <1>1. table[o] \in Seq(Pages) /\ Len(table[o]) \in Nat /\ DOMAIN table[o] = 1..Len(table[o])
    BY PoolTypes
  <1> DEFINE n == Len(table[o])
  <1>2. i \div PageSize + 1 \in 1..n
    <2>1. n \in Nat /\ i < n * PageSize
      BY <1>1
    <2> HIDE DEF n
    <2>2. QED
      BY <2>1, PageOfPosition
  <1>3. i % PageSize \in 0..PageSize - 1
    BY DivFacts
  <1>4. QED
    BY <1>1, <1>2, <1>3

\* A position below n is in a table of at least Ceil(n) pages.
LEMMA CoveredPosition ==
  ASSUME TypeOK, NEW o \in Owners, NEW n \in Nat, Ceil(n) <= Len(table[o]), NEW i \in Nat, i < n
  PROVE  i < Len(table[o]) * PageSize
  <1> DEFINE k == Len(table[o])
  <1>1. k \in Nat /\ Ceil(n) <= k
    BY PoolTypes
  <1> HIDE DEF k
  <1>2. n <= k * PageSize /\ k * PageSize \in Nat
    BY <1>1, CeilCovers, TimesFacts
  <1>3. i < k * PageSize
    BY <1>2
  <1>4. QED
    BY <1>3 DEF k

\* The prompt of a request is the front of its tokens.
LEMMA PromptFront ==
  ASSUME TypeOK, NEW r \in Rids
  PROVE  /\ Len(req[r].prompt) <= Len(ToksOf(r)) /\ \A i \in 1..Len(req[r].prompt) : ToksOf(r)[i] = req[r].prompt[i]
         /\ \A i \in 1..Len(ToksOf(r)) : ToksOf(r)[i] \in Tokens
  <1>1. PICK p, g : p = req[r].prompt /\ g = req[r].gen
    OBVIOUS
  <1>2. p \in Seq(Tokens) /\ g \in Seq(Tokens) /\ ToksOf(r) = p \o g
    BY <1>1, ReqTypes DEF ToksOf
  <1>3. Len(p) <= Len(p \o g) /\ (\A i \in 1..Len(p) : (p \o g)[i] = p[i]) /\ \A i \in 1..Len(p \o g) : (p \o g)[i] \in Tokens
    BY <1>2
  <1>4. QED
    BY <1>1, <1>2, <1>3

\* The tokens that toks and Plus(r)' agree on, and how far the KV of r is complete after the pass.
Completes(R, toks, P) ==
  /\ \A r \in R : /\ Len(toks[r]) <= Len(Plus(r)') /\ \A i \in 1..Len(toks[r]) : toks[r][i] = Plus(r)'[i]
                  /\ Done(r)' = Len(toks[r])
                  /\ Capacity = 0 => \A i \in 0..Len(toks[r]) - 1 : i \in P[r] \/ i < Done(r)
  /\ \A r \in Live \ R : Done(r)' = Done(r) /\ Plus(r)' = Plus(r)
  /\ Live' = Live /\ retiring' = 0 /\ req' = req
  /\ UNCHANGED <<free, refcount, table, entries, order>>

LEMMA ForwardPass ==
  ASSUME TypeOK, Placed, Phases, Requests, Planned, Forward
  PROVE  \E R, toks, P : Pass(R, toks, P) /\ Completes(R, toks, P)
  <1> DEFINE R == Range(settling)
             toks == [r \in R |-> req[r].prompt]
             P == [r \in R |-> req[r].shared .. (req[r].shared + padTo - 1)]
  <1>1. /\ pc = "pad" /\ pc' = "settle" /\ Unpadded = {}
        /\ kv' = Scatter(UNION {WritesOf(r, req[r].prompt, req[r].shared .. (req[r].shared + padTo - 1)) : r \in R})
        /\ UNCHANGED <<free, refcount, table, entries, order, req, verified, retiring, admitted, settling, active, emitting>>
    BY DEF Forward, pool, cacheVars, batch
  <1>2. kv' = Scatter(Written(R, toks, P))
    <2>1. Written(R, toks, P) = UNION {WritesOf(r, req[r].prompt, req[r].shared .. (req[r].shared + padTo - 1)) : r \in R}
      BY DEF Written
    <2>2. QED
      BY <1>1, <2>1
  <1>3. retiring = 0 /\ emitting = << >> /\ padTo \in Nat /\ padTo > 0
    BY <1>1, Sizes DEF Phases, Retirement, TypeOK
  <1>4. R \subseteq Live \ {retiring}
    BY DEF Live, Placed
  <1>5. ASSUME NEW r \in R
        PROVE  /\ toks[r] \in Seq(Tokens) /\ P[r] \subseteq Nat
               /\ Len(req[r].prompt) <= Len(toks[r]) /\ \A i \in 1..Len(req[r].prompt) : toks[r][i] = ToksOf(r)[i]
               /\ \A i \in P[r] : i < Len(table[TableOf(r)]) * PageSize
               /\ Len(toks[r]) <= Len(Plus(r)') /\ \A i \in 1..Len(toks[r]) : toks[r][i] = Plus(r)'[i]
               /\ Done(r)' = Len(toks[r])
               /\ Capacity = 0 => \A i \in 0..Len(toks[r]) - 1 : i \in P[r] \/ i < Done(r)
    <2>1. /\ r \in Live /\ r \in Rids /\ req[r].prompt \in Seq(Tokens) /\ req[r].shared \in Nat
          /\ Len(req[r].prompt) \in Nat /\ toks[r] = req[r].prompt
      BY <1>4, LiveFacts
    <2>2. P[r] = req[r].shared .. (req[r].shared + padTo - 1)
      OBVIOUS
    <2>3. Len(req[r].prompt) <= req[r].shared + padTo
      BY <1>1 DEF Planned
    <2>4. r \notin Range(emitting) /\ r \notin Range(admitted) /\ req[r].gen = << >>
      BY <1>3, EmptyRange DEF Requests, Placed, Disjoint
    <2>5. verified[r] = << >>
      BY <2>1, <2>4 DEF Requests
    <2>6. ToksOf(r) = req[r].prompt /\ Plus(r)' = req[r].prompt
      <3>1. \A s \in Seq(Tokens) : s \o << >> = s
        OBVIOUS
      <3>2. ToksOf(r) = req[r].prompt /\ ToksOf(r)' = ToksOf(r)
        BY <1>1, <2>1, <2>4, <3>1 DEF ToksOf
      <3>3. Plus(r)' = ToksOf(r)' \o verified'[r]
        BY DEF Plus
      <3>4. QED
        BY <1>1, <2>1, <2>5, <3>1, <3>2, <3>3
    <2>7. ASSUME NEW i \in P[r]
          PROVE  i \in Nat /\ i < Len(table[TableOf(r)]) * PageSize
      <3> DEFINE n == req[r].shared + padTo
      <3>1. n \in Nat /\ i \in Nat /\ i < n
        BY <1>3, <2>1, <2>2
      <3>2. Ceil(n) <= Len(table[TableOf(r)])
        <4>1. ~(Pool!Missing(TableOf(r), Ceil(n)) > 0)
          BY <1>1 DEF Unpadded
        <4>2. Len(table[TableOf(r)]) \in Nat
          BY <2>1, PoolTypes, OwnerFacts
        <4> HIDE DEF n
        <4>3. Ceil(n) \in Nat
          BY <3>1, CeilType
        <4>4. QED
          BY <4>1, <4>2, <4>3 DEF Pool!Missing
      <3> HIDE DEF n
      <3>3. QED
        BY <2>1, <3>1, <3>2, OwnerFacts, CoveredPosition
    <2>8. Done(r)' = Len(toks[r])
      <3>1. r \in Range(settling)' /\ r \notin Range(admitted)' /\ pc' = "settle" /\ ToksOf(r)' = ToksOf(r)
        BY <1>1, <2>4 DEF ToksOf
      <3>2. Done(r)' = Len(ToksOf(r)')
        BY <3>1 DEF Done
      <3>3. QED
        BY <2>1, <2>6, <3>1, <3>2
    <2>9. ASSUME Capacity = 0, NEW i \in 0..Len(toks[r]) - 1
          PROVE  i \in P[r]
      <3>1. req[r].shared = 0
        BY <2>1, <2>9 DEF Requests
      <3> DEFINE n == Len(req[r].prompt)
      <3>2. i \in 0..n - 1 /\ n \in Nat /\ n <= 0 + padTo
        BY <2>1, <2>3, <2>9, <3>1
      <3>3. P[r] = 0 .. (0 + padTo - 1)
        BY <2>2, <3>1
      <3> HIDE DEF n, P
      <3>4. QED
        BY <1>3, <3>2, <3>3
    <2>10. /\ Len(req[r].prompt) <= Len(toks[r]) /\ \A i \in 1..Len(req[r].prompt) : toks[r][i] = ToksOf(r)[i]
           /\ Len(toks[r]) <= Len(Plus(r)') /\ \A i \in 1..Len(toks[r]) : toks[r][i] = Plus(r)'[i]
      BY <2>1, <2>6
    <2> HIDE DEF toks, P
    <2>11. QED
      BY <2>1, <2>7, <2>8, <2>9, <2>10
  <1>6. Live' = Live
    BY <1>1 DEF Live
  <1>7. ASSUME NEW r \in Live \ R
        PROVE  Done(r)' = Done(r) /\ Plus(r)' = Plus(r)
    <2>1. Plus(r)' = Plus(r)
      BY <1>1 DEF Plus, ToksOf
    <2>2. r \in Range(admitted) \/ r \in Range(active)
      BY <1>3, EmptyRange DEF Live
    <2>3. CASE r \in Range(admitted)
      <3>1. r \in Range(admitted)'
        BY <1>1, <2>3
      <3>2. Done(r)' = 0 /\ Done(r) = 0
        BY <2>3, <3>1 DEF Done
      <3>3. QED
        BY <2>1, <3>2
    <2>4. CASE r \notin Range(admitted)
      <3>1. r \notin Range(admitted)' /\ r \notin Range(settling)' /\ r \notin Range(emitting)' /\ r \notin Range(emitting)
        BY <1>1, <1>3, <2>4, EmptyRange
      <3>2. Done(r) = Len(Plus(r)) - 1
        BY <2>4, <3>1 DEF Done
      <3>3. Done(r)' = Len(Plus(r)') - 1
        BY <3>1 DEF Done
      <3>4. QED
        BY <2>1, <3>2, <3>3
    <2>5. QED
      BY <2>1, <2>3, <2>4
  <1> HIDE DEF toks, P
  <1>8. Pass(R, toks, P)
    BY <1>2, <1>3, <1>4, <1>5 DEF Pass
  <1>9. Completes(R, toks, P)
    BY <1>1, <1>3, <1>5, <1>6, <1>7 DEF Completes
  <1>10. QED
    BY <1>8, <1>9

LEMMA DecodePass ==
  ASSUME TypeOK, Placed, Phases, Requests, Covered, Decode
  PROVE  \E R, toks, P : Pass(R, toks, P) /\ Completes(R, toks, P)
  <1> DEFINE R == Range(active)
             toks == [r \in R |-> ToksOf(r)]
             P == [r \in R |-> {Len(ToksOf(r)) - 1}]
  <1>0. Decoding
    BY DEF Decoding
  <1>1. /\ emitting' = active /\ active' = << >> /\ pc = "decode" /\ pc' = "emit" /\ verified' = verified
        /\ retiring = 0 /\ admitted = << >> /\ settling = << >>
        /\ kv' = Scatter(UNION {WritesOf(r, ToksOf(r), {Len(ToksOf(r)) - 1}) : r \in R})
        /\ UNCHANGED <<free, refcount, table, entries, order, req, retiring, admitted, settling>>
    BY <1>0, DecodingFacts DEF Decode
  <1>2. kv' = Scatter(Written(R, toks, P))
    <2>1. Written(R, toks, P) = UNION {WritesOf(r, ToksOf(r), {Len(ToksOf(r)) - 1}) : r \in R}
      BY DEF Written
    <2>2. QED
      BY <1>1, <2>1
  <1>3. Live' = Live /\ Live = R /\ \A r \in Rids : verified[r] = << >>
    BY <1>0, DecodingLive
  <1>4. ASSUME NEW r \in R
        PROVE  /\ toks[r] \in Seq(Tokens) /\ P[r] \subseteq Nat
               /\ Len(req[r].prompt) <= Len(toks[r]) /\ \A i \in 1..Len(req[r].prompt) : toks[r][i] = ToksOf(r)[i]
               /\ \A i \in P[r] : i < Len(table[TableOf(r)]) * PageSize
               /\ Len(toks[r]) <= Len(Plus(r)') /\ \A i \in 1..Len(toks[r]) : toks[r][i] = Plus(r)'[i]
               /\ Done(r)' = Len(toks[r])
               /\ Capacity = 0 => \A i \in 0..Len(toks[r]) - 1 : i \in P[r] \/ i < Done(r)
    <2> DEFINE n == Len(ToksOf(r))
    <2>1. /\ r \in Live /\ r \in Rids /\ Len(req[r].prompt) \in Nat \ {0} /\ Len(req[r].gen) \in Nat
          /\ req[r].maxNew \in Nat /\ ToksOf(r) \in Seq(Tokens)
          /\ Len(ToksOf(r)) = Len(req[r].prompt) + Len(req[r].gen)
      BY <1>3, LiveFacts
    <2>2. Len(req[r].gen) < req[r].maxNew
      BY DEF Requests
    <2>3. n \in Nat \ {0} /\ n - 1 \in Nat /\ n - 1 < Len(req[r].prompt) + req[r].maxNew
          /\ Len(req[r].prompt) + req[r].maxNew \in Nat
      <3>1. PICK a, b, m : a = Len(req[r].prompt) /\ b = Len(req[r].gen) /\ m = req[r].maxNew
        OBVIOUS
      <3>2. a \in Nat \ {0} /\ b \in Nat /\ m \in Nat /\ n = a + b /\ b < m
        BY <2>1, <2>2, <3>1
      <3> HIDE DEF n
      <3>3. n \in Nat \ {0} /\ n - 1 \in Nat /\ n - 1 < a + m /\ a + m \in Nat
        BY <3>2
      <3>4. QED
        BY <3>1, <3>3
    <2>4. Ceil(Len(req[r].prompt) + req[r].maxNew) <= Len(table[TableOf(r)])
      BY <1>1, <2>1 DEF Covered
    <2>5. toks[r] = ToksOf(r) /\ P[r] = {n - 1}
      OBVIOUS
    <2> HIDE DEF n
    <2>6. n - 1 < Len(table[TableOf(r)]) * PageSize
      <3> DEFINE m == Len(req[r].prompt) + req[r].maxNew
      <3>1. m \in Nat /\ n - 1 < m /\ Ceil(m) <= Len(table[TableOf(r)])
        BY <2>3, <2>4
      <3> HIDE DEF m
      <3>2. QED
        BY <2>1, <2>3, <3>1, CoveredPosition, OwnerFacts
    <2>7. Plus(r)' = ToksOf(r) /\ Plus(r) = ToksOf(r) /\ ToksOf(r)' = ToksOf(r)
      <3>1. \A s \in Seq(Tokens) : s \o << >> = s
        OBVIOUS
      <3>2. ToksOf(r)' = ToksOf(r) /\ verified'[r] = << >> /\ verified[r] = << >>
        BY <1>1, <1>3, <2>1 DEF ToksOf
      <3>3. Plus(r)' = ToksOf(r)' \o verified'[r] /\ Plus(r) = ToksOf(r) \o verified[r]
        BY DEF Plus
      <3>4. QED
        BY <2>1, <3>1, <3>2, <3>3
    <2>8. Done(r)' = n
      <3>1. r \in Range(emitting)' /\ verified'[r] = << >> /\ Range(admitted)' = {} /\ Range(settling)' = {}
        BY <1>1, <1>3, <2>1, EmptyRange
      <3>2. Done(r)' = Len(ToksOf(r)')
        BY <3>1 DEF Done
      <3>3. QED
        BY <2>7, <3>2 DEF n
    <2>9. Done(r) = n - 1
      <3>1. r \notin Range(emitting) /\ Range(admitted) = {} /\ Range(settling) = {}
        BY <1>1, EmptyRange DEF Placed, Disjoint
      <3>2. Done(r) = Len(Plus(r)) - 1
        BY <3>1 DEF Done
      <3>3. QED
        BY <2>7, <3>2 DEF n
    <2>10. \A i \in 0..n - 1 : i \in {n - 1} \/ i < n - 1
      BY <2>3
    <2>11. Len(toks[r]) = n
      BY DEF n
    <2>12. /\ Len(req[r].prompt) <= Len(toks[r]) /\ \A i \in 1..Len(req[r].prompt) : toks[r][i] = ToksOf(r)[i]
      BY <2>1, <2>5, PromptFront
    <2> HIDE DEF toks, P
    <2>13. P[r] \subseteq Nat /\ \A i \in P[r] : i < Len(table[TableOf(r)]) * PageSize
      BY <2>3, <2>5, <2>6
    <2>14. Len(toks[r]) <= Len(Plus(r)') /\ \A i \in 1..Len(toks[r]) : toks[r][i] = Plus(r)'[i]
      BY <2>3, <2>5, <2>7, <2>11
    <2>15. \A i \in 0..Len(toks[r]) - 1 : i \in P[r] \/ i < Done(r)
      BY <2>5, <2>9, <2>10, <2>11
    <2>16. QED
      BY <2>1, <2>5, <2>8, <2>11, <2>12, <2>13, <2>14, <2>15
  <1> HIDE DEF toks, P
  <1>5. R \subseteq Live \ {retiring}
    BY <1>3 DEF Placed
  <1>6. Pass(R, toks, P)
    BY <1>1, <1>2, <1>4, <1>5 DEF Pass
  <1>7. Completes(R, toks, P)
    BY <1>1, <1>3, <1>4 DEF Completes
  <1>8. QED
    BY <1>6, <1>7


LEMMA VerifyPass ==
  ASSUME TypeOK, Placed, Phases, Requests, Covered, Verify
  PROVE  /\ \E R, toks, P : Pass(R, toks, P) /\ Completes(R, toks, P)
         /\ verified' \in [Rids -> Seq(Tokens)]
  <1> DEFINE R == Range(active)
             Found == UNION {[1..n -> Tokens] : n \in 1..SpecK + 1}
  <1>0. Decoding
    BY DEF Decoding
  <1>1. /\ emitting' = active /\ active' = << >> /\ pc = "draft" /\ pc' = "emit" /\ Uncovered = << >>
        /\ retiring = 0 /\ admitted = << >> /\ settling = << >>
        /\ UNCHANGED <<free, refcount, table, entries, order, req, retiring, admitted, settling>>
    BY <1>0, DecodingFacts DEF Verify
  <1>2. PICK found \in [R -> Found] :
          /\ kv' = Scatter(UNION {WritesOf(r, ToksOf(r) \o Front(found[r]),
                                           (Len(ToksOf(r)) - 1) .. (Len(ToksOf(r)) + SpecK - 1)) : r \in R})
          /\ verified' = [r \in Rids |-> IF r \in R THEN found[r] ELSE << >>]
    BY DEF Verify
  <1> DEFINE toks == [r \in R |-> ToksOf(r) \o Front(found[r])]
             P == [r \in R |-> (Len(ToksOf(r)) - 1) .. (Len(ToksOf(r)) + SpecK - 1)]
  <1>3. kv' = Scatter(Written(R, toks, P))
    <2>1. Written(R, toks, P) = UNION {WritesOf(r, ToksOf(r) \o Front(found[r]),
                                           (Len(ToksOf(r)) - 1) .. (Len(ToksOf(r)) + SpecK - 1)) : r \in R}
      BY DEF Written
    <2>2. QED
      BY <1>2, <2>1
  <1>4. Live' = Live /\ Live = R /\ (\A r \in Rids : verified[r] = << >>) /\ R \subseteq Rids
    BY <1>0, DecodingLive DEF TypeOK
  <1>5. SpecK \in Nat
    BY Sizes
  <1>6. ASSUME NEW r \in R
        PROVE  found[r] \in Seq(Tokens) /\ Len(found[r]) \in 1..SpecK + 1 /\ found[r] # << >>
    <2>1. PICK n \in 1..SpecK + 1 : found[r] \in [1..n -> Tokens]
      BY <1>2
    <2>2. n \in Nat \ {0}
      BY <2>1
    <2>3. found[r] \in Seq(Tokens) /\ Len(found[r]) = n
      BY <2>1, <2>2
    <2>4. found[r] # << >>
      BY <2>2, <2>3
    <2>5. QED
      BY <2>3, <2>4
  <1>7. ASSUME NEW r \in R
        PROVE  /\ toks[r] \in Seq(Tokens) /\ P[r] \subseteq Nat
               /\ Len(req[r].prompt) <= Len(toks[r]) /\ \A i \in 1..Len(req[r].prompt) : toks[r][i] = ToksOf(r)[i]
               /\ \A i \in P[r] : i < Len(table[TableOf(r)]) * PageSize
               /\ Len(toks[r]) <= Len(Plus(r)') /\ \A i \in 1..Len(toks[r]) : toks[r][i] = Plus(r)'[i]
               /\ Done(r)' = Len(toks[r])
               /\ Capacity = 0 => \A i \in 0..Len(toks[r]) - 1 : i \in P[r] \/ i < Done(r)
    <2>1. r \in Live /\ r \in Rids
      BY <1>4
    <2>2. PICK s, f, n, m : s = ToksOf(r) /\ f = found[r] /\ n = Len(ToksOf(r)) /\ m = Len(req[r].prompt)
      OBVIOUS
    <2>3. s \in Seq(Tokens) /\ n = Len(s) /\ n \in Nat \ {0} /\ m \in Nat /\ m <= n
      <3>1. /\ ToksOf(r) \in Seq(Tokens) /\ Len(ToksOf(r)) = Len(req[r].prompt) + Len(req[r].gen)
            /\ Len(req[r].prompt) \in Nat \ {0} /\ Len(req[r].gen) \in Nat
        BY <2>1, LiveFacts
      <3>2. PICK b : b = Len(req[r].gen)
        OBVIOUS
      <3>3. m \in Nat \ {0} /\ b \in Nat /\ n = m + b /\ s \in Seq(Tokens) /\ n = Len(s)
        BY <2>2, <3>1, <3>2
      <3>4. n \in Nat \ {0} /\ m <= n
        BY <3>3
      <3>5. QED
        BY <3>3, <3>4
    <2>4. f \in Seq(Tokens) /\ Len(f) \in 1..SpecK + 1 /\ f # << >> /\ Len(f) \in Nat \ {0}
      BY <1>5, <1>6, <2>2
    <2>5. toks[r] = s \o Front(f) /\ P[r] = n - 1 .. n + SpecK - 1
      BY <2>2
    <2>6. Front(f) \in Seq(Tokens) /\ Len(Front(f)) = Len(f) - 1 /\ \A i \in 1..Len(f) - 1 : Front(f)[i] = f[i]
      <3>1. PICK k : k = Len(f) - 1
        OBVIOUS
      <3>2. f \in Seq(Tokens) /\ k \in Nat /\ k <= Len(f)
        BY <2>4, <3>1
      <3>3. SubSeq(f, 1, k) \in Seq(Tokens) /\ Len(SubSeq(f, 1, k)) = k /\ \A i \in 1..k : SubSeq(f, 1, k)[i] = f[i]
        BY <3>2
      <3>4. Front(f) = SubSeq(f, 1, k)
        BY <3>1 DEF Front
      <3>5. QED
        BY <3>1, <3>3, <3>4
    <2>7. /\ s \o Front(f) \in Seq(Tokens) /\ Len(s \o Front(f)) = n + Len(f) - 1
          /\ \A i \in 1..n : (s \o Front(f))[i] = s[i]
          /\ s \o f \in Seq(Tokens) /\ Len(s \o f) = n + Len(f)
          /\ \A i \in 1..n + Len(f) - 1 : (s \o Front(f))[i] = (s \o f)[i]
      <3>1. PICK g : g = Front(f)
        OBVIOUS
      <3>2. g \in Seq(Tokens) /\ Len(g) = Len(f) - 1 /\ \A i \in 1..Len(f) - 1 : g[i] = f[i]
        BY <2>6, <3>1
      <3>3. Len(f) \in Nat \ {0}
        BY <1>5, <2>4
      <3>4. PICK k : k = Len(f)
        OBVIOUS
      <3>5. /\ s \in Seq(Tokens) /\ f \in Seq(Tokens) /\ g \in Seq(Tokens) /\ Len(s) = n /\ Len(f) = k /\ Len(g) = k - 1
            /\ n \in Nat /\ k \in Nat \ {0} /\ \A i \in 1..k - 1 : g[i] = f[i]
        BY <2>3, <2>4, <3>2, <3>3, <3>4
      <3>6. s \o g \in Seq(Tokens) /\ Len(s \o g) = n + (k - 1) /\ s \o f \in Seq(Tokens) /\ Len(s \o f) = n + k
        <4>1. \A t, u \in Seq(Tokens) : t \o u \in Seq(Tokens) /\ Len(t \o u) = Len(t) + Len(u)
          OBVIOUS
        <4>2. s \o g \in Seq(Tokens) /\ s \o f \in Seq(Tokens) /\ Len(s \o g) = Len(s) + Len(g) /\ Len(s \o f) = Len(s) + Len(f)
          BY <3>5, <4>1
        <4>3. QED
          BY <3>5, <4>2
      <3>7. \A i \in 1..n : (s \o g)[i] = s[i] /\ (s \o f)[i] = s[i]
        BY <3>5
      <3>8. ASSUME NEW i \in 1..n + k - 1
            PROVE  (s \o g)[i] = (s \o f)[i]
        <4>1. i \in 1..n \/ i - n \in 1..k - 1
          BY <3>5
        <4>2. i \in 1..n => (s \o g)[i] = (s \o f)[i]
          BY <3>7
        <4>3. i - n \in 1..k - 1 => (s \o g)[i] = g[i - n] /\ (s \o f)[i] = f[i - n]
          BY <3>5
        <4>4. QED
          BY <3>5, <4>1, <4>2, <4>3
      <3>9. n + (k - 1) = n + k - 1
        BY <3>5
      <3>10. QED
        BY <3>1, <3>4, <3>6, <3>7, <3>8, <3>9
    <2>8. Plus(r)' = s \o f /\ Plus(r) = s
      <3>1. \A t \in Seq(Tokens) : t \o << >> = t
        OBVIOUS
      <3>2. ToksOf(r)' = ToksOf(r) /\ verified'[r] = f /\ verified[r] = << >>
        BY <1>1, <1>2, <1>4, <2>1, <2>2 DEF ToksOf
      <3>3. Plus(r)' = ToksOf(r)' \o verified'[r] /\ Plus(r) = ToksOf(r) \o verified[r]
        BY DEF Plus
      <3>4. QED
        BY <2>2, <2>3, <3>1, <3>2, <3>3
    <2>9. Done(r)' = Len(s \o f) - 1
      <3>1. verified'[r] # << >> /\ Range(admitted)' = {} /\ Range(settling)' = {}
        BY <1>1, <1>2, <2>1, <2>2, <2>4, EmptyRange
      <3>2. Done(r)' = Len(Plus(r)') - 1
        BY <3>1 DEF Done
      <3>3. QED
        BY <2>8, <3>2
    <2>10. Done(r) = n - 1
      <3>1. r \notin Range(emitting) /\ Range(admitted) = {} /\ Range(settling) = {}
        BY <1>1, EmptyRange DEF Placed, Disjoint
      <3>2. Done(r) = Len(Plus(r)) - 1
        BY <3>1 DEF Done
      <3>3. QED
        BY <2>3, <2>8, <3>2
    <2>11. ASSUME NEW i \in P[r]
           PROVE  i \in Nat /\ i < Len(table[TableOf(r)]) * PageSize
      <3>1. i \in Nat /\ i < n + SpecK /\ n + SpecK \in Nat
        BY <1>5, <2>3, <2>5
      <3>2. Pool!Missing(TableOf(r), DraftPages(r)) <= 0
        BY <1>1, UncoveredFacts
      <3>3. Ceil(n + SpecK) \in Nat /\ DraftPages(r) = Ceil(n + SpecK)
        BY <2>2, <3>1, CeilType DEF DraftPages
      <3>4. Len(table[TableOf(r)]) \in Nat
        BY <2>1, PoolTypes, OwnerFacts
      <3>5. Ceil(n + SpecK) <= Len(table[TableOf(r)])
        BY <3>2, <3>3, <3>4 DEF Pool!Missing
      <3>6. QED
        BY <2>1, <3>1, <3>5, OwnerFacts, CoveredPosition
    <2>12. ASSUME NEW i \in 0..Len(toks[r]) - 1
           PROVE  i \in P[r] \/ i < Done(r)
      <3>1. i \in 0..(n + Len(f) - 1) - 1
        BY <2>5, <2>7
      <3>2. PICK k : k = Len(f)
        OBVIOUS
      <3>3. k \in Nat /\ k <= SpecK + 1 /\ i \in 0..(n + k - 1) - 1
        BY <2>4, <3>1, <3>2
      <3>4. QED
        BY <1>5, <2>3, <2>5, <2>10, <3>3
    <2> HIDE DEF toks, P
    <2>13. m <= Len(toks[r]) /\ \A i \in 1..m : toks[r][i] = s[i]
      BY <1>5, <2>3, <2>4, <2>5, <2>7
    <2>14. Len(toks[r]) <= Len(Plus(r)') /\ \A i \in 1..Len(toks[r]) : toks[r][i] = Plus(r)'[i]
      <3>1. Len(s \o Front(f)) <= Len(s \o f)
        BY <1>5, <2>3, <2>4, <2>7
      <3>2. QED
        BY <2>5, <2>7, <2>8, <3>1
    <2>15. Done(r)' = Len(toks[r])
      BY <1>5, <2>3, <2>4, <2>5, <2>7, <2>9
    <2>16. QED
      BY <2>2, <2>5, <2>7, <2>11, <2>12, <2>13, <2>14, <2>15
  <1>8. verified' \in [Rids -> Seq(Tokens)]
    <2>1. << >> \in Seq(Tokens)
      OBVIOUS
    <2>2. QED
      BY <1>2, <1>6, <2>1
  <1> HIDE DEF toks, P
  <1>9. R \subseteq Live \ {retiring}
    BY <1>4 DEF Placed
  <1>10. Pass(R, toks, P)
    BY <1>1, <1>3, <1>7, <1>9 DEF Pass
  <1>11. Completes(R, toks, P)
    BY <1>1, <1>4, <1>7 DEF Completes
  <1>12. QED
    BY <1>8, <1>10, <1>11

-----------------------------------------------------------------------------
(* The types *)

\* The kinds of steps, by what becomes of the KV.
LEMMA KVMoves ==
  ASSUME TypeOK, Placed, Phases, Requests, Cached, Covered, Planned, Next
  PROVE  \/ kv' = kv /\ ~Reserving /\ ~Forward /\ ~Decoding
         \/ Reserving /\ \E r \in Live : \E f : r \in Rids /\ Grows(TableOf(r), f) /\ ForgetFresh
         \/ (Forward \/ Decoding) /\ \E R, toks, P : Pass(R, toks, P) /\ Completes(R, toks, P)
  <1>1. CASE Reserving
    BY <1>1, ReservingGrows
  <1>2. CASE Forward
    BY <1>2, ForwardPass
  <1>3. CASE Decoding
    BY <1>3, DecodePass, VerifyPass DEF Decoding
  <1>4. CASE ~Reserving /\ ~Forward /\ ~Decoding
    <2>1. CASE Quiet
      BY <1>4, <2>1, QuietStays
    <2>2. CASE EndAdmit \/ Remember \/ Evict \/ Submitting \/ Admit \/ TakeGroup \/ Settle \/ Emit \/ Free \/ StartOnline
      BY <1>4, <2>2 DEF EndAdmit, Remember, Evict, Submitting, Submit, Admit, TakeGroup, Settle, Emit, Free, StartOnline
    <2>3. QED
      BY <1>4, <2>1, <2>2, NextCases DEF Staying
  <1>5. QED
    BY <1>1, <1>2, <1>3, <1>4

LEMMA KVTypeStep ==
  ASSUME TypeOK, Placed, Phases, Requests, Cached, Covered, Planned, Next
  PROVE  kv' \in KVType
  <1>1. kv \in KVType
    BY DEF TypeOK, KVType
  <1>2. CASE kv' = kv
    BY <1>1, <1>2
  <1>3. CASE ForgetFresh
    <2> DEFINE blank == [i \in 0..PageSize - 1 |-> << >>]
               S == [0..PageSize - 1 -> Seq(Tokens)]
    <2>1. << >> \in Seq(Tokens)
      OBVIOUS
    <2>2. blank \in S
      BY <2>1
    <2>3. kv' = [p \in Pages |-> IF p \in free \ free' THEN blank ELSE kv[p]]
      BY <1>3 DEF ForgetFresh
    <2>4. kv \in [Pages -> S] /\ KVType = [Pages -> S]
      BY <1>1 DEF KVType
    <2> HIDE DEF blank, S
    <2>5. QED
      BY <2>2, <2>3, <2>4
  <1>4. CASE \E R, toks, P : Pass(R, toks, P)
    BY <1>4, PassTypes
  <1>5. QED
    BY <1>2, <1>3, <1>4, KVMoves

LEMMA QueueTypes ==
  ASSUME TypeOK, Placed, Phases, Requests, Cached, Planned, Next
  PROVE  /\ pending' \in Seq([ext : Rids, prompt : Prompts, maxNew : MaxNews])
         /\ submitted' \in 0..MaxRequests /\ nextRid' \in 1..MaxRequests + 1
  <1> DEFINE S == [ext : Rids, prompt : Prompts, maxNew : MaxNews]
  <1>1. pending \in Seq(S) /\ submitted \in 0..MaxRequests /\ nextRid \in 1..MaxRequests + 1 /\ MaxRequests \in Nat
    BY Sizes DEF TypeOK
  <1>2. CASE UNCHANGED <<pending, submitted, nextRid>>
    BY <1>1, <1>2
  <1>3. CASE Submitting
    <2>1. PICK p \in Prompts, n \in MaxNews : Submit(p, n)
      BY <1>3 DEF Submitting
    <2>2. PICK x : x = [ext |-> submitted + 1, prompt |-> p, maxNew |-> n]
      OBVIOUS
    <2>3. pending' = Append(pending, x) /\ submitted' = submitted + 1 /\ submitted < MaxRequests /\ nextRid' = nextRid
      BY <2>1, <2>2 DEF Submit
    <2>4. submitted + 1 \in Rids
      BY <1>1, <2>3 DEF Rids
    <2>5. x \in S
      BY <2>2, <2>4
    <2> HIDE DEF S
    <2>6. pending' \in Seq(S)
      BY <1>1, <2>3, <2>5
    <2>7. QED
      BY <1>1, <2>3, <2>4, <2>6 DEF S
  <1>4. CASE Admit
    <2>1. pending # << >> /\ pending' = Tail(pending) /\ nextRid' = nextRid + 1 /\ nextRid \in Rids /\ submitted' = submitted
      BY <1>4, AdmitFacts
    <2> HIDE DEF S
    <2>2. Tail(pending) \in Seq(S)
      BY <1>1, <2>1, HeadTail
    <2>3. nextRid + 1 \in 1..MaxRequests + 1
      BY <1>1, <2>1 DEF Rids
    <2>4. QED
      BY <1>1, <2>1, <2>2, <2>3 DEF S
  <1>5. CASE StartOnline
    <2>1. pending' = << >> /\ submitted' = submitted /\ nextRid' = (IF Capacity = 0 THEN 1 ELSE nextRid)
      BY <1>5, StartOnlineFacts
    <2>2. << >> \in Seq(S)
      OBVIOUS
    <2>3. nextRid' \in 1..MaxRequests + 1
      BY <1>1, <2>1
    <2>4. QED
      BY <1>1, <2>1, <2>2, <2>3
  <1>6. CASE Staying
    BY <1>2, <1>6, StayingStays DEF places
  <1>7. CASE TakeGroup \/ Settle \/ Emit \/ Decoding \/ Free
    BY <1>2, <1>7 DEF TakeGroup, Settle, Emit, Decoding, Decode, Verify, Free
  <1>8. QED
    BY <1>3, <1>4, <1>5, <1>6, <1>7, NextCases

\* What the engine keeps of its requests.
ReqSet == [ext : 0..MaxRequests, prompt : Seq(Tokens), gen : Seq(Tokens), maxNew : Nat, shared : Nat]

LEMMA NoRequestType == NoRequest \in ReqSet
  <1>1. 0 \in 0..MaxRequests /\ 0 \in Nat /\ << >> \in Seq(Tokens)
    BY Sizes
  <1>2. QED
    BY <1>1 DEF NoRequest, ReqSet

LEMMA RequestTypes ==
  ASSUME TypeOK, Placed, Phases, Requests, Cached, Covered, Planned, Next
  PROVE  req' \in [Rids -> ReqSet] /\ done' \subseteq Rids /\ verified' \in [Rids -> Seq(Tokens)]
  <1>1. req \in [Rids -> ReqSet] /\ done \subseteq Rids /\ verified \in [Rids -> Seq(Tokens)] /\ submitted \in 0..MaxRequests
    BY DEF TypeOK, ReqSet
  <1>2. CASE Settle \/ Emit
    <2>1. PICK r \in Rids, toks \in Seq(Tokens) : Hands(r, toks)
      BY <1>2, HandsExist
    <2>2. req' \in [Rids -> ReqSet]
      BY <2>1, HandsFacts DEF ReqSet
    <2>3. done' \subseteq done \cup {req[r].ext}
      BY <2>1, HandsFacts
    <2>4. req[r].ext \in 1..submitted
      BY <2>1 DEF Requests, Hands
    <2>5. req[r].ext \in Rids
      BY <1>1, <2>4, Sizes DEF Rids
    <2>6. verified' = verified \/ verified' = [verified EXCEPT ![Head(emitting)] = << >>]
      BY <1>2 DEF Settle, Emit
    <2>7. << >> \in Seq(Tokens)
      OBVIOUS
    <2>8. verified' \in [Rids -> Seq(Tokens)]
      BY <1>1, <2>6, <2>7
    <2>9. QED
      BY <1>1, <2>2, <2>3, <2>5, <2>8
  <1>3. CASE Admit
    <2>1. PICK q : q = Head(pending)
      OBVIOUS
    <2>2. PICK x : x = [ext |-> q.ext, prompt |-> q.prompt, gen |-> << >>, maxNew |-> q.maxNew, shared |-> SharedTokens(q.prompt)]
      OBVIOUS
    <2>3. /\ q.ext \in 1..submitted /\ q.prompt \in Prompts /\ q.maxNew \in MaxNews /\ q.prompt \in Seq(Tokens)
          /\ SharedTokens(q.prompt) \in Nat /\ req' = [req EXCEPT ![nextRid] = x] /\ done' = done /\ verified' = verified
      BY <1>3, <2>1, <2>2, AdmitFacts
    <2>4. q.ext \in 0..MaxRequests /\ q.maxNew \in Nat /\ << >> \in Seq(Tokens)
      BY <1>1, <2>3, Sizes, PromptFacts
    <2>5. x \in ReqSet
      BY <2>2, <2>3, <2>4 DEF ReqSet
    <2>6. QED
      BY <1>1, <2>3, <2>5
  <1>4. CASE Free
    BY <1>1, <1>4, FreeFacts, NoRequestType
  <1>5. CASE StartOnline
    BY <1>1, <1>5, StartOnlineFacts, NoRequestType
  <1>6. CASE Decoding
    <2>1. req' = req /\ done' = done
      BY <1>6, DecodingFacts
    <2>2. verified' \in [Rids -> Seq(Tokens)]
      BY <1>1, <1>6, VerifyPass DEF Decoding, Decode
    <2>3. QED
      BY <1>1, <2>1, <2>2
  <1>7. CASE Staying
    BY <1>1, <1>7, StayingStays DEF places
  <1>8. CASE TakeGroup \/ Submitting
    BY <1>1, <1>8 DEF TakeGroup, Submitting, Submit, batch
  <1>9. QED
    BY <1>2, <1>3, <1>4, <1>5, <1>6, <1>7, <1>8, NextCases

LEMMA CacheTypes ==
  ASSUME TypeOK, Placed, Phases, Requests, Cached, Planned, Next
  PROVE  entries' \in [Rids -> Seq(Tokens)] /\ order' \in Seq(Rids) /\ lru' \in Seq(Rids)
  <1>1. entries \in [Rids -> Seq(Tokens)] /\ order \in Seq(Rids) /\ lru \in Seq(Rids)
    BY DEF TypeOK
  <1>2. CASE Remember
    <2>1. PICK t : t = SubSeq(ToksOf(retiring), 1, FullPages(retiring) * PageSize)
      OBVIOUS
    <2>2. /\ retiring \in Rids /\ entries' = [entries EXCEPT ![retiring] = t] /\ entries'[retiring] \in Seq(Tokens)
          /\ order' = Append(order, retiring) /\ lru' = Append(lru, retiring)
      BY <1>2, <2>1, RememberFacts
    <2>3. t \in Seq(Tokens)
      BY <1>1, <2>2
    <2>4. QED
      BY <1>1, <2>2, <2>3, AppendOne
  <1>3. CASE Evict
    <2>1. PICK h : h = Head(lru)
      OBVIOUS
    <2>2. h \in Rids /\ entries' = [entries EXCEPT ![h] = << >>] /\ order' \in Seq(Rids) /\ lru' \in Seq(Rids)
      BY <1>3, <2>1, EvictFacts
    <2>3. << >> \in Seq(Tokens)
      OBVIOUS
    <2>4. QED
      BY <1>1, <2>2, <2>3
  <1>4. CASE ~Remember /\ ~Evict
    BY <1>1, <1>4, CacheStays
  <1>5. QED
    BY <1>2, <1>3, <1>4

LEMMA PointTypes ==
  ASSUME TypeOK, Placed, Phases, Requests, Cached, Planned, Next
  PROVE  /\ padTo' \in 0..MaxSeq /\ failures' \in 0..MaxFailures
         /\ pc' \in {"idle", "admit", "reserve", "prefill", "pad", "settle", "decode", "draft", "emit",
                     "remember", "evict", "free", "failed"}
  <1> DEFINE points == {"idle", "admit", "reserve", "prefill", "pad", "settle", "decode", "draft", "emit",
                        "remember", "evict", "free", "failed"}
  <1>1. padTo \in 0..MaxSeq /\ failures \in 0..MaxFailures /\ pc \in points /\ MaxFailures \in Nat /\ MaxSeq \in Nat
    BY Sizes, EngineAssumption DEF TypeOK
  <1>2. CASE Quiet
    <2>1. padTo' \in {padTo, 0} /\ failures' \in {failures} \cup (IF failures < MaxFailures THEN {failures + 1} ELSE {})
          /\ pc' \in points
      BY <1>2 DEF Quiet, BeginStep, EndSettle, NothingActive, BeginDraft, EndStep, NothingToRemember, EndEvict, ModelCallRaises, batch
    <2>2. QED
      BY <1>1, <2>1
  <1>3. CASE Reserving
    BY <1>1, <1>3 DEF Reserving, ReserveAdmitted, ReservePadding, ReserveDrafts, DraftsOutOfPages, batch
  <1>4. CASE EndAdmit \/ Forward \/ Remember \/ Evict
    BY <1>1, <1>4 DEF EndAdmit, Forward, Remember, Evict, batch
  <1>5. CASE Settle \/ Emit
    BY <1>1, <1>5 DEF Settle, Emit, TakeTokens
  <1>6. CASE Submitting \/ Admit \/ Decoding \/ Free \/ StartOnline
    <2>1. CASE Submitting \/ Decoding
      BY <1>1, <2>1 DEF Submitting, Submit, Decoding, Decode, Verify, batch
    <2>2. CASE Admit
      BY <1>1, <2>2 DEF Admit
    <2>3. CASE Free
      BY <1>1, <2>3 DEF Free
    <2>4. CASE StartOnline
      BY <1>1, <2>4 DEF StartOnline
    <2>5. QED
      BY <1>6, <2>1, <2>2, <2>3, <2>4
  <1>7. CASE TakeGroup
    <2>1. failures' = failures /\ pc' \in points
      BY <1>7 DEF TakeGroup
    <2>2. settling' \in Seq(Rids) /\ settling' # << >> /\ padTo' \in Nat
      BY <1>7, TakeFacts
    <2>3. PICK r : r \in Range(settling')
      BY <2>2, NothingListed
    <2>4. req[r].shared + padTo' <= MaxSeq /\ r \in Range(admitted)
      BY <1>7, <2>3, TakeFacts
    <2>5. req[r].shared \in Nat
      BY <2>4, LiveFacts DEF Live
    <2>6. padTo' \in 0..MaxSeq
      BY <1>1, <2>2, <2>4, <2>5
    <2>7. QED
      BY <1>1, <2>1, <2>6
  <1>8. QED
    BY <1>2, <1>3, <1>4, <1>5, <1>6, <1>7, NextCases DEF Staying

LEMMA TypeStep ==
  ASSUME TypeOK, Placed, Phases, Requests, Cached, Covered, Planned, Placed', Pool!PoolInv', Next
  PROVE  TypeOK'
  <1>1. Pool!TypeOK'
    BY DEF Pool!PoolInv
  <1>2. Live' \subseteq Rids
    BY DEF Placed, Live, Range
  <1>3. QED
    BY <1>1, <1>2, KVTypeStep, QueueTypes, RequestTypes, CacheTypes, PointTypes DEF TypeOK, KVType, ReqSet

-----------------------------------------------------------------------------
(* What becomes of the live requests, of their tokens and of their pages *)

LEMMA LiveMoves ==
  ASSUME TypeOK, Placed, Phases, Requests, Cached, Planned, Placed', Next, NEW r \in Live'
  PROVE  /\ r \in Rids
         /\ (r \in Live /\ (Free => r # retiring)) \/ (Admit /\ r = nextRid)
         /\ r # retiring' => r # retiring
  <1>0. r \in Rids
    BY DEF Placed, Live, Range
  <1>1. CASE Staying
    <2>1. Live' = Live /\ retiring' = retiring
      BY <1>1, StayingStays DEF places, Live
    <2>2. ~Free
      BY <1>1 DEF Staying, Quiet, Reserving, BeginStep, EndSettle, NothingActive, BeginDraft, EndStep,
         NothingToRemember, EndEvict, ModelCallRaises, ReserveAdmitted, ReservePadding, ReserveDrafts, DraftsOutOfPages,
         EndAdmit, Forward, Remember, Evict, Free
    <2>3. QED
      BY <1>0, <2>1, <2>2
  <1>2. CASE Free
    BY <1>0, <1>2, FreeFacts
  <1>3. CASE Admit
    <2>1. Live' = Live \cup {nextRid} /\ retiring' = retiring /\ nextRid \notin Live /\ pc = "admit"
      BY <1>3, AdmitFacts
    <2>2. r = nextRid => r # retiring
      BY <1>0, <2>1, Sizes DEF Live, Rids
    <2>3. ~Free
      BY <2>1 DEF Free
    <2>4. QED
      BY <1>0, <1>3, <2>1, <2>2, <2>3
  <1>4. CASE Settle \/ Emit
    <2>1. PICK s \in Rids, toks \in Seq(Tokens) : Hands(s, toks)
      BY <1>4, HandsExist
    <2>2. Live' = Live /\ retiring = 0
      BY <2>1, HandsFacts DEF Hands
    <2>3. r # 0
      BY <1>0, Sizes DEF Rids
    <2>4. ~Free
      BY <1>4 DEF Settle, Emit, Free
    <2>5. QED
      BY <1>0, <2>2, <2>3, <2>4
  <1>5. CASE TakeGroup
    <2>1. Live' = Live /\ retiring' = retiring
      BY <1>5, TakeLive
    <2>2. QED
      BY <1>0, <1>5, <2>1 DEF TakeGroup, Free
  <1>6. CASE Decoding
    <2>1. Live' = Live /\ retiring' = retiring /\ pc \in {"decode", "draft"}
      BY <1>6, DecodingLive, DecodingFacts
    <2>2. QED
      BY <1>0, <2>1 DEF Free
  <1>7. CASE Submitting
    <2>1. Live' = Live /\ retiring' = retiring /\ pc = "idle"
      BY <1>7 DEF Submitting, Submit, batch, Live
    <2>2. QED
      BY <1>0, <2>1 DEF Free
  <1>8. CASE StartOnline
    BY <1>8, StartOnlineFacts
  <1>9. QED
    BY <1>1, <1>2, <1>3, <1>4, <1>5, <1>6, <1>7, <1>8, NextCases

\* A request that stays live keeps its prompt and the tokens it has.
LEMMA ToksExtend ==
  ASSUME TypeOK, Placed, Phases, Requests, Cached, Planned, Placed', Next, NEW r \in Live, r \in Live'
  PROVE  /\ req'[r].prompt = req[r].prompt
         /\ Len(ToksOf(r)) <= Len(ToksOf(r)') /\ \A i \in 1..Len(ToksOf(r)) : ToksOf(r)'[i] = ToksOf(r)[i]
         /\ ~Settle /\ ~Emit => req'[r] = req[r] /\ ToksOf(r)' = ToksOf(r)
  <1>0. r \in Rids /\ ToksOf(r) \in Seq(Tokens)
    BY ReqTypes DEF TypeOK
  <1>1. ASSUME req'[r] = req[r]
        PROVE  /\ req'[r].prompt = req[r].prompt /\ ToksOf(r)' = ToksOf(r)
               /\ Len(ToksOf(r)) <= Len(ToksOf(r)') /\ \A i \in 1..Len(ToksOf(r)) : ToksOf(r)'[i] = ToksOf(r)[i]
    <2>1. ToksOf(r)' = ToksOf(r)
      BY <1>1 DEF ToksOf
    <2>2. QED
      BY <1>0, <1>1, <2>1
  <1>2. CASE Settle \/ Emit
    <2>1. PICK s \in Rids, toks \in Seq(Tokens) : Hands(s, toks)
      BY <1>2, HandsExist
    <2>2. CASE r # s
      BY <1>0, <1>1, <1>2, <2>1, <2>2, HandsFacts
    <2>3. CASE r = s
      <3>1. req'[r].prompt = req[r].prompt /\ ToksOf(r)' = ToksOf(r) \o Taken(r, toks)
        BY <2>1, <2>3, HandsFacts
      <3>2. Taken(r, toks) \in Seq(Tokens)
        BY <1>0, <2>1, <2>3, TakenFacts DEF Hands
      <3>3. PICK t, u : t = ToksOf(r) /\ u = Taken(r, toks)
        OBVIOUS
      <3>4. Len(t) <= Len(t \o u) /\ \A i \in 1..Len(t) : (t \o u)[i] = t[i]
        BY <1>0, <3>2, <3>3
      <3>5. QED
        BY <1>2, <3>1, <3>3, <3>4
    <2>4. QED
      BY <2>2, <2>3
  <1>3. CASE Admit
    <2>1. nextRid \notin Live /\ \E x : req' = [req EXCEPT ![nextRid] = x]
      BY <1>3, AdmitFacts
    <2>2. req'[r] = req[r]
      BY <1>0, <2>1
    <2>3. QED
      BY <1>1, <2>2
  <1>4. CASE Free
    <2>1. r # retiring /\ req' = [req EXCEPT ![retiring] = NoRequest]
      BY <1>4, FreeFacts
    <2>2. req'[r] = req[r]
      BY <1>0, <2>1
    <2>3. QED
      BY <1>1, <2>2
  <1>5. CASE StartOnline
    BY <1>5, StartOnlineFacts
  <1>6. CASE Staying \/ TakeGroup \/ Decoding \/ Submitting
    <2>1. req' = req
      BY <1>6, StayingStays, DecodingFacts DEF places, TakeGroup, Submitting, Submit
    <2>2. QED
      BY <1>1, <2>1
  <1>7. QED
    BY <1>2, <1>3, <1>4, <1>5, <1>6, NextCases

\* An entry is the same as before, or the one just made.
LEMMA KeptMoves ==
  ASSUME TypeOK, Placed, Phases, Requests, Cached, Planned, Next, NEW e \in Range(order')
  PROVE  /\ e \in Rids
         /\ \/ e \in Range(order) /\ entries'[e] = entries[e] /\ table'[KeptBy(e)] = table[KeptBy(e)]
            \/ Remember /\ e = retiring
  <1>1. \A x \in Range(order) : x \in Rids
    BY EntryTypes
  <1>2. entries \in [Rids -> Seq(Tokens)] /\ order \in Seq(Rids)
    BY DEF TypeOK
  <1>3. CASE Remember
    <2>1. /\ retiring \in Rids /\ order' = Append(order, retiring) /\ retiring \notin Range(order)
          /\ \A o \in Owners \ {KeptBy(retiring)} : table'[o] = table[o]
          /\ \E t : entries' = [entries EXCEPT ![retiring] = t]
      BY <1>3, RememberFacts
    <2>2. Range(order') = Range(order) \cup {retiring}
      BY <1>2, <2>1, AppendOne
    <2>3. CASE e = retiring
      BY <1>3, <2>1, <2>3
    <2>4. CASE e # retiring
      <3>1. e \in Range(order) /\ e \in Rids
        BY <1>1, <2>2, <2>4
      <3>2. entries'[e] = entries[e]
        BY <1>2, <2>1, <2>4, <3>1
      <3>3. KeptBy(e) \in Owners \ {KeptBy(retiring)}
        BY <2>1, <2>4, <3>1, OwnerFacts
      <3>4. QED
        BY <2>1, <3>1, <3>2, <3>3
    <2>5. QED
      BY <2>3, <2>4
  <1>4. CASE Evict
    <2>1. PICK h : h = Head(lru)
      OBVIOUS
    <2>2. /\ h \in Rids /\ entries' = [entries EXCEPT ![h] = << >>] /\ Range(order') = Range(order) \ {h}
          /\ \A o \in Owners \ {KeptBy(h)} : table'[o] = table[o]
      BY <1>4, <2>1, EvictFacts
    <2>3. e \in Range(order) /\ e \in Rids /\ e # h
      BY <1>1, <2>2
    <2>4. entries'[e] = entries[e]
      BY <1>2, <2>2, <2>3
    <2>5. KeptBy(e) \in Owners \ {KeptBy(h)}
      BY <2>2, <2>3, OwnerFacts
    <2>6. QED
      BY <2>2, <2>3, <2>4, <2>5
  <1>5. CASE ~Remember /\ ~Evict
    <2>1. entries' = entries /\ order' = order
      BY <1>5, CacheStays
    <2>2. QED
      BY <1>1, <1>5, <2>1, KeptStays
  <1>6. QED
    BY <1>3, <1>4, <1>5

\* Who takes over the pages of whom.
Sharer(src, dst) ==
  \/ Remember /\ src = TableOf(retiring) /\ dst = KeptBy(retiring)
  \/ Admit /\ src = KeptBy(Route(Head(pending).prompt)) /\ dst = TableOf(nextRid)

\* The pages of a table are those it had, those it takes over, or fresh ones.
LEMMA PageMoves ==
  ASSUME TypeOK, Pool!PoolInv, Placed, Phases, Requests, Cached, Planned, Next,
         NEW o \in Owners, NEW k \in DOMAIN table'[o]
  PROVE  \/ k \in DOMAIN table[o] /\ table'[o][k] = table[o][k]
         \/ /\ k \notin DOMAIN table[o] /\ Reserving /\ table'[o][k] \in free \ free'
            /\ \A q \in Owners \ {o} : table'[o][k] \notin Range(table'[q])
         \/ \E src \in Owners \ {o} :
              /\ Sharer(src, o) /\ k \in DOMAIN table[src] /\ table'[o][k] = table[src][k]
              /\ k \in 1..Len(table'[o]) /\ table[o] = << >>
  <1>0. DOMAIN table[o] = 1..Len(table[o]) /\ Len(table[o]) \in Nat
    BY PoolTypes
  <1>1. ASSUME table'[o] = table[o]
        PROVE  k \in DOMAIN table[o] /\ table'[o][k] = table[o][k]
    BY <1>1
  <1>2. CASE UNCHANGED <<free, table>>
    BY <1>1, <1>2
  <1>3. CASE Reserving
    <2>1. PICK r \in Live, f \in Seq(Pages) : r \in Rids /\ Grows(TableOf(r), f)
      BY <1>3, ReservingGrows DEF Grows
    <2>2. TableOf(r) \in Owners
      BY <2>1, OwnerFacts
    <2>3. CASE o # TableOf(r)
      BY <1>1, <2>1, <2>2, <2>3, GrowsTables
    <2>4. CASE o = TableOf(r)
      <3>1. /\ \A i \in 1..Len(table[o]) : table'[o][i] = table[o][i]
            /\ k \notin 1..Len(table[o]) => table'[o][k] \in Range(f)
            /\ \A q \in Owners \ {o} : table'[q] = table[q]
        BY <2>1, <2>4, GrowsTables
      <3>2. Range(f) \subseteq free /\ free \ free' = Range(f)
        BY <2>1, <2>2, GrowsFree DEF Grows
      <3>3. CASE k \in DOMAIN table[o]
        BY <1>0, <3>1, <3>3
      <3>4. CASE k \notin DOMAIN table[o]
        <4>1. table'[o][k] \in free \ free' /\ table'[o][k] \in free
          BY <1>0, <3>1, <3>2, <3>4
        <4>2. \A q \in Owners \ {o} : table'[o][k] \notin Range(table'[q])
          BY <3>1, <4>1, FreeUnlisted
        <4>3. QED
          BY <1>3, <3>4, <4>1, <4>2
      <3>5. QED
        BY <3>3, <3>4
    <2>5. QED
      BY <2>3, <2>4
  <1>4. ASSUME NEW src \in Owners, NEW dst \in Owners, NEW n, Aliases(src, dst, n), Sharer(src, dst)
        PROVE  \/ k \in DOMAIN table[o] /\ table'[o][k] = table[o][k]
               \/ /\ Sharer(src, o) /\ k \in DOMAIN table[src] /\ table'[o][k] = table[src][k]
                  /\ k \in 1..Len(table'[o]) /\ src # o /\ table[o] = << >>
    <2>1. CASE o # dst
      BY <1>1, <1>4, <2>1, AliasesTables
    <2>2. CASE o = dst
      <3>1. /\ n \in 1..Len(table[src]) /\ Len(table'[o]) = n /\ DOMAIN table'[o] = 1..n
            /\ src # o /\ \A i \in 1..n : table'[o][i] = table[src][i]
        BY <1>4, <2>2, AliasesTables
      <3>2. DOMAIN table[src] = 1..Len(table[src]) /\ Len(table[src]) \in Nat
        BY PoolTypes
      <3>3. k \in DOMAIN table[src]
        BY <3>1, <3>2
      <3>4. table[o] = << >>
        BY <1>4, <2>2 DEF Aliases
      <3>5. QED
        BY <1>4, <2>2, <3>1, <3>3, <3>4
    <2>3. QED
      BY <2>1, <2>2
  <1>5. ASSUME NEW q \in Owners, Releases(q)
        PROVE  k \in DOMAIN table[o] /\ table'[o][k] = table[o][k]
    <2>1. o = q => DOMAIN table'[o] = {}
      BY <1>5, ReleasesTables
    <2>2. table'[o] = table[o]
      BY <1>5, <2>1, ReleasesTables
    <2>3. QED
      BY <2>2
  <1>6. CASE Remember /\ Aliases(TableOf(retiring), KeptBy(retiring), FullPages(retiring)) /\ retiring \in Rids
    <2>1. TableOf(retiring) \in Owners /\ KeptBy(retiring) \in Owners /\ Sharer(TableOf(retiring), KeptBy(retiring))
      BY <1>6, OwnerFacts DEF Sharer
    <2>2. QED
      BY <1>4, <1>6, <2>1
  <1>7. CASE Admit /\ \E q : /\ q = Head(pending) /\ nextRid \in Rids /\ Route(q.prompt) \in Rids
                             /\ Aliases(KeptBy(Route(q.prompt)), TableOf(nextRid), Depth(q.prompt) \div PageSize)
    <2>1. PICK q : /\ q = Head(pending) /\ nextRid \in Rids /\ Route(q.prompt) \in Rids
                   /\ Aliases(KeptBy(Route(q.prompt)), TableOf(nextRid), Depth(q.prompt) \div PageSize)
      BY <1>7
    <2>2. /\ KeptBy(Route(q.prompt)) \in Owners /\ TableOf(nextRid) \in Owners
          /\ Sharer(KeptBy(Route(q.prompt)), TableOf(nextRid))
      BY <1>7, <2>1, OwnerFacts DEF Sharer
    <2>3. QED
      BY <1>4, <2>1, <2>2
  <1>8. CASE Evict /\ Releases(KeptBy(Head(lru))) /\ Head(lru) \in Rids
    BY <1>5, <1>8, OwnerFacts
  <1>9. CASE Free /\ Releases(TableOf(retiring)) /\ retiring \in Rids
    BY <1>5, <1>9, OwnerFacts
  <1>10. QED
    BY <1>2, <1>3, <1>6, <1>7, <1>8, <1>9, TableMoves

-----------------------------------------------------------------------------
(* Which pages are shared, and what their owners have in common *)

LEMMA ToldFacts ==
  \A r \in Rids : /\ Told[TableOf(r)] = ToksOf(r) /\ Told[KeptBy(r)] = entries[r]
                  /\ Told'[TableOf(r)] = ToksOf(r)' /\ Told'[KeptBy(r)] = entries'[r]
  <1> SUFFICES ASSUME NEW r \in Rids
               PROVE  /\ Told[TableOf(r)] = ToksOf(r) /\ Told[KeptBy(r)] = entries[r]
                      /\ Told'[TableOf(r)] = ToksOf(r)' /\ Told'[KeptBy(r)] = entries'[r]
    OBVIOUS
  <1>1. /\ TableOf(r) \in Owners /\ TableOf(r)[1] = "seq" /\ TableOf(r)[2] = r
        /\ KeptBy(r) \in Owners /\ KeptBy(r)[1] = "kept" /\ KeptBy(r)[2] = r
    BY OwnerFacts DEF TableOf, KeptBy
  <1>2. Told[TableOf(r)] = ToksOf(r) /\ Told[KeptBy(r)] = entries[r]
    BY <1>1 DEF Told
  <1>3. Told'[TableOf(r)] = ToksOf(r)' /\ Told'[KeptBy(r)] = entries'[r]
    BY <1>1 DEF Told, ToksOf
  <1>4. QED
    BY <1>2, <1>3

LEMMA PrefixShorter ==
  ASSUME NEW s, NEW t, NEW n \in Nat, NEW m \in Nat, m <= n, Len(s) \in Nat, Len(t) \in Nat, SamePrefix(s, t, n)
  PROVE  SamePrefix(s, t, m)
  BY DEF SamePrefix

\* A holder of a table is live, one of kept pages is an entry.
LEMMA HolderFacts ==
  ASSUME TypeOK
  PROVE  /\ Holders \subseteq Owners
         /\ \A r \in Rids : TableOf(r) \in Holders <=> r \in Live
         /\ \A e \in Rids : KeptBy(e) \in Holders <=> e \in Range(order)
         /\ \A o \in Holders : Told[o] \in Seq(Tokens) /\ Len(Told[o]) \in Nat
  <1>1. Live \subseteq Rids /\ \A e \in Range(order) : e \in Rids
    BY EntryTypes DEF TypeOK
  <1>2. Holders \subseteq Owners
    BY <1>1, OwnerFacts DEF Holders
  <1>3. \A r \in Rids : TableOf(r) \in Holders <=> r \in Live
    BY <1>1, OwnerFacts DEF Holders
  <1>4. \A e \in Rids : KeptBy(e) \in Holders <=> e \in Range(order)
    BY <1>1, OwnerFacts DEF Holders
  <1>5. ASSUME NEW o \in Holders PROVE Told[o] \in Seq(Tokens) /\ Len(Told[o]) \in Nat
    <2>1. PICK r \in Rids : o = TableOf(r) \/ o = KeptBy(r)
      BY <1>1 DEF Holders
    <2>2. Told[o] \in Seq(Tokens)
      BY <2>1, ToldFacts, ReqTypes, EntryTypes
    <2>3. QED
      BY <2>2
  <1>6. QED
    BY <1>2, <1>3, <1>4, <1>5

\* Pages are taken over from a holder, for tokens it has too.
LEMMA SharerFacts ==
  ASSUME TypeOK, Placed, Phases, Requests, Cached, Planned, Next,
         NEW src \in Owners, NEW dst \in Owners, Sharer(src, dst), table[dst] = << >>, NEW k \in 1..Len(table'[dst])
  PROVE  /\ Capacity > 0 /\ src \in Holders /\ SamePrefix(Told'[dst], Told[src], k * PageSize)
         /\ dst # KeptBy(retiring) => Admit /\ dst = TableOf(nextRid) /\ k * PageSize <= Len(req'[nextRid].prompt)
  <1>1. CASE Remember /\ src = TableOf(retiring) /\ dst = KeptBy(retiring)
    <2>1. PICK n, t, u : n = FullPages(retiring) /\ t = ToksOf(retiring) /\ u = entries'[retiring]
      OBVIOUS
    <2>2. /\ retiring \in Rids /\ retiring \in Live /\ n \in Nat /\ n * PageSize <= Len(t)
          /\ Len(u) = n * PageSize /\ (\A i \in 1..n * PageSize : u[i] = t[i]) /\ Capacity > 0
          /\ Len(table'[dst]) = n
      BY <1>1, <2>1, RememberFacts
    <2>3. t \in Seq(Tokens) /\ Len(t) \in Nat
      <3>1. ToksOf(retiring) \in Seq(Tokens)
        BY <2>2, ReqTypes
      <3>2. QED
        BY <2>1, <3>1
    <2>4. k \in Nat /\ k <= n /\ k * PageSize \in Nat /\ n * PageSize \in Nat /\ k * PageSize <= n * PageSize
      <3>1. k \in Nat /\ k <= n
        BY <2>2
      <3>2. QED
        BY <2>2, <3>1, TimesFacts, TimesMonotone
    <2>5. SamePrefix(u, t, k * PageSize)
      <3>1. PICK a, b : a = k * PageSize /\ b = n * PageSize
        OBVIOUS
      <3>2. a \in Nat /\ b \in Nat /\ a <= b /\ b <= Len(t) /\ Len(u) = b /\ \A i \in 1..b : u[i] = t[i]
        BY <2>2, <2>4, <3>1
      <3>3. SamePrefix(u, t, a)
        BY <2>3, <3>2 DEF SamePrefix
      <3>4. QED
        BY <3>1, <3>3
    <2>6. Told'[dst] = u /\ Told[src] = t /\ src \in Holders
      BY <1>1, <2>1, <2>2, ToldFacts, HolderFacts
    <2>7. QED
      BY <1>1, <2>2, <2>5, <2>6
  <1>2. CASE Admit /\ src = KeptBy(Route(Head(pending).prompt)) /\ dst = TableOf(nextRid)
    <2>1. PICK q : q = Head(pending)
      OBVIOUS
    <2>2. table' # table
      <3>1. table' = table => Len(table'[dst]) = 0
        OBVIOUS
      <3>2. QED
        BY <3>1
    <2>3. PICK p, d, e, m : p = q.prompt /\ d = Depth(q.prompt) /\ e = Route(q.prompt) /\ m = nextRid
      OBVIOUS
    <2>4. /\ d \in Nat /\ d \div PageSize \in 1..MaxTables /\ (d \div PageSize) * PageSize = d /\ d <= Len(p)
          /\ e \in Range(order) /\ e \in Rids /\ SamePrefix(p, entries[e], d)
          /\ Pool!Alias(KeptBy(e), TableOf(nextRid), d \div PageSize)
      BY <1>2, <2>1, <2>2, <2>3, AdmitMove
    <2>5. /\ m \in Rids /\ p \in Seq(Tokens)
          /\ req' = [req EXCEPT ![m] = [ext |-> q.ext, prompt |-> p, gen |-> << >>,
                                              maxNew |-> q.maxNew, shared |-> SharedTokens(p)]]
      BY <1>2, <2>1, <2>3, AdmitFacts
    <2>6. req'[m].prompt = p /\ req'[m].gen = << >>
      BY <2>5 DEF TypeOK
    <2>7. ToksOf(m)' = p
      <3>1. \A s \in Seq(Tokens) : s \o << >> = s
        OBVIOUS
      <3>2. ToksOf(m)' = req'[m].prompt \o req'[m].gen
        BY DEF ToksOf
      <3>3. QED
        BY <2>5, <2>6, <3>1, <3>2
    <2>8. Len(table'[dst]) = d \div PageSize
      BY <1>2, <2>3, <2>4, <2>5, AliasNative, AliasesTables, OwnerFacts
    <2>9. k \in Nat /\ k <= d \div PageSize /\ d \div PageSize \in Nat
      BY <2>4, <2>8, DivFacts
    <2>10. k * PageSize \in Nat /\ k * PageSize <= d
      <3>1. k * PageSize \in Nat /\ k * PageSize <= (d \div PageSize) * PageSize
        BY <2>9, TimesFacts, TimesMonotone
      <3>2. QED
        BY <2>4, <3>1
    <2>11. Len(p) \in Nat /\ Len(entries[e]) \in Nat
      BY <2>4, <2>5, EntryTypes
    <2>12. SamePrefix(p, entries[e], k * PageSize)
      BY <2>4, <2>10, <2>11, PrefixShorter
    <2>13. Capacity > 0
      <3>1. order # << >>
        BY <2>4, EmptyRange
      <3>2. QED
        BY <3>1, Sizes DEF Cached
    <2>14. Told'[dst] = p /\ Told[src] = entries[e] /\ src \in Holders
      <3>1. dst = TableOf(m) /\ src = KeptBy(e)
        BY <1>2, <2>1, <2>3
      <3>2. Told'[TableOf(m)] = ToksOf(m)' /\ Told[KeptBy(e)] = entries[e] /\ KeptBy(e) \in Holders
        BY <2>4, <2>5, ToldFacts, HolderFacts
      <3>3. QED
        BY <2>7, <3>1, <3>2
    <2>15. k * PageSize <= Len(p)
      BY <2>4, <2>10, <2>11
    <2>16. QED
      BY <1>2, <2>3, <2>6, <2>12, <2>13, <2>14, <2>15
  <1>3. QED
    BY <1>1, <1>2 DEF Sharer

LEMMA NoSharingStep ==
  ASSUME TypeOK, Pool!PoolInv, Placed, Phases, Requests, Cached, Planned, NoSharing, Next
  PROVE  NoSharing'
  <1> SUFFICES ASSUME Capacity = 0, NEW o \in Owners, NEW q \in Owners, o # q,
                      NEW k \in DOMAIN table'[o], NEW l \in DOMAIN table'[q], table'[o][k] = table'[q][l]
               PROVE  FALSE
    BY DEF NoSharing, Disjoint, Range
  <1>1. table'[o][k] \in Range(table'[o]) /\ table'[q][l] \in Range(table'[q])
    BY DEF Range
  <1>2. ASSUME NEW a \in Owners, NEW j \in DOMAIN table'[a]
        PROVE  \/ j \in DOMAIN table[a] /\ table'[a][j] = table[a][j]
               \/ \A b \in Owners \ {a} : table'[a][j] \notin Range(table'[b])
    <2>1. ASSUME NEW src \in Owners, Sharer(src, a), j \in 1..Len(table'[a]), table[a] = << >>
          PROVE  FALSE
      <3>1. Capacity > 0
        BY <2>1, SharerFacts
      <3>2. QED
        BY <3>1
    <2>2. QED
      BY <2>1, PageMoves
  <1>3. k \in DOMAIN table[o] /\ table'[o][k] = table[o][k]
    BY <1>1, <1>2
  <1>4. l \in DOMAIN table[q] /\ table'[q][l] = table[q][l]
    BY <1>1, <1>2
  <1>5. table[o][k] \in Range(table[o]) /\ table[o][k] \in Range(table[q])
    BY <1>3, <1>4 DEF Range
  <1>6. QED
    BY <1>5 DEF NoSharing, Disjoint

LEMMA PrivateStep ==
  ASSUME TypeOK, Pool!PoolInv, Placed, Phases, Requests, Cached, Planned, Sharing, Next, TypeOK', Placed', Requests',
         NoSharing', NEW r \in Live', r # retiring'
  PROVE  Private(table', TableOf(r), Len(req'[r].prompt))
  <1>1. r \in Rids /\ TableOf(r) \in Owners /\ r # retiring
    BY LiveMoves, OwnerFacts
  <1>2. PICK o, n : o = TableOf(r) /\ n = Len(req'[r].prompt)
    OBVIOUS
  <1>3. req'[r].prompt \in Seq(Tokens) /\ n \in Nat
    <2>1. req' \in [Rids -> ReqSet]
      BY DEF TypeOK, ReqSet
    <2>2. req'[r] \in ReqSet
      BY <1>1, <2>1
    <2>3. req'[r].prompt \in Seq(Tokens)
      BY <2>2 DEF ReqSet
    <2>4. QED
      BY <1>2, <2>3
  <1> SUFFICES ASSUME NEW k \in DOMAIN table'[o], k * PageSize > n, NEW q \in Owners \ {o}, table'[o][k] \in Range(table'[q])
               PROVE  FALSE
    BY <1>2 DEF Private
  <1>4. o \in Owners /\ q \in Owners /\ o # q
    BY <1>1, <1>2
  <1>5. PICK l \in DOMAIN table'[q] : table'[q][l] = table'[o][k]
    BY DEF Range
  <1>6. table'[o][k] \in Range(table'[o])
    BY DEF Range
  <1>7. CASE Capacity = 0
    BY <1>4, <1>6, <1>7 DEF NoSharing, Disjoint
  <1>8. ASSUME Capacity > 0, k \in DOMAIN table[o], table'[o][k] = table[o][k]
        PROVE  FALSE
    <2>1. r \in Live
      <3>1. r = nextRid => table[o] = << >>
        <4>1. nextRid \in Nat
          BY Sizes DEF TypeOK
        <4>2. QED
          BY <1>1, <1>2, <1>8, <4>1 DEF Cached
      <3>2. DOMAIN << >> = {}
        OBVIOUS
      <3>3. QED
        BY <1>8, <3>1, <3>2, LiveMoves
    <2>2. req'[r].prompt = req[r].prompt
      BY <2>1, ToksExtend
    <2>3. Private(table, o, n)
      BY <1>1, <1>2, <2>1, <2>2 DEF Sharing
    <2>4. \A b \in Owners \ {o} : table[o][k] \notin Range(table[b])
      BY <1>8, <2>3 DEF Private
    <2>5. CASE l \in DOMAIN table[q] /\ table'[q][l] = table[q][l]
      <3>1. table[o][k] \in Range(table[q])
        BY <1>5, <1>8, <2>5 DEF Range
      <3>2. QED
        BY <1>4, <2>4, <3>1
    <2>6. CASE \A b \in Owners \ {q} : table'[q][l] \notin Range(table'[b])
      BY <1>4, <1>5, <1>6, <2>6
    <2>7. ASSUME NEW src \in Owners \ {q}, Sharer(src, q), l \in DOMAIN table[src], table'[q][l] = table[src][l]
          PROVE  FALSE
      <3>1. table[o][k] \in Range(table[src])
        BY <1>5, <1>8, <2>7 DEF Range
      <3>2. src # o
        <4>1. TableOf(r) # TableOf(retiring)
          BY <1>1 DEF TableOf
        <4>2. \A e : TableOf(r) # KeptBy(e)
          BY DEF TableOf, KeptBy
        <4>3. QED
          BY <1>2, <2>7, <4>1, <4>2 DEF Sharer
      <3>3. QED
        BY <2>4, <3>1, <3>2
    <2>8. QED
      BY <1>4, <2>5, <2>6, <2>7, PageMoves
  <1>9. CASE \A b \in Owners \ {o} : table'[o][k] \notin Range(table'[b])
    BY <1>9
  <1>10. ASSUME NEW src \in Owners \ {o}, Sharer(src, o), k \in 1..Len(table'[o]), table[o] = << >>
         PROVE  FALSE
    <2>1. o # KeptBy(retiring)
      BY <1>2 DEF TableOf, KeptBy
    <2>2. o = TableOf(nextRid) /\ k * PageSize <= Len(req'[nextRid].prompt)
      BY <1>4, <1>10, <2>1, SharerFacts
    <2>3. r = nextRid
      BY <1>2, <2>2 DEF TableOf
    <2>4. k * PageSize <= n
      BY <1>2, <2>2, <2>3
    <2>5. k \in Nat /\ k * PageSize \in Nat
      BY <1>10, TimesFacts
    <2>6. QED
      BY <1>3, <2>4, <2>5
  <1>11. QED
    BY <1>4, <1>7, <1>8, <1>9, <1>10, PageMoves, Sizes

-----------------------------------------------------------------------------
(* Agreement *)

\* Sequences that agree with two that agree, agree.
LEMMA PrefixThrough ==
  ASSUME NEW s, NEW t, NEW u, NEW v, NEW n, SamePrefix(s, u, n), SamePrefix(u, v, n), SamePrefix(t, v, n)
  PROVE  SamePrefix(s, t, n)
  BY DEF SamePrefix

LEMMA PrefixSelf ==
  ASSUME NEW u, NEW n, n <= Len(u)
  PROVE  SamePrefix(u, u, n)
  BY DEF SamePrefix

LEMMA PrefixTurned ==
  ASSUME NEW s, NEW t, NEW n, SamePrefix(s, t, n)
  PROVE  SamePrefix(t, s, n)
  BY DEF SamePrefix

\* Page k of o is page k of the earlier holder b, whose tokens o has.
Comes(tab, told, tab2, told2, H, o, k, b) ==
  /\ b \in H /\ k \in DOMAIN tab[b] /\ tab2[o][k] = tab[b][k]
  /\ k * PageSize <= Len(told[b]) => SamePrefix(told2[o], told[b], k * PageSize)
  /\ b # o => k * PageSize <= Len(told[b])

\* Holders agree as long as every page is of nobody else or comes from a holder.
LEMMA AgreementMoves ==
  ASSUME NEW tab, NEW told, NEW H, NEW tab2, NEW told2, NEW H2,
         \A b \in H : IsInjective(tab[b]),
         Agreement(tab, told, H),
         \A o \in H2 : \A k \in DOMAIN tab2[o] :
           \/ \A q \in H2 \ {o} : tab2[o][k] \notin Range(tab2[q])
           \/ \E b \in H : Comes(tab, told, tab2, told2, H, o, k, b)
  PROVE  Agreement(tab2, told2, H2)
  <1> SUFFICES ASSUME NEW o \in H2, NEW q \in H2, o # q, NEW k \in DOMAIN tab2[o], NEW l \in DOMAIN tab2[q],
                      tab2[o][k] = tab2[q][l]
               PROVE  k = l /\ SamePrefix(told2[o], told2[q], k * PageSize)
    BY DEF Agreement
  <1>1. tab2[o][k] \in Range(tab2[o]) /\ tab2[q][l] \in Range(tab2[q])
    BY DEF Range
  <1>2. PICK a \in H : Comes(tab, told, tab2, told2, H, o, k, a)
    BY <1>1
  <1>3. PICK b \in H : Comes(tab, told, tab2, told2, H, q, l, b)
    BY <1>1
  <1>4. tab[a][k] = tab[b][l] /\ k \in DOMAIN tab[a] /\ l \in DOMAIN tab[b]
    BY <1>2, <1>3 DEF Comes
  <1>5. k = l /\ k * PageSize <= Len(told[a]) /\ k * PageSize <= Len(told[b]) /\ SamePrefix(told[a], told[b], k * PageSize)
    <2>1. CASE a = b
      <3>1. k = l
        BY <1>4, <2>1 DEF IsInjective
      <3>2. k * PageSize <= Len(told[a])
        <4>1. a # o => k * PageSize <= Len(told[a])
          BY <1>2 DEF Comes
        <4>2. b # q => l * PageSize <= Len(told[b])
          BY <1>3 DEF Comes
        <4>3. QED
          BY <2>1, <3>1, <4>1, <4>2
      <3>3. QED
        BY <2>1, <3>1, <3>2, PrefixSelf
    <2>2. CASE a # b
      BY <1>4, <2>2 DEF Agreement, SamePrefix
    <2>3. QED
      BY <2>1, <2>2
  <1>6. SamePrefix(told2[o], told[a], k * PageSize)
    BY <1>2, <1>5 DEF Comes
  <1>7. SamePrefix(told2[q], told[b], k * PageSize)
    BY <1>3, <1>5 DEF Comes
  <1>8. QED
    BY <1>5, <1>6, <1>7, PrefixThrough

LEMMA AgreementStep ==
  ASSUME TypeOK, Pool!PoolInv, Placed, Phases, Requests, Cached, Planned, Sharing, Next, TypeOK', Placed',
         NoSharing'
  PROVE  Agreement(table', Told', Holders')
  <1>0. Holders' \subseteq Owners
    <2>1. Live' \subseteq Rids /\ \A e \in Range(order') : e \in Rids
      <3>1. Live' \subseteq Rids /\ order' \in Seq(Rids)
        BY DEF TypeOK
      <3>2. QED
        BY <3>1 DEF Range
    <2>2. QED
      BY <2>1, OwnerFacts DEF Holders
  <1>1. CASE Capacity = 0
    <2> SUFFICES ASSUME NEW o \in Holders', NEW q \in Holders', o # q, NEW k \in DOMAIN table'[o], NEW l \in DOMAIN table'[q],
                        table'[o][k] = table'[q][l]
                 PROVE  FALSE
      BY DEF Agreement
    <2>1. o \in Owners /\ q \in Owners
      BY <1>0
    <2>2. table'[o][k] \in Range(table'[o]) /\ table'[o][k] \in Range(table'[q])
      BY DEF Range
    <2>3. QED
      BY <1>1, <2>1, <2>2 DEF NoSharing, Disjoint
  <1>2. ASSUME Capacity > 0, NEW o \in Holders', NEW k \in DOMAIN table'[o]
        PROVE  \/ \A q \in Holders' \ {o} : table'[o][k] \notin Range(table'[q])
               \/ \E b \in Holders : Comes(table, Told, table', Told', Holders, o, k, b)
    <2>1. o \in Owners
      BY <1>0
    <2>2. ASSUME k \in DOMAIN table[o], table'[o][k] = table[o][k]
          PROVE  Comes(table, Told, table', Told', Holders, o, k, o)
      <3>0. k * PageSize \in Nat
        <4>1. k \in Nat
          BY <2>1, <2>2, PoolTypes
        <4>2. QED
          BY <4>1, TimesFacts
      <3>1. ASSUME o \in Holders, NEW s, NEW t, s = Told[o], t = Told'[o], Len(s) \in Nat, Len(t) \in Nat, Len(s) <= Len(t),
                   \A i \in 1..Len(s) : t[i] = s[i]
            PROVE  Comes(table, Told, table', Told', Holders, o, k, o)
        <4>1. PICK n : n = k * PageSize
          OBVIOUS
        <4>2. n <= Len(s) => SamePrefix(t, s, n)
          BY <3>0, <3>1, <4>1 DEF SamePrefix
        <4>3. QED
          BY <2>2, <3>1, <4>1, <4>2 DEF Comes
      <3>2. ASSUME NEW r \in Live', o = TableOf(r)
            PROVE  Comes(table, Told, table', Told', Holders, o, k, o)
        <4>1. r \in Rids
          BY LiveMoves
        <4>2. r \in Live
          <5>1. r = nextRid => table[o] = << >>
            <6>1. nextRid \in Nat
              BY Sizes DEF TypeOK
            <6>2. QED
              BY <1>2, <3>2, <4>1, <6>1 DEF Cached
          <5>2. DOMAIN << >> = {}
            OBVIOUS
          <5>3. QED
            BY <2>2, <5>1, <5>2, LiveMoves
        <4>3. o \in Holders /\ Told[o] = ToksOf(r) /\ Told'[o] = ToksOf(r)'
          BY <3>2, <4>1, <4>2, ToldFacts, HolderFacts
        <4>4. Len(ToksOf(r)) <= Len(ToksOf(r)') /\ \A i \in 1..Len(ToksOf(r)) : ToksOf(r)'[i] = ToksOf(r)[i]
          BY <4>2, ToksExtend
        <4>5. Len(ToksOf(r)) \in Nat /\ Len(ToksOf(r)') \in Nat
          <5>1. ToksOf(r) \in Seq(Tokens)
            BY <4>1, ReqTypes
          <5>2. ToksOf(r)' \in Seq(Tokens)
            <6>1. req' \in [Rids -> ReqSet]
              BY DEF TypeOK, ReqSet
            <6>2. req'[r] \in ReqSet
              BY <4>1, <6>1
            <6>3. req'[r].prompt \in Seq(Tokens) /\ req'[r].gen \in Seq(Tokens)
              BY <6>2 DEF ReqSet
            <6>4. ToksOf(r)' = req'[r].prompt \o req'[r].gen
              BY DEF ToksOf
            <6>5. QED
              BY <6>3, <6>4
          <5>3. QED
            BY <5>1, <5>2
        <4>6. QED
          BY <3>1, <4>3, <4>4, <4>5
      <3>3. ASSUME NEW e \in Range(order'), o = KeptBy(e)
            PROVE  Comes(table, Told, table', Told', Holders, o, k, o)
        <4>1. e \in Rids
          BY KeptMoves
        <4>2. e \in Range(order) /\ entries'[e] = entries[e]
          <5>1. Remember /\ e = retiring => table[o] = << >>
            BY <3>3, <4>1, RememberFacts DEF Cached
          <5>2. DOMAIN << >> = {}
            OBVIOUS
          <5>3. QED
            BY <2>2, <5>1, <5>2, KeptMoves
        <4>3. o \in Holders /\ Told[o] = entries[e] /\ Told'[o] = entries[e]
          BY <3>3, <4>1, <4>2, ToldFacts, HolderFacts
        <4>4. Len(entries[e]) \in Nat
          BY <4>1, EntryTypes
        <4>5. QED
          BY <3>1, <4>3, <4>4
      <3>4. QED
        BY <3>2, <3>3 DEF Holders
    <2>3. ASSUME NEW src \in Owners \ {o}, Sharer(src, o), k \in DOMAIN table[src], table'[o][k] = table[src][k],
                 k \in 1..Len(table'[o]), table[o] = << >>
          PROVE  Comes(table, Told, table', Told', Holders, o, k, src)
      <3>1. src \in Holders /\ SamePrefix(Told'[o], Told[src], k * PageSize)
        BY <2>1, <2>3, SharerFacts
      <3>2. k * PageSize <= Len(Told[src])
        BY <3>1 DEF SamePrefix
      <3>3. QED
        BY <2>3, <3>1, <3>2 DEF Comes
    <2>4. QED
      BY <1>0, <2>1, <2>2, <2>3, PageMoves DEF Comes
  <1>3. \A b \in Holders : IsInjective(table[b])
    BY HolderFacts, TablesInjective
  <1>4. Agreement(table, Told, Holders)
    BY DEF Sharing
  <1>5. CASE Capacity > 0
    BY <1>2, <1>3, <1>4, <1>5, AgreementMoves
  <1>6. QED
    BY <1>1, <1>5, Sizes

LEMMA SharingStep ==
  ASSUME TypeOK, Pool!PoolInv, Placed, Phases, Requests, Cached, Planned, Sharing, Next, TypeOK', Placed', Requests'
  PROVE  Sharing'
  <1>1. NoSharing'
    BY NoSharingStep DEF Sharing
  <1>2. Agreement(table', Told', Holders')
    BY <1>1, AgreementStep
  <1>3. \A r \in Live' : r # retiring' => Private(table', TableOf(r), Len(req'[r].prompt))
    BY <1>1, PrivateStep
  <1>4. QED
    BY <1>1, <1>2, <1>3 DEF Sharing

-----------------------------------------------------------------------------
(* The tokens the KV of a request is for *)

\* As far as both go they are the same.
Agrees(s, t) == \A j \in 1..Len(s) : j <= Len(t) => s[j] = t[j]

LEMMA PrefixSame ==
  ASSUME NEW s \in Seq(Tokens), NEW t \in Seq(Tokens), NEW i \in Nat, i < Len(s), i < Len(t), \A j \in 1..i + 1 : s[j] = t[j]
  PROVE  Prefix(s, i) = Prefix(t, i)
  <1>1. SubSeq(s, 1, i + 1) = [j \in 1..i + 1 |-> s[j]]
    BY SMT
  <1>2. SubSeq(t, 1, i + 1) = [j \in 1..i + 1 |-> t[j]]
    BY SMT
  <1>3. QED
    BY <1>1, <1>2 DEF Prefix

\* KV of one text is KV of another that agrees with it.
LEMMA OwnCarries ==
  ASSUME NEW s \in Seq(Tokens), NEW t \in Seq(Tokens), NEW i \in Nat, NEW v, Own(v, s, i),
         i < Len(t) \/ Len(s) <= Len(t), Agrees(s, t)
  PROVE  Own(v, t, i)
  <1>1. CASE v = << >>
    BY <1>1 DEF Own
  <1>2. CASE i < Len(s) /\ v = Prefix(s, i)
    <2>1. Len(s) \in Nat /\ Len(t) \in Nat
      OBVIOUS
    <2>2. i < Len(t)
      BY <1>2, <2>1
    <2>3. \A j \in 1..i + 1 : s[j] = t[j]
      BY <1>2, <2>1, <2>2 DEF Agrees
    <2>4. Prefix(s, i) = Prefix(t, i)
      BY <1>2, <2>2, <2>3, PrefixSame
    <2>5. QED
      BY <1>2, <2>2, <2>4 DEF Own
  <1>3. QED
    BY <1>1, <1>2 DEF Own

LEMMA AgreesParts ==
  /\ \A s, u \in Seq(Tokens) : /\ s \o u \in Seq(Tokens) /\ Len(s) <= Len(s \o u) /\ Agrees(s, s \o u)
                               /\ Len(s \o u) = Len(s) + Len(u)
  /\ \A s \in Seq(Tokens) : s \o << >> = s /\ Agrees(s, s) /\ Len(s) \in Nat
  /\ \A s, u, v \in Seq(Tokens) : Len(u) <= Len(v) /\ (\A i \in 1..Len(u) : u[i] = v[i]) => Agrees(s \o v, s \o u)
  <1>1. \A s, u \in Seq(Tokens) : s \o u \in Seq(Tokens) /\ Len(s \o u) = Len(s) + Len(u) /\ Len(s) \in Nat /\ Len(u) \in Nat
    OBVIOUS
  <1>2. \A s, u \in Seq(Tokens) : Agrees(s, s \o u)
    BY DEF Agrees
  <1>3. \A s \in Seq(Tokens) : s \o << >> = s /\ Agrees(s, s)
    BY DEF Agrees
  <1>4. ASSUME NEW s \in Seq(Tokens), NEW u \in Seq(Tokens), NEW v \in Seq(Tokens), Len(u) <= Len(v),
               \A i \in 1..Len(u) : u[i] = v[i]
        PROVE  Agrees(s \o v, s \o u)
    <2> SUFFICES ASSUME NEW j \in 1..Len(s \o v), j <= Len(s \o u)
                 PROVE  (s \o v)[j] = (s \o u)[j]
      BY DEF Agrees
    <2>1. PICK a, b, c : a = Len(s) /\ b = Len(u) /\ c = Len(v)
      OBVIOUS
    <2>2. a \in Nat /\ b \in Nat /\ c \in Nat /\ j \in 1..a + c /\ j <= a + b /\ b <= c
      BY <1>1, <1>4, <2>1
    <2>3. j \in 1..a \/ j - a \in 1..b
      BY <2>2
    <2>4. j \in 1..a => (s \o v)[j] = s[j] /\ (s \o u)[j] = s[j]
      BY <2>1
    <2>5. j - a \in 1..b => (s \o v)[j] = v[j - a] /\ (s \o u)[j] = u[j - a]
      BY <2>1, <2>2
    <2>6. QED
      BY <1>4, <2>1, <2>3, <2>4, <2>5
  <1>5. \A s, u \in Seq(Tokens) : Len(s) <= Len(s \o u)
    BY <1>1
  <1>6. QED
    BY <1>1, <1>2, <1>3, <1>4, <1>5

LEMMA PlusTypes ==
  ASSUME TypeOK, TypeOK', NEW r \in Rids
  PROVE  /\ ToksOf(r) \in Seq(Tokens) /\ Plus(r) \in Seq(Tokens) /\ Len(ToksOf(r)) <= Len(Plus(r)) /\ Agrees(ToksOf(r), Plus(r))
         /\ ToksOf(r)' \in Seq(Tokens) /\ Plus(r)' \in Seq(Tokens)
  <1>1. ToksOf(r) \in Seq(Tokens) /\ verified[r] \in Seq(Tokens)
    BY ReqTypes
  <1>2. req' \in [Rids -> ReqSet] /\ verified' \in [Rids -> Seq(Tokens)]
    BY DEF TypeOK, ReqSet
  <1>3. req'[r] \in ReqSet /\ verified'[r] \in Seq(Tokens)
    BY <1>2
  <1>4. req'[r].prompt \in Seq(Tokens) /\ req'[r].gen \in Seq(Tokens)
    BY <1>3 DEF ReqSet
  <1>5. ToksOf(r)' = req'[r].prompt \o req'[r].gen
    BY DEF ToksOf
  <1>6. ToksOf(r)' \in Seq(Tokens)
    BY <1>4, <1>5
  <1>7. Plus(r)' = ToksOf(r)' \o verified'[r] /\ Plus(r) = ToksOf(r) \o verified[r]
    BY DEF Plus
  <1>8. QED
    BY <1>1, <1>3, <1>6, <1>7, AgreesParts

\* The tokens handed out were counted as the request's own, or come after them.
LEMMA HandsPlus ==
  ASSUME TypeOK, TypeOK', Placed, Requests, Phases, NEW r \in Rids, NEW toks \in Seq(Tokens), Hands(r, toks)
  PROVE  /\ Plus(r)' = ToksOf(r)' /\ verified'[r] = << >> /\ Agrees(Plus(r), ToksOf(r)')
         /\ retiring' # r => Len(Plus(r)) <= Len(Plus(r)')
         /\ Len(ToksOf(r)') = Len(ToksOf(r)) + Len(Taken(r, toks)) /\ Len(Taken(r, toks)) \in Nat \ {0}
         /\ IF verified[r] = << >> THEN Plus(r) = ToksOf(r) /\ Len(Taken(r, toks)) = 1
                                   ELSE Len(ToksOf(r)') <= Len(Plus(r))
         /\ \A s \in Rids \ {r} : Plus(s)' = Plus(s) /\ ToksOf(s)' = ToksOf(s) /\ verified'[s] = verified[s]
  <1>1. PICK t, u, v : t = ToksOf(r) /\ u = Taken(r, toks) /\ v = verified[r]
    OBVIOUS
  <1>2. t \in Seq(Tokens) /\ v \in Seq(Tokens) /\ ToksOf(r)' = t \o u /\ Plus(r) = t \o v /\ Plus(r)' = ToksOf(r)' \o verified'[r]
    BY <1>1, ReqTypes, HandsFacts DEF Plus
  <1>3. verified \in [Rids -> Seq(Tokens)]
    BY DEF TypeOK
  <1>4. /\ verified' = [verified EXCEPT ![r] = << >>] \/ (verified' = verified /\ v = << >>)
        /\ v = << >> => Len(toks) = 1
        /\ v # << >> => toks = v
    BY <1>1 DEF Hands
  <1>5. verified'[r] = << >> /\ \A s \in Rids \ {r} : verified'[s] = verified[s]
    BY <1>1, <1>3, <1>4
  <1>6. /\ u \in Seq(Tokens) /\ Len(u) \in 1..Len(toks) /\ \A i \in 1..Len(u) : u[i] = toks[i]
        /\ Ends(r, toks) = {} => u = toks
    BY <1>1, TakenFacts DEF Hands
  <1>7. retiring' # r => Ends(r, toks) = {}
    BY HandsFacts
  <1>8. Plus(r)' = ToksOf(r)'
    <2>1. t \o u \in Seq(Tokens)
      BY <1>2, <1>6, AgreesParts
    <2>2. QED
      BY <1>2, <1>5, <2>1, AgreesParts
  <1>9. \A s \in Rids \ {r} : Plus(s)' = Plus(s) /\ ToksOf(s)' = ToksOf(s)
    <2>1. \A s \in Rids \ {r} : ToksOf(s)' = ToksOf(s)
      BY HandsFacts
    <2>2. QED
      BY <1>5, <2>1 DEF Plus
  <1>10. Len(t \o u) = Len(t) + Len(u) /\ Len(t) \in Nat /\ Len(u) \in Nat \ {0} /\ Len(t \o v) = Len(t) + Len(v)
    <2>1. Len(u) \in Nat \ {0}
      BY <1>6
    <2>2. QED
      BY <1>2, <1>6, <2>1, AgreesParts
  <1>11. CASE v = << >>
    <2>1. Plus(r) = t /\ Len(u) = 1
      BY <1>2, <1>4, <1>6, <1>11, AgreesParts
    <2>2. Agrees(t, t \o u) /\ Len(t) <= Len(t \o u)
      BY <1>2, <1>6, AgreesParts
    <2>3. QED
      BY <1>1, <1>2, <1>5, <1>8, <1>9, <1>10, <1>11, <2>1, <2>2
  <1>12. CASE v # << >>
    <2>1. Len(u) <= Len(v) /\ (\A i \in 1..Len(u) : u[i] = v[i]) /\ Len(v) \in Nat
      BY <1>2, <1>4, <1>6, <1>12
    <2>2. Agrees(t \o v, t \o u)
      BY <1>2, <1>6, <2>1, AgreesParts
    <2>3. retiring' # r => t \o v = t \o u
      BY <1>4, <1>6, <1>7, <1>12
    <2>4. Len(t \o u) <= Len(t \o v)
      <3>1. PICK a, b, c : a = Len(t) /\ b = Len(u) /\ c = Len(v)
        OBVIOUS
      <3>2. a \in Nat /\ b \in Nat /\ c \in Nat /\ b <= c /\ Len(t \o u) = a + b /\ Len(t \o v) = a + c
        BY <1>10, <2>1, <3>1
      <3>3. QED
        BY <3>2
    <2>5. Len(t \o u) \in Nat
      BY <1>10
    <2>6. QED
      BY <1>1, <1>2, <1>5, <1>8, <1>9, <1>10, <1>12, <2>2, <2>3, <2>4, <2>5
  <1>13. QED
    BY <1>11, <1>12

\* Other steps leave what is counted as a request's own.
LEMMA PlusStays ==
  ASSUME TypeOK, TypeOK', Placed, Phases, Requests, Cached, Planned, Placed', Next, ~Settle, ~Emit, ~Decoding,
         NEW r \in Live, r \in Live'
  PROVE  Plus(r)' = Plus(r) /\ ToksOf(r)' = ToksOf(r) /\ verified' = verified
  <1>1. ToksOf(r)' = ToksOf(r)
    BY ToksExtend
  <1>2. verified' = verified
    <2>1. CASE Staying
      BY <2>1, StayingStays DEF places
    <2>2. CASE Submitting \/ Admit \/ TakeGroup \/ Free \/ StartOnline
      BY <2>2 DEF Submitting, Submit, Admit, TakeGroup, Free, StartOnline, batch
    <2>3. QED
      BY <2>1, <2>2, NextCases
  <1>3. QED
    BY <1>1, <1>2 DEF Plus

\* What a request counts as its own only grows, until it retires.
LEMMA PlusMoves ==
  ASSUME TypeOK, TypeOK', Placed, Phases, Requests, Cached, Planned, Placed', Next, NEW r \in Live, r \in Live', r # retiring
  PROVE  /\ r # retiring' => Len(Plus(r)) <= Len(Plus(r)') /\ Agrees(Plus(r), Plus(r)')
         /\ r = retiring' => Agrees(Plus(r), ToksOf(r)')
  <1>0. r \in Rids /\ Plus(r) \in Seq(Tokens) /\ Plus(r)' \in Seq(Tokens)
    BY PlusTypes DEF TypeOK
  <1>1. CASE Settle \/ Emit
    <2>1. PICK s \in Rids, toks \in Seq(Tokens) : Hands(s, toks)
      BY <1>1, HandsExist
    <2>2. CASE r = s
      BY <2>1, <2>2, HandsPlus
    <2>3. CASE r # s
      <3>1. Plus(r)' = Plus(r)
        BY <1>0, <2>1, <2>3, HandsPlus
      <3>2. r # retiring'
        <4>1. retiring' = s \/ retiring' = 0
          BY <2>1, HandsFacts
        <4>2. r # 0
          BY <1>0, Sizes DEF Rids
        <4>3. QED
          BY <2>3, <4>1, <4>2
      <3>3. QED
        BY <1>0, <3>1, <3>2, AgreesParts
    <2>4. QED
      BY <2>2, <2>3
  <1>2. CASE Decoding
    <2>1. verified[r] = << >> /\ retiring' = 0
      BY <1>0, <1>2, DecodingLive, DecodingFacts
    <2>2. pc \in {"decode", "draft"}
      BY <1>2, DecodingFacts
    <2>3. ToksOf(r)' = ToksOf(r)
      BY <2>2, ToksExtend DEF Settle, Emit
    <2>4. ToksOf(r) \in Seq(Tokens) /\ verified'[r] \in Seq(Tokens)
      BY <1>0, ReqTypes DEF TypeOK
    <2>5. Plus(r) = ToksOf(r) /\ Plus(r)' = ToksOf(r) \o verified'[r]
      BY <2>1, <2>3, <2>4, AgreesParts DEF Plus
    <2>6. r # 0
      BY <1>0, Sizes DEF Rids
    <2>7. QED
      BY <2>1, <2>4, <2>5, <2>6, AgreesParts
  <1>3. CASE ~Settle /\ ~Emit /\ ~Decoding
    <2>1. Plus(r)' = Plus(r)
      BY <1>3, PlusStays
    <2>2. r # retiring'
      <3>1. CASE Staying
        BY <3>1, StayingStays DEF places
      <3>2. CASE Submitting \/ Admit \/ TakeGroup \/ StartOnline
        BY <3>2 DEF Submitting, Submit, Admit, TakeGroup, StartOnline, batch
      <3>3. CASE Free
        BY <1>0, <3>3, FreeFacts, Sizes DEF Rids
      <3>4. QED
        BY <1>3, <3>1, <3>2, <3>3, NextCases
    <2>3. QED
      BY <1>0, <2>1, <2>2, AgreesParts
  <1>4. QED
    BY <1>1, <1>2, <1>3

-----------------------------------------------------------------------------
(* What becomes of the slots *)

LEMMA PageInside ==
  \A i \in Nat, n \in Nat : /\ i < (i \div PageSize + 1) * PageSize
                            /\ i \div PageSize + 1 <= n => i < n * PageSize
  <1> SUFFICES ASSUME NEW i \in Nat, NEW n \in Nat
               PROVE  /\ i < (i \div PageSize + 1) * PageSize
                      /\ i \div PageSize + 1 <= n => i < n * PageSize
    OBVIOUS
  <1>1. PICK k : k = i \div PageSize
    OBVIOUS
  <1>2. k \in Nat /\ i < k * PageSize + PageSize /\ k * PageSize \in Nat
    BY <1>1, DivFacts, TimesFacts
  <1>3. (k + 1) * PageSize = k * PageSize + PageSize
    BY <1>2, TimesFacts
  <1>4. i < (k + 1) * PageSize
    BY <1>2, <1>3
  <1>5. k + 1 <= n => (k + 1) * PageSize <= n * PageSize
    BY <1>2, TimesMonotone
  <1>6. k + 1 <= n => i < n * PageSize
    <2>1. (k + 1) * PageSize \in Nat /\ n * PageSize \in Nat
      BY <1>2, TimesFacts
    <2>2. QED
      BY <1>4, <1>5, <2>1
  <1>7. QED
    BY <1>1, <1>4, <1>6

\* Positions of a table: those in one of its pages.
Positions(tab, o) == 0..Len(tab[o]) * PageSize - 1

LEMMA PositionFacts ==
  ASSUME NEW s \in Seq(Pages), NEW i \in 0..Len(s) * PageSize - 1
  PROVE  /\ i \in Nat /\ i \div PageSize + 1 \in DOMAIN s /\ i \div PageSize + 1 \in 1..Len(s)
         /\ s[i \div PageSize + 1] \in Range(s) /\ s[i \div PageSize + 1] \in Pages
         /\ i % PageSize \in 0..PageSize - 1 /\ i < (i \div PageSize + 1) * PageSize
  <1> DEFINE n == Len(s)
  <1>1. n \in Nat /\ DOMAIN s = 1..n
    OBVIOUS
  <1>2. i \in Nat /\ i < n * PageSize
    <2>1. n * PageSize \in Nat
      BY <1>1, TimesFacts
    <2> HIDE DEF n
    <2>2. i \in 0..n * PageSize - 1
      BY DEF n
    <2>3. QED
      BY <2>1, <2>2
  <1> HIDE DEF n
  <1>3. i \div PageSize + 1 \in 1..n
    BY <1>1, <1>2, PageOfPosition
  <1>4. i % PageSize \in 0..PageSize - 1 /\ i < (i \div PageSize + 1) * PageSize
    BY <1>2, DivFacts, PageInside
  <1>5. PICK k : k = i \div PageSize + 1
    OBVIOUS
  <1>6. k \in DOMAIN s /\ s[k] \in Range(s) /\ s[k] \in Pages
    BY <1>1, <1>3, <1>5 DEF Range
  <1>7. QED
    BY <1>1, <1>2, <1>3, <1>4, <1>5, <1>6 DEF n

LEMMA PositionBack ==
  ASSUME NEW s \in Seq(Pages), NEW i \in Nat, i \div PageSize + 1 \in DOMAIN s
  PROVE  i \in 0..Len(s) * PageSize - 1
  <1>1. PICK n : n = Len(s)
    OBVIOUS
  <1>2. n \in Nat /\ i \div PageSize + 1 \in 1..n
    BY <1>1
  <1>3. i < n * PageSize /\ n * PageSize \in Nat
    BY <1>2, PageInside, TimesFacts
  <1>4. i \in 0..n * PageSize - 1
    BY <1>3
  <1>5. QED
    BY <1>1, <1>4

\* The page and the offset of position i of o are those that x writes.
Hits(x, o, i) == PageAt(x.rid, x.pos) = table[o][i \div PageSize + 1] /\ x.pos % PageSize = i % PageSize

\* A slot of a table keeps what it holds, is blank, is taken over, or is written by a pass.
LEMMA SlotMoves ==
  ASSUME TypeOK, Pool!PoolInv, Pool!PoolInv', Placed, Phases, Requests, Cached, Covered, Planned, Next,
         NEW o \in Owners, NEW i \in Positions(table', o)
  PROVE  \/ i \in Positions(table, o) /\ SlotOf(kv', table', o, i) = SlotOf(kv, table, o, i)
         \/ SlotOf(kv', table', o, i) = << >>
         \/ \E src \in Owners \ {o}, k \in 1..Len(table'[o]) :
              /\ Sharer(src, o) /\ table[o] = << >> /\ i < k * PageSize /\ i \in Positions(table, src)
              /\ SlotOf(kv', table', o, i) = SlotOf(kv, table, src, i)
         \/ \E R, toks, P : /\ Pass(R, toks, P) /\ Completes(R, toks, P) /\ i \in Positions(table, o)
                            /\ \E x \in Written(R, toks, P) : Hits(x, o, i) /\ SlotOf(kv', table', o, i) = x.val
  <1>1. table'[o] \in Seq(Pages) /\ i \in 0..Len(table'[o]) * PageSize - 1
    BY TableTypes DEF Positions
  <1>2. PICK k, off : k = i \div PageSize + 1 /\ off = i % PageSize
    OBVIOUS
  <1>3. /\ i \in Nat /\ k \in DOMAIN table'[o] /\ k \in 1..Len(table'[o]) /\ table'[o][k] \in Pages
        /\ off \in 0..PageSize - 1 /\ i < k * PageSize
    BY <1>1, <1>2, PositionFacts
  <1>4. \A a \in Owners : k \in DOMAIN table[a] => i \in Positions(table, a) /\ table[a][k] \in Pages /\ table[a][k] \notin free
    <2> SUFFICES ASSUME NEW a \in Owners, k \in DOMAIN table[a]
                 PROVE  i \in Positions(table, a) /\ table[a][k] \in Pages /\ table[a][k] \notin free
      OBVIOUS
    <2>1. table[a] \in Seq(Pages)
      BY PoolTypes
    <2>2. i \in Positions(table, a)
      BY <1>2, <1>3, <2>1, PositionBack DEF Positions
    <2>3. table[a][k] \in Range(table[a]) /\ table[a][k] \in Pages
      BY <2>1 DEF Range
    <2>4. QED
      BY <2>2, <2>3, FreeUnlisted
  <1>5. \A a \in Owners : SlotOf(kv, table, a, i) = kv[table[a][k]][off] /\ SlotOf(kv', table', a, i) = kv'[table'[a][k]][off]
    BY <1>2 DEF SlotOf
  <1>6. ASSUME \A a \in Owners : k \in DOMAIN table[a] => kv'[table[a][k]][off] = kv[table[a][k]][off],
               Reserving => ForgetFresh
        PROVE  \/ i \in Positions(table, o) /\ SlotOf(kv', table', o, i) = SlotOf(kv, table, o, i)
               \/ SlotOf(kv', table', o, i) = << >>
               \/ \E src \in Owners \ {o}, j \in 1..Len(table'[o]) :
                    /\ Sharer(src, o) /\ table[o] = << >> /\ i < j * PageSize /\ i \in Positions(table, src)
                    /\ SlotOf(kv', table', o, i) = SlotOf(kv, table, src, i)
    <2>1. CASE k \in DOMAIN table[o] /\ table'[o][k] = table[o][k]
      BY <1>4, <1>5, <1>6, <2>1
    <2>2. CASE Reserving /\ table'[o][k] \in free \ free'
      <3>1. kv'[table'[o][k]] = [j \in 0..PageSize - 1 |-> << >>]
        BY <1>3, <1>6, <2>2 DEF ForgetFresh
      <3>2. QED
        BY <1>3, <1>5, <3>1
    <2>3. ASSUME NEW src \in Owners \ {o}, Sharer(src, o), k \in DOMAIN table[src], table'[o][k] = table[src][k], table[o] = << >>
          PROVE  /\ i \in Positions(table, src) /\ SlotOf(kv', table', o, i) = SlotOf(kv, table, src, i)
      BY <1>4, <1>5, <1>6, <2>3
    <2>4. QED
      BY <1>3, <2>1, <2>2, <2>3, PageMoves
  <1>7. CASE kv' = kv /\ ~Reserving
    BY <1>6, <1>7
  <1>8. CASE Reserving /\ ForgetFresh
    <2>1. \A a \in Owners : k \in DOMAIN table[a] => kv'[table[a][k]][off] = kv[table[a][k]][off]
      BY <1>4, <1>8 DEF ForgetFresh
    <2>2. QED
      BY <1>6, <1>8, <2>1
  <1>9. ASSUME NEW R, NEW toks, NEW P, Pass(R, toks, P), Completes(R, toks, P)
        PROVE  \/ i \in Positions(table, o) /\ SlotOf(kv', table', o, i) = SlotOf(kv, table, o, i)
               \/ i \in Positions(table, o) /\ \E x \in Written(R, toks, P) : Hits(x, o, i) /\ SlotOf(kv', table', o, i) = x.val
    <2>1. kv' = Scatter(Written(R, toks, P)) /\ table' = table
      BY <1>9 DEF Pass, Completes
    <2>2. i \in Positions(table, o) /\ table[o][k] \in Pages
      BY <1>3, <1>4, <2>1
    <2>3. CASE kv'[table[o][k]][off] = kv[table[o][k]][off]
      BY <1>5, <2>1, <2>2, <2>3
    <2>4. ASSUME NEW x \in Written(R, toks, P), PageAt(x.rid, x.pos) = table[o][k], x.pos % PageSize = off,
                 kv'[table[o][k]][off] = x.val
          PROVE  Hits(x, o, i) /\ SlotOf(kv', table', o, i) = x.val
      BY <1>2, <1>5, <2>1, <2>4 DEF Hits
    <2>5. \/ kv'[table[o][k]][off] = kv[table[o][k]][off]
          \/ \E x \in Written(R, toks, P) : PageAt(x.rid, x.pos) = table[o][k] /\ x.pos % PageSize = off /\ kv'[table[o][k]][off] = x.val
      BY <1>3, <2>1, <2>2, ScatterFacts
    <2>6. QED
      BY <2>2, <2>3, <2>4, <2>5
  <1>10. QED
    BY <1>7, <1>8, <1>9, KVMoves

\* A pass writes at the position it hits, and only KV of the tokens of the holder.
LEMMA WrittenSlot ==
  ASSUME TypeOK, Pool!PoolInv, Requests, Sharing, NEW R, NEW toks, NEW P, Pass(R, toks, P), NEW x \in Written(R, toks, P),
         NEW o \in Holders, NEW i \in Positions(table, o), Hits(x, o, i)
  PROVE  /\ x.pos = i /\ x.rid \in R /\ x.rid \in Rids /\ x.rid \in Live /\ toks[x.rid] \in Seq(Tokens)
         /\ o = TableOf(x.rid) => Own(x.val, toks[x.rid], i)
         /\ o # TableOf(x.rid) => Own(x.val, Told[o], i)
  <1>1. PICK s, j : s = x.rid /\ j = x.pos
    OBVIOUS
  <1>2. /\ s \in R /\ j \in P[s] /\ x.val = IF j < Len(toks[s]) THEN SubSeq(toks[s], 1, j + 1) ELSE << >>
    BY <1>1, WrittenFacts
  <1>3. /\ s \in Live \ {retiring} /\ toks[s] \in Seq(Tokens) /\ j \in Nat /\ j < Len(table[TableOf(s)]) * PageSize
        /\ Len(req[s].prompt) <= Len(toks[s]) /\ \A n \in 1..Len(req[s].prompt) : toks[s][n] = ToksOf(s)[n]
    BY <1>2 DEF Pass
  <1>4. s \in Rids /\ TableOf(s) \in Owners /\ TableOf(s) \in Holders /\ Told[TableOf(s)] = ToksOf(s)
        /\ o \in Owners /\ Told[o] \in Seq(Tokens)
    BY <1>3, OwnerFacts, HolderFacts, ToldFacts DEF TypeOK
  <1>5. table[o] \in Seq(Pages) /\ table[TableOf(s)] \in Seq(Pages)
    BY <1>4, PoolTypes
  <1>6. PICK k, l : k = i \div PageSize + 1 /\ l = j \div PageSize + 1
    OBVIOUS
  <1>7. i \in Nat /\ k \in DOMAIN table[o] /\ k \in Nat /\ table[o][k] \in Range(table[o]) /\ i < k * PageSize
    <2>1. k \in DOMAIN table[o] /\ k \in 1..Len(table[o])
      BY <1>5, <1>6, PositionFacts DEF Positions
    <2>2. k \in Nat
      BY <2>1
    <2>3. QED
      BY <1>5, <1>6, <2>1, <2>2, PositionFacts DEF Positions
  <1>8. l \in DOMAIN table[TableOf(s)] /\ l \in Nat
    <2>1. l \in DOMAIN table[TableOf(s)] /\ l \in 1..Len(table[TableOf(s)])
      BY <1>3, <1>4, <1>6, PositionInTable
    <2>2. QED
      BY <2>1
  <1>9. table[TableOf(s)][l] = table[o][k] /\ j % PageSize = i % PageSize
    BY <1>1, <1>6 DEF Hits, PageAt
  <1>10. k = l => i = j
    <2>1. i \div PageSize \in Nat /\ j \div PageSize \in Nat
      BY <1>3, <1>7, DivFacts
    <2>2. k = l => i \div PageSize = j \div PageSize
      BY <1>6, <2>1
    <2>3. QED
      BY <1>3, <1>7, <1>9, <2>2, SlotUnique
  <1>11. CASE o = TableOf(s)
    <2>1. k = l
      BY <1>4, <1>7, <1>8, <1>9, <1>11, TablesInjective DEF IsInjective
    <2>2. Own(x.val, toks[s], i)
      BY <1>2, <1>10, <2>1 DEF Own, Prefix
    <2>3. QED
      BY <1>1, <1>2, <1>3, <1>4, <1>10, <1>11, <2>1, <2>2
  <1>12. CASE o # TableOf(s)
    <2>1. k = l /\ SamePrefix(Told[o], ToksOf(s), k * PageSize)
      BY <1>4, <1>7, <1>8, <1>9, <1>12 DEF Sharing, Agreement
    <2>2. ~(l * PageSize > Len(req[s].prompt))
      BY <1>3, <1>4, <1>7, <1>8, <1>9, <1>12 DEF Sharing, Private
    <2>3. k * PageSize \in Nat /\ Len(req[s].prompt) \in Nat /\ k * PageSize <= Len(req[s].prompt)
      <3>1. k * PageSize \in Nat /\ Len(req[s].prompt) \in Nat
        BY <1>4, <1>7, TimesFacts, ReqTypes
      <3>2. QED
        BY <2>1, <2>2, <3>1
    <2>4. PICK n, t, u, v : n = k * PageSize /\ t = toks[s] /\ u = ToksOf(s) /\ v = Told[o]
      OBVIOUS
    <2>5. /\ n \in Nat /\ i < n /\ n <= Len(t) /\ n <= Len(v) /\ t \in Seq(Tokens) /\ v \in Seq(Tokens)
          /\ \A m \in 1..n : t[m] = v[m]
      <3>1. PICK c : c = Len(req[s].prompt)
        OBVIOUS
      <3>2. c \in Nat /\ n \in Nat /\ n <= c /\ c <= Len(t) /\ t \in Seq(Tokens) /\ v \in Seq(Tokens)
            /\ (\A m \in 1..c : t[m] = u[m]) /\ i < n
        BY <1>3, <1>4, <1>7, <2>3, <2>4, <3>1
      <3>3. n <= Len(v) /\ \A m \in 1..n : v[m] = u[m]
        BY <2>1, <2>4 DEF SamePrefix
      <3>4. QED
        BY <3>2, <3>3
    <2>6. i < Len(t) /\ i < Len(v) /\ \A m \in 1..i + 1 : t[m] = v[m]
      BY <1>7, <2>5
    <2>7. Prefix(t, i) = Prefix(v, i)
      BY <1>7, <2>5, <2>6, PrefixSame
    <2>8. i = j
      BY <1>10, <2>1
    <2>9. x.val = Prefix(t, i)
      BY <1>2, <2>4, <2>6, <2>8 DEF Prefix
    <2>10. Own(x.val, v, i)
      BY <2>6, <2>7, <2>9 DEF Own
    <2>11. QED
      BY <1>1, <1>2, <1>3, <1>4, <1>12, <2>4, <2>8, <2>10
  <1>13. QED
    BY <1>11, <1>12

-----------------------------------------------------------------------------
(* No request writes into the KV of another *)

\* KV of a sequence is KV of any other that begins with the same tokens.
LEMMA OwnShared ==
  ASSUME NEW s \in Seq(Tokens), NEW t \in Seq(Tokens), NEW n \in Nat, NEW i \in Nat, i < n, SamePrefix(s, t, n), NEW v,
         Own(v, t, i)
  PROVE  Own(v, s, i)
  <1>1. n <= Len(s) /\ n <= Len(t) /\ \A j \in 1..n : s[j] = t[j]
    BY DEF SamePrefix
  <1>2. i < Len(s) /\ i < Len(t) /\ \A j \in 1..i + 1 : s[j] = t[j]
    BY <1>1
  <1>3. Prefix(s, i) = Prefix(t, i)
    BY <1>2, PrefixSame
  <1>4. QED
    BY <1>2, <1>3 DEF Own

OwnLive == \A r \in Live : r # retiring => \A i \in Positions(table, TableOf(r)) :
             Own(SlotOf(kv, table, TableOf(r), i), Plus(r), i)
OwnRetiring == retiring # 0 => \A i \in Positions(table, TableOf(retiring)) :
                 i < Len(ToksOf(retiring)) => Own(SlotOf(kv, table, TableOf(retiring), i), ToksOf(retiring), i)
OwnKept == \A e \in Range(order) : \A i \in 0..Len(entries[e]) - 1 : Own(SlotOf(kv, table, KeptBy(e), i), entries[e], i)

LEMMA CleanParts ==
  /\ CleanKV <=> (Capacity > 0 => OwnLive /\ OwnRetiring /\ OwnKept)
  /\ CleanKV' <=> (Capacity > 0 => OwnLive' /\ OwnRetiring' /\ OwnKept')
  <1>1. CleanKV <=> (Capacity > 0 => OwnLive /\ OwnRetiring /\ OwnKept)
    BY DEF CleanKV, OwnLive, OwnRetiring, OwnKept, Positions
  <1>2. CleanKV' <=> (Capacity > 0 => OwnLive' /\ OwnRetiring' /\ OwnKept')
    BY DEF CleanKV, OwnLive, OwnRetiring, OwnKept, Positions
  <1>3. QED
    BY <1>1, <1>2

\* What is taken over is KV of the tokens it is taken over for.
LEMMA SharedSlot ==
  ASSUME TypeOK, Placed, Phases, Requests, Cached, Planned, OwnRetiring, OwnKept, Next,
         NEW src \in Owners, NEW dst \in Owners, Sharer(src, dst), table[dst] = << >>, NEW k \in 1..Len(table'[dst]),
         NEW i \in Positions(table, src), i < k * PageSize, Told'[dst] \in Seq(Tokens)
  PROVE  Own(SlotOf(kv, table, src, i), Told'[dst], i)
  <1>1. Capacity > 0 /\ src \in Holders /\ SamePrefix(Told'[dst], Told[src], k * PageSize)
    BY SharerFacts
  <1>2. k \in Nat /\ k * PageSize \in Nat /\ Told[src] \in Seq(Tokens)
    <2>1. k \in Nat
      OBVIOUS
    <2>2. k * PageSize \in Nat
      BY <2>1, TimesFacts
    <2>3. Told[src] \in Seq(Tokens)
      BY <1>1, HolderFacts
    <2>4. QED
      BY <2>1, <2>2, <2>3
  <1>3. i \in Nat /\ i < Len(Told[src])
    <2>1. k * PageSize <= Len(Told[src]) /\ Len(Told[src]) \in Nat
      BY <1>1, <1>2 DEF SamePrefix
    <2>2. table[src] \in Seq(Pages)
      BY PoolTypes
    <2>3. i \in Nat
      BY <2>2, PositionFacts DEF Positions
    <2>4. PICK a, b : a = k * PageSize /\ b = Len(Told[src])
      OBVIOUS
    <2>5. a \in Nat /\ b \in Nat /\ a <= b /\ i < a
      BY <1>2, <2>1, <2>4
    <2>6. i < b
      BY <2>3, <2>5
    <2>7. QED
      BY <2>3, <2>4, <2>6
  <1>4. Own(SlotOf(kv, table, src, i), Told[src], i)
    <2>1. CASE Remember /\ src = TableOf(retiring)
      <3>1. retiring \in Rids /\ retiring # 0
        BY <2>1, RememberFacts, Sizes DEF Rids
      <3>2. Told[src] = ToksOf(retiring)
        BY <2>1, <3>1, ToldFacts
      <3>3. QED
        BY <1>3, <2>1, <3>1, <3>2 DEF OwnRetiring
    <2>2. CASE Admit /\ src = KeptBy(Route(Head(pending).prompt))
      <3>1. PICK e : e = Route(Head(pending).prompt)
        OBVIOUS
      <3>2. src = KeptBy(e) /\ e \in Range(order) /\ e \in Rids
        <4>1. \E a \in Range(order) : src = KeptBy(a) /\ a \in Rids
          <5>1. src \in {KeptBy(a) : a \in Range(order)}
            BY <1>1, <2>2 DEF Holders, TableOf, KeptBy
          <5>2. QED
            BY <5>1, EntryTypes
        <4>2. PICK a \in Range(order) : src = KeptBy(a) /\ a \in Rids
          BY <4>1
        <4>3. e = a
          BY <2>2, <3>1, <4>2 DEF KeptBy
        <4>4. QED
          BY <4>2, <4>3
      <3>3. Told[src] = entries[e]
        BY <3>2, ToldFacts
      <3>4. PICK n : n = Len(entries[e])
        OBVIOUS
      <3>5. n \in Nat /\ i < n
        BY <1>3, <3>2, <3>3, <3>4, EntryTypes
      <3>6. i \in 0..n - 1
        BY <1>3, <3>5
      <3>7. QED
        BY <3>2, <3>3, <3>4, <3>6 DEF OwnKept
    <2>3. QED
      BY <2>1, <2>2 DEF Sharer
  <1>5. QED
    BY <1>1, <1>2, <1>3, <1>4, OwnShared

LEMMA OwnBlank == \A s, i : Own(<< >>, s, i)
  BY DEF Own

LEMMA OwnLiveStep ==
  ASSUME TypeOK, Pool!PoolInv, Placed, Phases, Requests, Cached, Covered, Planned, Sharing, Capacity > 0,
         OwnLive, OwnRetiring, OwnKept, Next, TypeOK', Pool!PoolInv', Placed',
         NEW r \in Live', r # retiring', NEW i \in Positions(table', TableOf(r))
  PROVE  Own(SlotOf(kv', table', TableOf(r), i), Plus(r)', i)
  <1>1. r \in Rids /\ TableOf(r) \in Owners /\ r # retiring
    BY LiveMoves, OwnerFacts
  <1>2. PICK o, v : o = TableOf(r) /\ v = SlotOf(kv', table', TableOf(r), i)
    OBVIOUS
  <1>3. Plus(r) \in Seq(Tokens) /\ Plus(r)' \in Seq(Tokens) /\ ToksOf(r) \in Seq(Tokens) /\ ToksOf(r)' \in Seq(Tokens)
    BY <1>1, PlusTypes
  <1>4. i \in Nat
    BY <1>1, TableTypes, PositionFacts DEF Positions
  <1>5. r \in Live \/ (Admit /\ r = nextRid /\ table[o] = << >>)
    <2>1. nextRid \in Nat
      BY Sizes DEF TypeOK
    <2>2. r = nextRid => table[o] = << >>
      BY <1>1, <1>2, <2>1 DEF Cached
    <2>3. QED
      BY <2>2, LiveMoves
  <1>6. table[o] = << >> => i \notin Positions(table, o)
    <2>1. Len(<< >>) * PageSize = 0
      <3>1. Len(<< >>) = 0 /\ 0 * PageSize = 0
        BY GroupsAssumption
      <3>2. QED
        BY <3>1
    <2>2. QED
      BY <1>4, <2>1 DEF Positions
  <1>7. ASSUME r \in Live, Own(v, Plus(r), i)
        PROVE  Own(v, Plus(r)', i)
    <2>1. Len(Plus(r)) <= Len(Plus(r)') /\ Agrees(Plus(r), Plus(r)')
      BY <1>1, <1>7, PlusMoves
    <2>2. QED
      BY <1>3, <1>4, <1>7, <2>1, OwnCarries
  <1>8. CASE i \in Positions(table, o) /\ v = SlotOf(kv, table, o, i)
    <2>1. r \in Live
      BY <1>5, <1>6, <1>8
    <2>2. Own(v, Plus(r), i)
      BY <1>1, <1>2, <1>8, <2>1 DEF OwnLive
    <2>3. QED
      BY <1>2, <1>7, <2>1, <2>2
  <1>9. CASE v = << >>
    BY <1>2, <1>9, OwnBlank
  <1>10. ASSUME NEW src \in Owners \ {o}, NEW k \in 1..Len(table'[o]), Sharer(src, o), table[o] = << >>, i < k * PageSize,
                i \in Positions(table, src), v = SlotOf(kv, table, src, i)
         PROVE  Own(v, Plus(r)', i)
    <2>1. Told'[o] = ToksOf(r)'
      BY <1>1, <1>2, ToldFacts
    <2>2. Own(v, ToksOf(r)', i)
      BY <1>1, <1>2, <1>3, <1>10, <2>1, SharedSlot
    <2>3. Len(ToksOf(r)') <= Len(Plus(r)') /\ Agrees(ToksOf(r)', Plus(r)')
      <3>1. Plus(r)' = ToksOf(r)' \o verified'[r]
        BY DEF Plus
      <3>2. verified'[r] \in Seq(Tokens)
        BY <1>1 DEF TypeOK
      <3>3. QED
        BY <1>3, <3>1, <3>2, AgreesParts
    <2>4. QED
      BY <1>3, <1>4, <2>2, <2>3, OwnCarries
  <1>11. ASSUME NEW R, NEW toks, NEW P, Pass(R, toks, P), Completes(R, toks, P), i \in Positions(table, o),
                NEW x \in Written(R, toks, P), Hits(x, o, i), v = x.val
         PROVE  Own(v, Plus(r)', i)
    <2>1. r \in Live
      BY <1>5, <1>6, <1>11
    <2>2. o \in Holders /\ Told[o] = ToksOf(r)
      BY <1>1, <1>2, <2>1, HolderFacts, ToldFacts
    <2>3. CASE o = TableOf(x.rid)
      <3>1. x.rid = r
        BY <1>2, <2>3 DEF TableOf
      <3>2. r \in R /\ toks[r] \in Seq(Tokens) /\ Own(v, toks[r], i)
        BY <1>11, <2>2, <2>3, <3>1, WrittenSlot
      <3>3. Len(toks[r]) <= Len(Plus(r)') /\ \A j \in 1..Len(toks[r]) : toks[r][j] = Plus(r)'[j]
        BY <1>11, <3>2 DEF Completes
      <3>4. Agrees(toks[r], Plus(r)')
        BY <3>3 DEF Agrees
      <3>5. QED
        BY <1>3, <1>4, <3>2, <3>3, <3>4, OwnCarries
    <2>4. CASE o # TableOf(x.rid)
      <3>1. Own(v, ToksOf(r), i)
        BY <1>11, <2>2, <2>4, WrittenSlot
      <3>2. Own(v, Plus(r), i)
        <4>1. Len(ToksOf(r)) <= Len(Plus(r)) /\ Agrees(ToksOf(r), Plus(r))
          BY <1>1, PlusTypes
        <4>2. QED
          BY <1>3, <1>4, <3>1, <4>1, OwnCarries
      <3>3. QED
        BY <1>7, <2>1, <3>2
    <2>5. QED
      BY <2>3, <2>4
  <1>12. i \in Positions(table', o)
    BY <1>2
  <1>13. QED
    BY <1>1, <1>2, <1>8, <1>9, <1>10, <1>11, <1>12, SlotMoves

LEMMA OwnRetiringStep ==
  ASSUME TypeOK, Pool!PoolInv, Placed, Phases, Requests, Cached, Covered, Planned, Sharing, Capacity > 0,
         OwnLive, OwnRetiring, OwnKept, Next, TypeOK', Pool!PoolInv', Placed', Phases',
         NEW m, m = retiring', m # 0, NEW i \in Positions(table', TableOf(m)), i < Len(ToksOf(m)')
  PROVE  Own(SlotOf(kv', table', TableOf(m), i), ToksOf(m)', i)
  <1>1. m \in Live'
    BY DEF Live
  <1>2. m \in Rids /\ TableOf(m) \in Owners
    BY <1>1, LiveMoves, OwnerFacts
  <1>3. ~Admit /\ (retiring # 0 => retiring = m)
    <2>1. pc' \in Retirement
      BY DEF Phases
    <2>2. ~Admit
      BY <2>1 DEF Admit, Retirement
    <2>3. CASE Staying
      BY <2>2, <2>3, StayingStays DEF places
    <2>4. CASE Settle \/ Emit
      <3>1. retiring = 0
        BY <2>4, HandsExist DEF Hands
      <3>2. QED
        BY <2>2, <3>1
    <2>5. CASE Submitting \/ TakeGroup
      BY <2>2, <2>5 DEF Submitting, Submit, TakeGroup, batch
    <2>6. CASE Decoding \/ Free \/ StartOnline
      BY <2>2, <2>6, DecodingFacts, FreeFacts, StartOnlineFacts
    <2>7. QED
      BY <2>2, <2>3, <2>4, <2>5, <2>6, NextCases
  <1>4. m \in Live
    BY <1>1, <1>3, LiveMoves
  <1>5. PICK o, v : o = TableOf(m) /\ v = SlotOf(kv', table', TableOf(m), i)
    OBVIOUS
  <1>6. Plus(m) \in Seq(Tokens) /\ ToksOf(m) \in Seq(Tokens) /\ ToksOf(m)' \in Seq(Tokens) /\ i \in Nat
    <2>1. i \in Nat
      BY <1>2, TableTypes, PositionFacts DEF Positions
    <2>2. QED
      BY <1>2, <2>1, PlusTypes
  <1>7. CASE i \in Positions(table, o) /\ v = SlotOf(kv, table, o, i)
    <2>1. CASE m = retiring
      <3>1. ToksOf(m)' = ToksOf(m)
        <4>1. ~Settle /\ ~Emit
          BY <2>1, HandsExist DEF Hands
        <4>2. QED
          BY <1>1, <1>4, <4>1, ToksExtend
      <3>2. i < Len(ToksOf(m))
        BY <3>1
      <3>3. QED
        BY <1>5, <1>7, <2>1, <3>1, <3>2 DEF OwnRetiring
    <2>2. CASE m # retiring
      <3>1. Own(v, Plus(m), i)
        BY <1>4, <1>5, <1>7, <2>2 DEF OwnLive
      <3>2. Agrees(Plus(m), ToksOf(m)')
        BY <1>1, <1>4, <2>2, PlusMoves
      <3>3. QED
        BY <1>5, <1>6, <3>1, <3>2, OwnCarries
    <2>3. QED
      BY <2>1, <2>2
  <1>8. CASE v = << >>
    BY <1>5, <1>8, OwnBlank
  <1>9. ASSUME NEW src \in Owners \ {o}, NEW k \in 1..Len(table'[o]), Sharer(src, o), table[o] = << >>
        PROVE  FALSE
    <2>1. o # KeptBy(retiring)
      BY <1>5 DEF TableOf, KeptBy
    <2>2. Admit
      BY <1>2, <1>5, <1>9, <2>1, SharerFacts
    <2>3. QED
      BY <1>3, <2>2
  <1>10. ASSUME NEW R, NEW toks, NEW P, Pass(R, toks, P), Completes(R, toks, P)
         PROVE  FALSE
    BY <1>10 DEF Completes
  <1>11. QED
    BY <1>2, <1>5, <1>7, <1>8, <1>9, <1>10, SlotMoves

LEMMA OwnKeptStep ==
  ASSUME TypeOK, Pool!PoolInv, Placed, Phases, Requests, Cached, Covered, Planned, Sharing, Capacity > 0,
         OwnLive, OwnRetiring, OwnKept, Next, TypeOK', Pool!PoolInv', Cached',
         NEW e \in Range(order'), NEW i \in 0..Len(entries'[e]) - 1
  PROVE  Own(SlotOf(kv', table', KeptBy(e), i), entries'[e], i)
  <1>1. e \in Rids /\ KeptBy(e) \in Owners
    BY KeptMoves, OwnerFacts
  <1>2. PICK o, v : o = KeptBy(e) /\ v = SlotOf(kv', table', KeptBy(e), i)
    OBVIOUS
  <1>3. i \in Nat /\ i \in Positions(table', o) /\ entries'[e] \in Seq(Tokens)
    <2>1. Len(entries'[e]) = Len(table'[o]) * PageSize
      BY <1>1, <1>2 DEF Cached
    <2>2. entries'[e] \in Seq(Tokens)
      BY <1>1 DEF TypeOK
    <2>3. QED
      BY <2>1, <2>2 DEF Positions
  <1>4. e \in Range(order) => entries'[e] = entries[e] /\ o \in Holders /\ Told[o] = entries[e]
    <2>1. e \in Range(order) => entries'[e] = entries[e]
      BY KeptMoves, RememberFacts
    <2>2. QED
      BY <1>1, <1>2, <2>1, HolderFacts, ToldFacts
  <1>5. ~(e \in Range(order)) => table[o] = << >>
    BY <1>1, <1>2 DEF Cached
  <1>6. table[o] = << >> => i \notin Positions(table, o)
    <2>1. Len(<< >>) = 0 /\ 0 * PageSize = 0
      BY GroupsAssumption
    <2>2. Len(<< >>) * PageSize = 0
      BY <2>1
    <2>3. QED
      BY <1>3, <2>2 DEF Positions
  <1>7. CASE i \in Positions(table, o) /\ v = SlotOf(kv, table, o, i)
    <2>1. e \in Range(order)
      BY <1>5, <1>6, <1>7
    <2>2. entries'[e] = entries[e]
      BY <1>4, <2>1
    <2>3. i \in 0..Len(entries[e]) - 1
      BY <2>2
    <2>4. QED
      BY <1>2, <1>7, <2>1, <2>2, <2>3 DEF OwnKept
  <1>8. CASE v = << >>
    BY <1>2, <1>8, OwnBlank
  <1>9. ASSUME NEW src \in Owners \ {o}, NEW k \in 1..Len(table'[o]), Sharer(src, o), table[o] = << >>, i < k * PageSize,
               i \in Positions(table, src), v = SlotOf(kv, table, src, i)
        PROVE  Own(v, entries'[e], i)
    <2>1. Told'[o] = entries'[e]
      BY <1>1, <1>2, ToldFacts
    <2>2. QED
      BY <1>1, <1>2, <1>3, <1>9, <2>1, SharedSlot
  <1>10. ASSUME NEW R, NEW toks, NEW P, Pass(R, toks, P), Completes(R, toks, P), i \in Positions(table, o),
                NEW x \in Written(R, toks, P), Hits(x, o, i), v = x.val
         PROVE  Own(v, entries'[e], i)
    <2>1. e \in Range(order)
      BY <1>5, <1>6, <1>10
    <2>2. entries'[e] = entries[e] /\ o \in Holders /\ Told[o] = entries[e]
      BY <1>4, <2>1
    <2>3. o # TableOf(x.rid)
      BY <1>2 DEF TableOf, KeptBy
    <2>4. QED
      BY <1>10, <2>2, <2>3, WrittenSlot
  <1>11. QED
    BY <1>1, <1>2, <1>3, <1>7, <1>8, <1>9, <1>10, SlotMoves

LEMMA CleanKVStep ==
  ASSUME TypeOK, Pool!PoolInv, Placed, Phases, Requests, Cached, Covered, Planned, Sharing, CleanKV, Next,
         TypeOK', Pool!PoolInv', Placed', Phases', Cached'
  PROVE  CleanKV'
  <1> SUFFICES ASSUME Capacity > 0
               PROVE  OwnLive' /\ OwnRetiring' /\ OwnKept'
    BY CleanParts
  <1>1. OwnLive /\ OwnRetiring /\ OwnKept
    BY CleanParts
  <1>2. OwnLive'
    BY <1>1, OwnLiveStep DEF OwnLive
  <1>3. OwnRetiring'
    <2>1. PICK m : m = retiring'
      OBVIOUS
    <2>2. m # 0 => \A i \in Positions(table', TableOf(m)) :
                     i < Len(ToksOf(m)') => Own(SlotOf(kv', table', TableOf(m), i), ToksOf(m)', i)
      BY <1>1, <2>1, OwnRetiringStep
    <2>3. ToksOf(m)' = ToksOf(retiring)'
      BY <2>1 DEF ToksOf
    <2>4. QED
      BY <2>1, <2>2, <2>3 DEF OwnRetiring
  <1>4. OwnKept'
    BY <1>1, OwnKeptStep DEF OwnKept
  <1>5. QED
    BY <1>2, <1>3, <1>4

-----------------------------------------------------------------------------
(* How far the KV of a request is complete *)

LEMMA DoneBounds ==
  ASSUME TypeOK, TypeOK', NEW r \in Rids
  PROVE  /\ Done(r) \in Int /\ Done(r) <= Len(Plus(r)) /\ Len(Plus(r)) \in Nat
         /\ Done(r)' \in Int /\ Done(r)' <= Len(Plus(r)') /\ Len(Plus(r)') \in Nat
  <1>1. /\ Done(r) \in {0, Len(ToksOf(r)), Len(Plus(r)) - 1}
        /\ Done(r)' \in {0, Len(ToksOf(r)'), Len(Plus(r)') - 1}
    BY DEF Done
  <1>2. ToksOf(r)' \in Seq(Tokens) /\ verified'[r] \in Seq(Tokens) /\ Plus(r)' = ToksOf(r)' \o verified'[r]
    <2>1. verified' \in [Rids -> Seq(Tokens)]
      BY DEF TypeOK
    <2>2. QED
      BY <2>1, PlusTypes DEF Plus
  <1>3. Len(ToksOf(r)') <= Len(Plus(r)') /\ Len(ToksOf(r)') \in Nat /\ Len(Plus(r)') \in Nat
    BY <1>2, AgreesParts
  <1>4. Len(ToksOf(r)) <= Len(Plus(r)) /\ Len(ToksOf(r)) \in Nat /\ Len(Plus(r)) \in Nat
    BY PlusTypes, AgreesParts
  <1>5. QED
    BY <1>1, <1>3, <1>4

\* Outside of emit the complete part is inside the table.
LEMMA DoneCovered ==
  ASSUME TypeOK, TypeOK', Placed, Phases, Requests, Covered, emitting = << >>, NEW r \in Live, NEW i \in Nat, i < Done(r)
  PROVE  i < Len(table[TableOf(r)]) * PageSize /\ i \in Positions(table, TableOf(r))
  <1>1. PICK a, b, c, t : a = Len(req[r].prompt) /\ b = Len(req[r].gen) /\ c = req[r].maxNew /\ t = ToksOf(r)
    OBVIOUS
  <1>2. r \in Rids /\ a \in Nat /\ b \in Nat /\ c \in Nat /\ b <= c /\ t \in Seq(Tokens) /\ Len(t) = a + b
    BY <1>1, LiveFacts
  <1>3. verified[r] = << >>
    BY <1>2, EmptyRange DEF Requests
  <1>4. Plus(r) = t
    BY <1>1, <1>2, <1>3, AgreesParts DEF Plus
  <1>5. i < a + c /\ a + c \in Nat
    <2>1. Done(r) \in Int /\ Done(r) <= a + b
      BY <1>2, <1>4, DoneBounds
    <2>2. PICK d : d = Done(r)
      OBVIOUS
    <2>3. d \in Int /\ d <= a + b /\ i < d
      BY <2>1, <2>2
    <2>4. QED
      BY <1>2, <2>3
  <1>6. r \notin Range(admitted)
    <2>1. r \in Range(admitted) => Done(r) = 0
      BY DEF Done
    <2>2. QED
      BY <2>1
  <1>7. ~(pc = "reserve" /\ r = Last(admitted))
    <2>1. pc = "reserve" => Last(admitted) \in Range(admitted)
      BY LastFacts DEF Phases, Placed
    <2>2. QED
      BY <1>6, <2>1
  <1>8. Ceil(a + c) <= Len(table[TableOf(r)])
    BY <1>1, <1>7 DEF Covered
  <1>9. TableOf(r) \in Owners
    BY <1>2, OwnerFacts
  <1>10. i < Len(table[TableOf(r)]) * PageSize
    BY <1>5, <1>8, <1>9, CoveredPosition
  <1>11. i \in Positions(table, TableOf(r))
    <2>1. Len(table[TableOf(r)]) \in Nat
      BY <1>9, PoolTypes
    <2>2. PICK n : n = Len(table[TableOf(r)]) * PageSize
      OBVIOUS
    <2>3. n \in Nat
      BY <2>1, <2>2, TimesFacts
    <2>4. i \in 0..n - 1
      BY <1>10, <2>2, <2>3
    <2>5. QED
      BY <2>2, <2>4 DEF Positions
  <1>12. QED
    BY <1>10, <1>11

\* Only a pass completes more of it.
LEMMA DoneStays ==
  ASSUME TypeOK, TypeOK', Placed, Placed', Phases, Requests, Cached, Planned, Next, ~Forward, ~Decoding, NEW r \in Live, r \in Live'
  PROVE  Done(r)' <= Done(r)
  <1>0. r \in Rids
    BY DEF TypeOK
  <1>1. Done(r) \in Int /\ Done(r)' \in Int /\ Len(ToksOf(r)) \in Nat /\ Len(Plus(r)) \in Nat
    <2>1. Done(r) \in Int /\ Done(r)' \in Int /\ Len(Plus(r)) \in Nat
      BY <1>0, DoneBounds
    <2>2. ToksOf(r) \in Seq(Tokens)
      BY <1>0, ReqTypes
    <2>3. QED
      BY <2>1, <2>2
  <1>2. Done(r)' = Done(r) => Done(r)' <= Done(r)
    BY <1>1
  <1>3. CASE Staying \/ Submitting
    <2>1. UNCHANGED <<req, admitted, settling, emitting, verified>>
      BY <1>3, StayingStays DEF places, Submitting, Submit, batch
    <2>2. pc \in {"pad", "failed"} => pc' \in {"pad", "failed"}
      <3>1. CASE Quiet
        BY <3>1 DEF Quiet, BeginStep, EndSettle, NothingActive, BeginDraft, EndStep, NothingToRemember, EndEvict, ModelCallRaises
      <3>2. CASE Reserving
        BY <3>2 DEF Reserving, ReserveAdmitted, ReservePadding, ReserveDrafts, DraftsOutOfPages
      <3>3. CASE EndAdmit \/ Remember \/ Evict \/ Submitting
        BY <3>3 DEF EndAdmit, Remember, Evict, Submitting, Submit
      <3>4. QED
        BY <1>3, <3>1, <3>2, <3>3 DEF Staying
    <2>3. Plus(r)' = Plus(r) /\ ToksOf(r)' = ToksOf(r)
      BY <2>1 DEF Plus, ToksOf
    <2>4. QED
      <3>1. CASE r \in Range(admitted) \/ (r \in Range(settling) /\ pc' \in {"pad", "failed"})
        <4>1. Done(r)' = 0
          BY <2>1, <3>1 DEF Done
        <4>2. r \in Range(admitted) \/ r \in Range(settling)
          BY <3>1
        <4>3. Done(r) \in {0, Len(ToksOf(r))}
          BY <4>2 DEF Done
        <4>4. QED
          BY <1>1, <4>1, <4>3
      <3>2. CASE ~(r \in Range(admitted) \/ (r \in Range(settling) /\ pc' \in {"pad", "failed"}))
        <4>1. ~(r \in Range(admitted) \/ (r \in Range(settling) /\ pc \in {"pad", "failed"}))
          BY <2>2, <3>2
        <4>2. Done(r) = IF r \in Range(settling) \/ (r \in Range(emitting) /\ verified[r] = << >>) THEN Len(ToksOf(r))
                        ELSE Len(Plus(r)) - 1
          BY <4>1 DEF Done
        <4>3. Done(r)' = IF r \in Range(settling)' \/ (r \in Range(emitting)' /\ verified'[r] = << >>) THEN Len(ToksOf(r)')
                         ELSE Len(Plus(r)') - 1
          BY <2>1, <3>2 DEF Done
        <4>4. Done(r)' = Done(r)
          BY <2>1, <2>3, <4>2, <4>3
        <4>5. QED
          BY <1>2, <4>4
      <3>3. QED
        BY <3>1, <3>2
  <1>4. ASSUME r \in Range(admitted)' <=> r \in Range(admitted), r \in Range(settling)' <=> r \in Range(settling),
               r \in Range(emitting)' <=> r \in Range(emitting), verified'[r] = verified[r],
               pc \notin {"pad", "failed"}, pc' \notin {"pad", "failed"}, Plus(r)' = Plus(r), ToksOf(r)' = ToksOf(r)
        PROVE  Done(r)' = Done(r)
    <2>1. Done(r) = IF r \in Range(admitted) THEN 0
                    ELSE IF r \in Range(settling) \/ (r \in Range(emitting) /\ verified[r] = << >>) THEN Len(ToksOf(r))
                    ELSE Len(Plus(r)) - 1
      BY <1>4 DEF Done
    <2>2. Done(r)' = IF r \in Range(admitted)' THEN 0
                     ELSE IF r \in Range(settling)' \/ (r \in Range(emitting)' /\ verified'[r] = << >>) THEN Len(ToksOf(r)')
                     ELSE Len(Plus(r)') - 1
      BY <1>4 DEF Done
    <2>3. QED
      BY <1>4, <2>1, <2>2
  <1>5. CASE Admit
    <2>1. /\ nextRid \notin Live /\ nextRid \in Rids /\ admitted' = Append(admitted, nextRid) /\ pc = "admit" /\ pc' = "reserve"
          /\ UNCHANGED <<settling, emitting, verified>>
      BY <1>5, AdmitFacts
    <2>2. Range(admitted') = Range(admitted) \cup {nextRid}
      BY <2>1, AppendOne DEF Placed
    <2>3. Plus(r)' = Plus(r) /\ ToksOf(r)' = ToksOf(r)
      BY <1>5, PlusStays DEF Admit, Settle, Emit
    <2>4. QED
      BY <1>2, <1>4, <2>1, <2>2, <2>3
  <1>6. CASE TakeGroup
    <2>1. pc = "prefill" /\ pc' = "pad" /\ settling = << >> /\ emitting = << >> /\ UNCHANGED <<req, emitting, verified>>
      BY <1>6, TakeLive
    <2>2. Range(settling') \subseteq Range(admitted) /\ Range(admitted') = Range(admitted) \ Range(settling')
      BY <1>6, TakeFacts
    <2>3. CASE r \in Range(admitted)
      <3>1. r \in Range(admitted') \/ r \in Range(settling')
        BY <2>2, <2>3
      <3>2. Done(r)' = 0 /\ Done(r) = 0
        BY <2>1, <2>3, <3>1 DEF Done
      <3>3. QED
        BY <1>2, <3>2
    <2>4. CASE r \notin Range(admitted)
      <3>1. r \notin Range(admitted') /\ r \notin Range(settling') /\ r \notin Range(settling) /\ r \notin Range(emitting) /\ r \notin Range(emitting')
        BY <2>1, <2>2, <2>4, EmptyRange
      <3>2. Done(r) = Len(Plus(r)) - 1 /\ Done(r)' = Len(Plus(r)') - 1
        BY <2>4, <3>1 DEF Done
      <3>3. Plus(r)' = Plus(r)
        BY <2>1 DEF Plus, ToksOf
      <3>4. QED
        BY <1>2, <3>2, <3>3
    <2>5. QED
      BY <2>3, <2>4
  <1>7. CASE Settle \/ Emit
    <2>1. PICK s \in Rids, toks \in Seq(Tokens) : Hands(s, toks)
      BY <1>7, HandsExist
    <2>2. /\ pc \in {"settle", "emit"} /\ pc' \in {pc, "remember"} /\ admitted' = admitted /\ s \notin Range(admitted)
          /\ \/ pc = "settle" /\ settling # << >> /\ s = Head(settling) /\ settling' = Tail(settling) /\ emitting = << >> /\ emitting' = emitting
                /\ verified[s] = << >>
             \/ pc = "emit" /\ emitting # << >> /\ s = Head(emitting) /\ emitting' = Tail(emitting) /\ settling = << >> /\ settling' = settling
      <3>1. pc' \in {pc, "remember"}
        BY <2>1, HandsFacts
      <3>2. QED
        BY <2>1, <3>1 DEF Hands
    <2>3. settling \in Seq(Rids) /\ emitting \in Seq(Rids) /\ IsInjective(settling) /\ IsInjective(emitting)
      BY DEF Placed
    <2>4. /\ settling # << >> => Range(settling) = Range(Tail(settling)) \cup {Head(settling)} /\ Head(settling) \notin Range(Tail(settling))
          /\ emitting # << >> => Range(emitting) = Range(Tail(emitting)) \cup {Head(emitting)} /\ Head(emitting) \notin Range(Tail(emitting))
      BY <2>3, HeadTail
    <2>5. CASE r # s
      <3>1. Plus(r)' = Plus(r) /\ ToksOf(r)' = ToksOf(r) /\ verified'[r] = verified[r]
        BY <1>0, <2>1, <2>5, HandsPlus
      <3>2. (r \in Range(settling') <=> r \in Range(settling)) /\ (r \in Range(emitting') <=> r \in Range(emitting))
        <4>1. CASE pc = "settle"
          <5>1. s = Head(settling) /\ settling # << >> /\ settling' = Tail(settling) /\ emitting' = emitting
            BY <2>2, <4>1
          <5>2. Range(settling) = Range(Tail(settling)) \cup {s}
            BY <2>4, <5>1
          <5>3. r \in Range(Tail(settling)) <=> r \in Range(settling)
            BY <2>5, <5>2
          <5>4. QED
            BY <5>1, <5>3
        <4>2. CASE pc = "emit"
          <5>1. s = Head(emitting) /\ emitting # << >> /\ emitting' = Tail(emitting) /\ settling' = settling
            BY <2>2, <4>2
          <5>2. Range(emitting) = Range(Tail(emitting)) \cup {s}
            BY <2>4, <5>1
          <5>3. r \in Range(Tail(emitting)) <=> r \in Range(emitting)
            BY <2>5, <5>2
          <5>4. QED
            BY <5>1, <5>3
        <4>3. QED
          BY <2>2, <4>1, <4>2
      <3>3. pc \notin {"pad", "failed"} /\ pc' \notin {"pad", "failed"}
        BY <2>2
      <3>4. Done(r)' = Done(r)
        BY <1>4, <2>2, <3>1, <3>2, <3>3
      <3>5. QED
        BY <1>2, <3>4
    <2>6. CASE r = s
      <3>1. r \notin Range(settling') /\ r \notin Range(emitting') /\ r \notin Range(admitted')
        BY <2>2, <2>4, <2>6, EmptyRange
      <3>2. Done(r)' = Len(Plus(r)') - 1
        BY <3>1 DEF Done
      <3>3. PICK a, b, c, d : a = Len(ToksOf(r)) /\ b = Len(Taken(r, toks)) /\ c = Len(Plus(r)) /\ d = Len(Plus(r)')
        OBVIOUS
      <3>4. /\ d = a + b /\ a \in Nat /\ b \in Nat /\ c \in Nat
            /\ verified[r] = << >> => b = 1
            /\ verified[r] # << >> => d <= c
        BY <1>1, <2>1, <2>6, <3>3, HandsPlus
      <3>5. CASE verified[r] = << >>
        <4>1. Done(r) = a
          <5>1. r \in Range(settling) \/ r \in Range(emitting)
            BY <2>2, <2>4, <2>6
          <5>2. r \notin Range(admitted) /\ pc \notin {"pad", "failed"}
            BY <2>2, <2>6
          <5>3. QED
            BY <3>3, <3>5, <5>1, <5>2 DEF Done
        <4>2. b = 1 /\ d = a + 1
          BY <3>4, <3>5
        <4>3. PICK e : e = Done(r)'
          OBVIOUS
        <4>4. e = d - 1
          BY <3>2, <3>3, <4>3
        <4>5. e = a
          BY <3>4, <4>2, <4>4
        <4>6. QED
          BY <1>2, <4>1, <4>3, <4>5
      <3>6. CASE verified[r] # << >>
        <4>1. r \notin Range(settling) /\ r \notin Range(admitted)
          BY <2>2, <2>6, <3>6, EmptyRange
        <4>2. Done(r) = c - 1
          BY <3>3, <3>6, <4>1 DEF Done
        <4>3. QED
          BY <3>2, <3>3, <3>4, <3>6, <4>2
      <3>7. QED
        BY <3>5, <3>6
    <2>7. QED
      BY <2>5, <2>6
  <1>8. CASE Free
    <2>1. /\ pc = "free" /\ pc' = (IF padTo > 0 THEN "settle" ELSE "emit") /\ UNCHANGED <<admitted, settling, emitting, verified>>
      BY <1>8, FreeFacts
    <2>2. Plus(r)' = Plus(r) /\ ToksOf(r)' = ToksOf(r)
      BY <2>1, PlusStays, <1>8 DEF Settle, Emit
    <2>3. pc \notin {"pad", "failed"} /\ pc' \notin {"pad", "failed"}
      BY <2>1
    <2>4. QED
      BY <1>2, <1>4, <2>1, <2>2, <2>3
  <1>9. CASE StartOnline
    BY <1>9, StartOnlineFacts
  <1>10. QED
    BY <1>3, <1>5, <1>6, <1>7, <1>8, <1>9, NextCases

-----------------------------------------------------------------------------
(* Without the prefix cache every slot a request reads is complete *)

LEMMA OwnTableStays ==
  ASSUME TypeOK, Placed, Phases, Requests, Cached, Planned, Placed', Next, ~Reserving, NEW r \in Live, r \in Live'
  PROVE  table'[TableOf(r)] = table[TableOf(r)]
  <1>1. r \in Rids /\ TableOf(r) \in Owners /\ (Free => r # retiring)
    <2>1. Admit /\ r = nextRid => FALSE
      BY AdmitFacts
    <2>2. QED
      BY <2>1, LiveMoves, OwnerFacts
  <1>2. CASE UNCHANGED <<free, table>>
    BY <1>2
  <1>3. CASE Remember /\ Aliases(TableOf(retiring), KeptBy(retiring), FullPages(retiring)) /\ retiring \in Rids
    BY <1>1, <1>3, OwnerFacts, AliasesTables
  <1>4. ASSUME Admit, NEW q, nextRid \in Rids, Route(q.prompt) \in Rids,
               Aliases(KeptBy(Route(q.prompt)), TableOf(nextRid), Depth(q.prompt) \div PageSize)
        PROVE  table'[TableOf(r)] = table[TableOf(r)]
    <2>1. r # nextRid
      BY <1>4, AdmitFacts
    <2>2. TableOf(r) # TableOf(nextRid)
      BY <1>1, <1>4, <2>1, OwnerFacts
    <2>3. QED
      BY <1>1, <1>4, <2>2, OwnerFacts, AliasesTables
  <1>5. CASE Evict /\ Releases(KeptBy(Head(lru))) /\ Head(lru) \in Rids
    BY <1>1, <1>5, OwnerFacts, ReleasesTables
  <1>6. CASE Free /\ Releases(TableOf(retiring)) /\ retiring \in Rids
    BY <1>1, <1>6, OwnerFacts, ReleasesTables
  <1>7. QED
    BY <1>2, <1>3, <1>4, <1>5, <1>6, TableMoves

LEMMA PlusAgrees ==
  ASSUME TypeOK, TypeOK', Placed, Phases, Requests, Cached, Planned, Placed', Next, NEW r \in Live, r \in Live'
  PROVE  Agrees(Plus(r), Plus(r)')
  <1>0. r \in Rids /\ r # 0 /\ Plus(r) \in Seq(Tokens)
    <2>1. r \in Rids
      BY DEF TypeOK
    <2>2. r # 0
      BY <2>1, Sizes DEF Rids
    <2>3. QED
      BY <2>1, <2>2, PlusTypes
  <1>1. CASE Settle \/ Emit
    <2>1. PICK s \in Rids, toks \in Seq(Tokens) : Hands(s, toks)
      BY <1>1, HandsExist
    <2>2. CASE r = s
      BY <2>1, <2>2, HandsPlus
    <2>3. CASE r # s
      <3>1. Plus(r)' = Plus(r)
        BY <1>0, <2>1, <2>3, HandsPlus
      <3>2. QED
        BY <1>0, <3>1, AgreesParts
    <2>4. QED
      BY <2>2, <2>3
  <1>2. CASE Decoding
    BY <1>0, <1>2, PlusMoves, DecodingFacts
  <1>3. CASE ~Settle /\ ~Emit /\ ~Decoding
    <2>1. Plus(r)' = Plus(r)
      BY <1>3, PlusStays
    <2>2. QED
      BY <1>0, <2>1, AgreesParts
  <1>4. QED
    BY <1>1, <1>2, <1>3

\* The KV of a position that was complete is that of the tokens after the step.
LEMMA CompleteStays ==
  ASSUME TypeOK, TypeOK', Placed, Phases, Requests, Cached, Planned, Placed', Next, ExactKV, Capacity = 0,
         NEW r \in Live, r \in Live', NEW i \in Nat, i < Done(r), i < Done(r)'
  PROVE  SlotOf(kv, table, TableOf(r), i) = Prefix(Plus(r)', i)
  <1>0. r \in Rids /\ Plus(r) \in Seq(Tokens) /\ Plus(r)' \in Seq(Tokens)
    BY PlusTypes DEF TypeOK
  <1>1. /\ Done(r) \in Int /\ Done(r) <= Len(Plus(r)) /\ Len(Plus(r)) \in Nat
        /\ Done(r)' \in Int /\ Done(r)' <= Len(Plus(r)') /\ Len(Plus(r)') \in Nat
    BY <1>0, DoneBounds
  <1>2. PICK a, b, c, d : a = Done(r) /\ b = Len(Plus(r)) /\ c = Done(r)' /\ d = Len(Plus(r)')
    OBVIOUS
  <1>3. i < a /\ a <= b /\ a \in Int /\ b \in Nat /\ i < c /\ c <= d /\ c \in Int /\ d \in Nat
    BY <1>1, <1>2
  <1>4. i < b /\ i < d /\ i \in 0..a - 1
    BY <1>3
  <1>5. SlotOf(kv, table, TableOf(r), i) = Prefix(Plus(r), i)
    BY <1>2, <1>4 DEF ExactKV
  <1>6. PICK s, t : s = Plus(r) /\ t = Plus(r)'
    OBVIOUS
  <1>7. \A j \in 1..i + 1 : s[j] = t[j]
    <2>1. Agrees(s, t)
      BY <1>6, PlusAgrees
    <2>2. QED
      BY <1>0, <1>2, <1>3, <1>4, <1>6, <2>1 DEF Agrees
  <1>8. Prefix(s, i) = Prefix(t, i)
    BY <1>0, <1>2, <1>4, <1>6, <1>7, PrefixSame
  <1>9. QED
    BY <1>5, <1>6, <1>8

\* A pass completes what it says.
LEMMA ExactPass ==
  ASSUME TypeOK, TypeOK', Pool!PoolInv, Placed, Phases, Requests, Cached, Covered, Planned, Sharing, Placed', Next,
         ExactKV, Capacity = 0, emitting = << >>, NEW R, NEW toks, NEW P, Pass(R, toks, P), Completes(R, toks, P),
         NEW r \in Live', NEW i \in 0..Done(r)' - 1
  PROVE  SlotOf(kv', table', TableOf(r), i) = Prefix(Plus(r)', i)
  <1>1. /\ r \in Live /\ table' = table /\ kv' = Scatter(Written(R, toks, P))
        /\ r \notin R => Done(r)' = Done(r)
        /\ r \in R => Done(r)' = Len(toks[r]) /\ (i \in P[r] \/ i < Done(r))
    <2>1. r \in Live /\ table' = table /\ kv' = Scatter(Written(R, toks, P))
      BY DEF Pass, Completes
    <2>2. r \notin R => Done(r)' = Done(r)
      BY <2>1 DEF Completes
    <2>3. r \in R => Done(r)' = Len(toks[r]) /\ \A j \in 0..Len(toks[r]) - 1 : j \in P[r] \/ j < Done(r)
      BY DEF Completes
    <2>4. r \in R => i \in 0..Len(toks[r]) - 1
      BY <2>3
    <2>5. QED
      BY <2>1, <2>2, <2>3, <2>4
  <1>2. r \in Rids /\ TableOf(r) \in Owners /\ TableOf(r) \in Holders /\ Plus(r)' \in Seq(Tokens)
    <2>1. r \in Rids
      BY <1>1 DEF TypeOK
    <2>2. QED
      BY <1>1, <2>1, OwnerFacts, PlusTypes DEF Holders
  <1>3. PICK o, k, off : o = TableOf(r) /\ k = i \div PageSize + 1 /\ off = i % PageSize
    OBVIOUS
  <1>4. i \in Nat /\ i < Done(r)'
    <2>1. Done(r)' \in Int
      BY <1>2, DoneBounds
    <2>2. PICK d : d = Done(r)'
      OBVIOUS
    <2>3. d \in Int /\ i \in 0..d - 1
      BY <2>1, <2>2
    <2>4. QED
      BY <2>2, <2>3
  <1>5. i < Len(table[o]) * PageSize
    <2>1. CASE r \in R /\ i \in P[r]
      BY <1>3, <2>1 DEF Pass
    <2>2. CASE i < Done(r)
      BY <1>1, <1>3, <1>4, <2>2, DoneCovered
    <2>3. QED
      BY <1>1, <1>4, <2>1, <2>2
  <1>6. i \in Positions(table, o) /\ k \in DOMAIN table[o] /\ table[o][k] \in Pages /\ off \in 0..PageSize - 1
    <2>1. k \in DOMAIN table[o] /\ table[o][k] \in Pages /\ off \in 0..PageSize - 1
      BY <1>2, <1>3, <1>4, <1>5, PositionInTable
    <2>2. table[o] \in Seq(Pages)
      BY <1>2, <1>3, PoolTypes
    <2>3. QED
      BY <1>3, <1>4, <2>1, <2>2, PositionBack DEF Positions
  <1>7. SlotOf(kv', table', o, i) = kv'[table[o][k]][off] /\ SlotOf(kv, table, o, i) = kv[table[o][k]][off]
    BY <1>1, <1>3 DEF SlotOf
  <1>8. CASE /\ kv'[table[o][k]][off] = kv[table[o][k]][off]
             /\ \A x \in Written(R, toks, P) : ~(PageAt(x.rid, x.pos) = table[o][k] /\ x.pos % PageSize = off)
    <2>1. ~(r \in R /\ i \in P[r])
      <3>1. SUFFICES ASSUME r \in R, i \in P[r] PROVE FALSE
        OBVIOUS
      <3>2. PICK x \in Written(R, toks, P) : x.rid = r /\ x.pos = i
        BY <3>1, WrittenAt
      <3>3. PageAt(x.rid, x.pos) = table[o][k] /\ x.pos % PageSize = off
        BY <1>3, <3>2 DEF PageAt
      <3>4. QED
        BY <1>8, <3>2, <3>3
    <2>2. i < Done(r)
      BY <1>1, <1>4, <2>1
    <2>3. SlotOf(kv, table, o, i) = Prefix(Plus(r)', i)
      BY <1>1, <1>3, <1>4, <2>2, CompleteStays
    <2>4. QED
      BY <1>3, <1>7, <1>8, <2>3
  <1>9. ASSUME NEW x \in Written(R, toks, P), PageAt(x.rid, x.pos) = table[o][k], x.pos % PageSize = off,
               kv'[table[o][k]][off] = x.val
        PROVE  SlotOf(kv', table', TableOf(r), i) = Prefix(Plus(r)', i)
    <2>1. PICK s : s = x.rid
      OBVIOUS
    <2>2. x.pos = i /\ s \in R /\ s \in Rids
      <3>1. Hits(x, o, i)
        BY <1>3, <1>9 DEF Hits
      <3>2. QED
        BY <1>2, <1>3, <1>6, <2>1, <3>1, WrittenSlot
    <2>3. i < Len(table[TableOf(s)]) * PageSize /\ i \in P[s]
          /\ x.val = (IF i < Len(toks[s]) THEN SubSeq(toks[s], 1, i + 1) ELSE << >>)
      <3>1. i \in P[s] /\ x.val = (IF i < Len(toks[s]) THEN SubSeq(toks[s], 1, i + 1) ELSE << >>)
        BY <2>1, <2>2, WrittenFacts
      <3>2. QED
        BY <2>2, <3>1 DEF Pass
    <2>4. s = r
      <3>1. TableOf(s) \in Owners
        BY <2>2, OwnerFacts
      <3>2. k \in DOMAIN table[TableOf(s)] /\ table[TableOf(s)][k] = table[o][k]
        <4>1. k \in DOMAIN table[TableOf(s)]
          BY <1>3, <1>4, <2>3, <3>1, PositionInTable
        <4>2. PageAt(s, i) = table[TableOf(s)][k]
          BY <1>3 DEF PageAt
        <4>3. QED
          BY <1>9, <2>1, <2>2, <4>1, <4>2
      <3>3. table[o][k] \in Range(table[TableOf(s)]) /\ table[o][k] \in Range(table[o])
        BY <1>6, <3>2 DEF Range
      <3>4. o = TableOf(s)
        BY <1>2, <1>3, <3>1, <3>3 DEF Sharing, NoSharing, Disjoint
      <3>5. QED
        BY <1>2, <1>3, <2>2, <3>4, OwnerFacts
    <2>5. PICK t, u : t = toks[r] /\ u = Plus(r)'
      OBVIOUS
    <2>6. t \in Seq(Tokens) /\ u \in Seq(Tokens) /\ i < Len(t) /\ Len(t) <= Len(u) /\ \A j \in 1..Len(t) : t[j] = u[j]
      <3>1. r \in R /\ t \in Seq(Tokens)
        BY <2>2, <2>4, <2>5 DEF Pass
      <3>2. Done(r)' = Len(t) /\ Len(t) <= Len(u) /\ \A j \in 1..Len(t) : t[j] = u[j]
        BY <2>5, <3>1 DEF Completes
      <3>3. QED
        BY <1>2, <1>4, <2>5, <3>1, <3>2
    <2>7. Prefix(t, i) = Prefix(u, i)
      <3>1. i < Len(u) /\ \A j \in 1..i + 1 : t[j] = u[j]
        BY <1>4, <2>6
      <3>2. QED
        BY <1>4, <2>6, <3>1, PrefixSame
    <2>8. x.val = Prefix(t, i)
      BY <2>3, <2>4, <2>5, <2>6 DEF Prefix
    <2>9. QED
      BY <1>3, <1>7, <1>9, <2>5, <2>7, <2>8
  <1>10. \/ /\ kv'[table[o][k]][off] = kv[table[o][k]][off]
            /\ \A x \in Written(R, toks, P) : ~(PageAt(x.rid, x.pos) = table[o][k] /\ x.pos % PageSize = off)
         \/ \E x \in Written(R, toks, P) : /\ PageAt(x.rid, x.pos) = table[o][k] /\ x.pos % PageSize = off
                                           /\ kv'[table[o][k]][off] = x.val
    <2>1. PICK p : p = table[o][k]
      OBVIOUS
    <2>2. p \in Pages /\ off \in 0..PageSize - 1
      BY <1>6, <2>1
    <2>3. QED
      BY <1>1, <2>1, <2>2, ScatterFacts
  <1>11. QED
    BY <1>8, <1>9, <1>10

LEMMA ExactKVStep ==
  ASSUME TypeOK, Pool!PoolInv, Placed, Phases, Requests, Cached, Covered, Planned, Sharing, ExactKV, Next,
         TypeOK', Placed'
  PROVE  ExactKV'
  <1> SUFFICES ASSUME Capacity = 0, NEW r \in Live', NEW i \in 0..Done(r)' - 1
               PROVE  SlotOf(kv', table', TableOf(r), i) = Prefix(Plus(r)', i)
    BY DEF ExactKV
  <1>0. r \in Rids /\ (r \in Live \/ (Admit /\ r = nextRid))
    BY LiveMoves
  <1>1. i \in Nat /\ i < Done(r)'
    <2>1. Done(r)' \in Int
      BY <1>0, DoneBounds
    <2>2. PICK d : d = Done(r)'
      OBVIOUS
    <2>3. d \in Int /\ i \in 0..d - 1
      BY <2>1, <2>2
    <2>4. QED
      BY <2>2, <2>3
  <1>2. CASE Admit /\ r = nextRid
    <2>1. admitted' = Append(admitted, r) /\ admitted \in Seq(Rids)
      BY <1>2, AdmitFacts DEF Placed
    <2>2. r \in Range(admitted')
      BY <1>0, <2>1, AppendOne DEF Placed
    <2>3. Done(r)' = 0
      BY <2>2 DEF Done
    <2>4. QED
      BY <1>1, <2>3
  <1>3. CASE r \in Live /\ (Forward \/ Decoding)
    <2>1. PICK R, toks, P : Pass(R, toks, P) /\ Completes(R, toks, P)
      BY <1>3, ForwardPass, DecodePass, VerifyPass DEF Decoding
    <2>2. emitting = << >>
      <3>1. Forward => emitting = << >>
        BY DEF Forward, Phases, Retirement
      <3>2. QED
        BY <1>3, <3>1, DecodingFacts
    <2>3. QED
      BY <2>1, <2>2, ExactPass
  <1>4. CASE r \in Live /\ ~Forward /\ ~Decoding
    <2>1. i < Done(r)
      <3>1. Done(r)' <= Done(r)
        BY <1>4, DoneStays
      <3>2. Done(r) \in Int /\ Done(r)' \in Int
        BY <1>0, DoneBounds
      <3>3. PICK a, b : a = Done(r) /\ b = Done(r)'
        OBVIOUS
      <3>4. a \in Int /\ b \in Int /\ b <= a /\ i < b
        BY <1>1, <3>1, <3>2, <3>3
      <3>5. QED
        BY <1>1, <3>3, <3>4
    <2>2. SlotOf(kv, table, TableOf(r), i) = Prefix(Plus(r)', i)
      BY <1>1, <1>4, <2>1, CompleteStays
    <2>3. SlotOf(kv', table', TableOf(r), i) = SlotOf(kv, table, TableOf(r), i)
      <3>1. CASE ~Reserving
        <4>1. kv' = kv
          BY <1>4, <3>1, KVMoves
        <4>2. QED
          BY <1>4, <3>1, <4>1, OwnTableStays DEF SlotOf
      <3>2. CASE Reserving
        <4>1. ForgetFresh /\ emitting = << >>
          BY <3>2 DEF Reserving, ReserveAdmitted, ReservePadding, ReserveDrafts, DraftsOutOfPages, Phases, Retirement
        <4>2. PICK o, k : o = TableOf(r) /\ k = i \div PageSize + 1
          OBVIOUS
        <4>3. o \in Owners /\ k \in DOMAIN table[o] /\ k \in 1..Len(table[o]) /\ table[o][k] \in Pages
          <5>1. o \in Owners /\ i < Len(table[o]) * PageSize
            BY <1>0, <1>1, <1>4, <2>1, <4>1, <4>2, DoneCovered, OwnerFacts
          <5>2. QED
            BY <1>1, <4>2, <5>1, PositionInTable
        <4>4. ~Free
          BY <3>2 DEF Reserving, ReserveAdmitted, ReservePadding, ReserveDrafts, DraftsOutOfPages, Free
        <4>5. table'[o][k] = table[o][k]
          BY <1>0, <4>2, <4>3, <4>4, LiveExtends DEF Extends
        <4>6. table[o][k] \notin free
          <5>1. table[o][k] \in Range(table[o])
            BY <4>3 DEF Range
          <5>2. QED
            BY <4>3, <5>1, FreeUnlisted
        <4>7. kv'[table[o][k]] = kv[table[o][k]]
          BY <4>1, <4>3, <4>6 DEF ForgetFresh
        <4>8. QED
          BY <4>2, <4>5, <4>7 DEF SlotOf
      <3>3. QED
        BY <3>1, <3>2
    <2>4. QED
      BY <2>2, <2>3
  <1>5. QED
    BY <1>0, <1>2, <1>3, <1>4

-----------------------------------------------------------------------------
(* The invariant *)

\* The pages aliased at admission hold what the request shares.
SharedHeld ==
  pc = "reserve" => LET r == Last(admitted) IN req[r].shared <= Len(table[TableOf(r)]) * PageSize

LEMMA InitTypes == Init => TypeOK /\ Live = {} /\ Pool!PoolInv
  <1> SUFFICES ASSUME Init PROVE TypeOK /\ Live = {} /\ Pool!PoolInv
    OBVIOUS
  <1>1. Live = {}
    BY EmptyRange DEF Init, Live
  <1>2. << >> \in Seq(Tokens) /\ << >> \in Seq(Rids) /\ << >> \in Seq([ext : Rids, prompt : Prompts, maxNew : MaxNews])
    OBVIOUS
  <1>3. kv \in [Pages -> [0..PageSize - 1 -> Seq(Tokens)]]
    <2>1. [i \in 0..PageSize - 1 |-> << >>] \in [0..PageSize - 1 -> Seq(Tokens)]
      BY <1>2
    <2>2. QED
      BY <2>1 DEF Init
  <1>4. Pool!TypeOK
    <2>1. << >> \in Seq(Pages)
      OBVIOUS
    <2>2. QED
      BY <2>1 DEF Init, Pool!Init, Pool!TypeOK
  <1>5. req \in [Rids -> ReqSet]
    BY NoRequestType DEF Init
  <1>6. /\ padTo \in 0..MaxSeq /\ failures \in 0..MaxFailures /\ submitted \in 0..MaxRequests /\ nextRid \in 1..MaxRequests + 1
    <2>1. MaxFailures \in Nat
      BY EngineAssumption
    <2>2. QED
      BY <2>1, Sizes DEF Init
  <1>7. TypeOK
    <2>1. entries \in [Rids -> Seq(Tokens)] /\ verified \in [Rids -> Seq(Tokens)] /\ order \in Seq(Rids) /\ lru \in Seq(Rids)
          /\ pending \in Seq([ext : Rids, prompt : Prompts, maxNew : MaxNews]) /\ done \subseteq Rids /\ pc = "idle"
      BY <1>2 DEF Init
    <2>2. QED
      BY <1>1, <1>3, <1>4, <1>5, <1>6, <2>1 DEF TypeOK, ReqSet
  <1>8. Pool!PoolInv
    <2>1. \A p \in Pages : Pool!Referrers(p) = {}
      BY DEF Init, Pool!Init, Pool!Referrers, Pool!Held, Pool!Range
    <2>2. Cardinality({}) = 0
      BY FS_EmptySet
    <2>3. Pool!RefcountExact
      BY <2>1, <2>2, SameCardinality DEF Init, Pool!Init, Pool!RefcountExact
    <2>4. Pool!FreeExact /\ Pool!NoPageTwice
      BY DEF Init, Pool!Init, Pool!FreeExact, Pool!NoPageTwice, Pool!IsInjective
    <2>5. QED
      BY <1>4, <2>3, <2>4 DEF Pool!PoolInv
  <1>9. QED
    BY <1>1, <1>7, <1>8

LEMMA EngineInit == Init => EngineInv /\ SharedHeld
  <1> SUFFICES ASSUME Init PROVE EngineInv /\ SharedHeld
    OBVIOUS
  <1>1. TypeOK /\ Live = {} /\ Pool!PoolInv
    BY InitTypes
  <1>2. /\ pc = "idle" /\ retiring = 0 /\ padTo = 0 /\ order = << >> /\ lru = << >> /\ nextRid = 1 /\ submitted = 0
        /\ admitted = << >> /\ groups = << >> /\ settling = << >> /\ active = << >> /\ emitting = << >> /\ pending = << >>
        /\ verified = [r \in Rids |-> << >>] /\ entries = [r \in Rids |-> << >>] /\ table = [o \in Owners |-> << >>]
    BY DEF Init, Pool!Init
  <1>3. Range(<< >>) = {} /\ IsInjective(<< >>) /\ << >> \in Seq(Rids) /\ Len(<< >>) = 0
    BY EmptyRange
  <1>4. Phases /\ SharedHeld
    BY <1>2 DEF Phases, Retirement, InWave, SharedHeld
  <1>5. Placed
    BY <1>1, <1>2, <1>3 DEF Placed, Disjoint
  <1>6. Requests
    BY <1>1, <1>2, <1>3 DEF Requests
  <1>7. Cached
    <2>1. \A e \in Rids : table[KeptBy(e)] = << >> /\ table[TableOf(e)] = << >> /\ entries[e] = << >>
      BY <1>2, OwnerFacts
    <2>2. Len(<< >>) = Len(<< >>) * PageSize
      <3>1. Len(<< >>) = 0 /\ 0 * PageSize = 0
        BY GroupsAssumption
      <3>2. QED
        BY <3>1
    <2>3. QED
      BY <1>2, <1>3, <2>1, <2>2 DEF Cached
  <1>8. Covered
    BY <1>1, <1>2 DEF Covered
  <1>9. Planned
    BY <1>2 DEF Planned, InWave, Retirement
  <1>10. Holders = {}
    BY <1>1, <1>2, <1>3 DEF Holders
  <1>11. Sharing
    BY <1>1, <1>2, <1>3, <1>10 DEF Sharing, NoSharing, Agreement, Disjoint
  <1>12. CleanKV /\ ExactKV
    BY <1>1, <1>2, <1>3 DEF CleanKV, ExactKV
  <1>13. QED
    BY <1>1, <1>4, <1>5, <1>6, <1>7, <1>8, <1>9, <1>11, <1>12 DEF EngineInv

LEMMA SharedHeldStep ==
  ASSUME TypeOK, Placed, Phases, Requests, Cached, Planned, Next
  PROVE  SharedHeld'
  <1> SUFFICES ASSUME pc' = "reserve", NEW r, r = Last(admitted')
               PROVE  req'[r].shared <= Len(table'[TableOf(r)]) * PageSize
    BY DEF SharedHeld
  <1>1. Admit
    BY DEF Next, Step, Submit, BeginStep, Admit, ReserveAdmitted, EndAdmit, TakeGroup, ReservePadding, Forward, Settle,
           EndSettle, Decode, BeginDraft, ReserveDrafts, DraftsOutOfPages, Verify, NothingActive, Emit, EndStep, Remember,
           NothingToRemember, Evict, EndEvict, Free, ModelCallRaises, StartOnline, TakeTokens
  <1>2. PICK q : q = Head(pending)
    OBVIOUS
  <1>3. /\ nextRid \in Rids /\ admitted' = Append(admitted, nextRid) /\ q.prompt \in Seq(Tokens) /\ q.prompt \in Prompts
        /\ req' = [req EXCEPT ![nextRid] = [ext |-> q.ext, prompt |-> q.prompt, gen |-> << >>,
                                            maxNew |-> q.maxNew, shared |-> SharedTokens(q.prompt)]]
    BY <1>1, <1>2, AdmitFacts
  <1>4. r = nextRid
    BY <1>3, LastAppended DEF Placed
  <1>5. req'[r].shared = SharedTokens(q.prompt)
    <2>1. req \in [Rids -> ReqSet]
      BY DEF TypeOK, ReqSet
    <2>2. req'[r] = [ext |-> q.ext, prompt |-> q.prompt, gen |-> << >>, maxNew |-> q.maxNew, shared |-> SharedTokens(q.prompt)]
      BY <1>3, <1>4, <2>1
    <2>3. QED
      BY <2>2
  <1>6. SharedTokens(q.prompt) \in Nat /\ SharedTokens(q.prompt) <= Depth(q.prompt) /\ Depth(q.prompt) \in Nat
        /\ Depth(q.prompt) % PageSize = 0
    <2>1. q.prompt # << >>
      BY <1>3, EngineAssumption
    <2>2. QED
      BY <1>3, <2>1, SharedTokensFacts, DepthFacts
  <1>7. CASE Depth(q.prompt) < PageSize
    <2>1. \A d \in Nat : d < PageSize /\ d % PageSize = 0 => d = 0
      BY GroupsAssumption
    <2>2. Depth(q.prompt) = 0
      BY <1>6, <1>7, <2>1
    <2>3. SharedTokens(q.prompt) = 0
      BY <1>6, <2>2
    <2>4. Len(table'[TableOf(r)]) \in Nat
      BY <1>3, <1>4, OwnerFacts, TableTypes
    <2>5. PICK n : n = Len(table'[TableOf(r)]) * PageSize
      OBVIOUS
    <2>6. n \in Nat
      BY <2>4, <2>5, TimesFacts
    <2>7. QED
      BY <1>5, <2>3, <2>5, <2>6
  <1>8. CASE /\ Route(q.prompt) \in Rids /\ (Depth(q.prompt) \div PageSize) * PageSize = Depth(q.prompt)
             /\ Pool!Alias(KeptBy(Route(q.prompt)), TableOf(nextRid), Depth(q.prompt) \div PageSize)
    <2>1. Len(table'[TableOf(r)]) = Depth(q.prompt) \div PageSize
      BY <1>3, <1>4, <1>8, OwnerFacts, AliasNative, AliasesTables
    <2>2. Len(table'[TableOf(r)]) * PageSize = Depth(q.prompt)
      BY <1>8, <2>1
    <2>3. QED
      BY <1>5, <1>6, <2>2
  <1>9. QED
    BY <1>1, <1>2, <1>7, <1>8, AdmitMove

-----------------------------------------------------------------------------
(* What the runs check follows from the invariant *)

\* A position below n in a table of at least Ceil(n) pages is on a page of its own when it is past
\* the prompt.
LEMMA PrivatePosition ==
  ASSUME EngineInv, NEW r \in Live, r # retiring, NEW n \in Nat, Ceil(n) <= Len(table[TableOf(r)]),
         NEW i \in Nat, i < n, Len(req[r].prompt) <= i
  PROVE  i \div PageSize < Len(table[TableOf(r)]) /\ refcount[PageAt(r, i)] = 1
  <1>0. TypeOK /\ Pool!PoolInv /\ Placed /\ Requests /\ Sharing
    BY DEF EngineInv
  <1>1. r \in Rids /\ Len(req[r].prompt) \in Nat /\ TableOf(r) \in Owners
    BY <1>0, LiveFacts, OwnerFacts
  <1>2. PICK o, k : o = TableOf(r) /\ k = i \div PageSize + 1
    OBVIOUS
  <1>3. o \in Owners /\ k \in DOMAIN table[o] /\ k \in 1..Len(table[o]) /\ table[o] \in Seq(Pages) /\ Len(table[o]) \in Nat
    <2>1. o \in Owners /\ Ceil(n) <= Len(table[o])
      BY <1>1, <1>2
    <2>2. i < Len(table[o]) * PageSize
      BY <1>0, <2>1, CoveredPosition
    <2>3. QED
      BY <1>0, <1>2, <2>1, <2>2, PositionInTable, PoolTypes
  <1>4. i \div PageSize < Len(table[o])
    <2>1. i \div PageSize \in Nat
      BY DivFacts
    <2>2. QED
      BY <1>2, <1>3, <2>1
  <1>5. k * PageSize > Len(req[r].prompt)
    <2>1. PICK a, b : a = k * PageSize /\ b = Len(req[r].prompt)
      OBVIOUS
    <2>2. k \in Nat
      BY <1>3
    <2>3. a \in Nat /\ b \in Nat /\ i < a /\ b <= i
      BY <1>1, <1>2, <2>1, <2>2, PageInside, TimesFacts
    <2>4. QED
      BY <2>1, <2>3
  <1>6. \A q \in Owners \ {o} : table[o][k] \notin Range(table[q])
    BY <1>0, <1>2, <1>3, <1>5 DEF Sharing, Private
  <1>7. table[o][k] \in Range(table[o])
    BY <1>3 DEF Range
  <1>8. refcount[table[o][k]] = 1
    BY <1>0, <1>3, <1>6, <1>7, CountedOnce
  <1>9. QED
    BY <1>2, <1>4, <1>8 DEF PageAt

LEMMA PrivatePages == EngineInv => DecodePagesPrivate
  <1> DEFINE Alone(r, i) == i \div PageSize < Len(table[TableOf(r)]) /\ refcount[PageAt(r, i)] = 1
  <1>1. ASSUME EngineInv PROVE DecodePagesPrivate
    <2>0. TypeOK /\ Pool!PoolInv /\ Phases /\ Placed /\ Requests /\ Covered
      BY <1>1 DEF EngineInv
    <2>1. ASSUME NEW r \in Live
          PROVE  /\ r \in Rids /\ Len(req[r].prompt) \in Nat \ {0} /\ req[r].maxNew \in Nat /\ req[r].shared \in Nat
                 /\ ToksOf(r) \in Seq(Tokens) /\ Len(ToksOf(r)) \in Nat /\ Len(table[TableOf(r)]) \in Nat
                 /\ r \in Range(active) => /\ Len(req[r].prompt) <= Len(ToksOf(r)) - 1
                                           /\ Len(ToksOf(r)) <= Len(req[r].prompt) + req[r].maxNew
      <3>1. /\ r \in Rids /\ Len(req[r].prompt) \in Nat \ {0} /\ req[r].maxNew \in Nat /\ req[r].shared \in Nat
            /\ ToksOf(r) \in Seq(Tokens) /\ Len(ToksOf(r)) = Len(req[r].prompt) + Len(req[r].gen)
            /\ req[r].gen \in Seq(Tokens) /\ Len(req[r].gen) <= req[r].maxNew
        BY <2>0, LiveFacts
      <3>2. r \in Range(active) => req[r].gen # << >>
        BY <2>0 DEF Requests
      <3>3. PICK a, b, m, g, l : a = Len(req[r].prompt) /\ b = Len(req[r].gen) /\ m = req[r].maxNew /\ g = req[r].gen
                                 /\ l = Len(ToksOf(r))
        OBVIOUS
      <3>4. a \in Nat /\ b \in Nat /\ m \in Nat /\ b <= m /\ l = a + b /\ (g # << >> => b # 0)
        BY <3>1, <3>3
      <3>5. l \in Nat /\ l <= a + m /\ (b # 0 => a <= l - 1)
        BY <3>4
      <3>6. Len(ToksOf(r)) \in Nat /\ (r \in Range(active) => a <= Len(ToksOf(r)) - 1 /\ Len(ToksOf(r)) <= a + m)
        BY <3>2, <3>3, <3>4, <3>5
      <3>7. Len(table[TableOf(r)]) \in Nat
        BY <2>0, <3>1, OwnerFacts, PoolTypes
      <3>8. QED
        BY <3>1, <3>3, <3>6, <3>7
    <2>2. ASSUME NEW r \in Range(active), NEW i \in (Len(ToksOf(r)) - 1) .. (Len(req[r].prompt) + req[r].maxNew - 1)
          PROVE  Alone(r, i)
      <3>1. r \in Live /\ r # retiring /\ r \notin Range(admitted)
        BY <2>0 DEF Live, Placed, Disjoint
      <3>2. PICK a, m, t : a = Len(req[r].prompt) /\ m = req[r].maxNew /\ t = Len(ToksOf(r))
        OBVIOUS
      <3>3. a \in Nat \ {0} /\ m \in Nat /\ t \in Nat /\ a <= t - 1 /\ i \in t - 1 .. a + m - 1
        BY <2>1, <2>2, <3>1, <3>2
      <3>4. a + m \in Nat /\ i \in Nat /\ i < a + m /\ a <= i
        BY <3>3
      <3>5. Ceil(a + m) <= Len(table[TableOf(r)])
        <4>1. pc = "reserve" => Last(admitted) \in Range(admitted)
          BY <2>0, LastFacts DEF Phases, Placed
        <4>2. QED
          BY <2>0, <3>1, <3>2, <4>1 DEF Covered
      <3>6. QED
        BY <1>1, <3>1, <3>2, <3>4, <3>5, PrivatePosition
    <2>3. ASSUME pc = "pad", Unpadded = {}, NEW r \in Range(settling),
                 NEW i \in Len(req[r].prompt) .. (req[r].shared + padTo - 1)
          PROVE  Alone(r, i)
      <3>1. r \in Live /\ r # retiring /\ padTo \in Nat
        BY <2>0, Sizes DEF Live, Placed, TypeOK
      <3>2. PICK a, s : a = Len(req[r].prompt) /\ s = req[r].shared
        OBVIOUS
      <3>3. a \in Nat /\ s \in Nat /\ i \in a .. s + padTo - 1 /\ Len(table[TableOf(r)]) \in Nat
        BY <2>1, <2>3, <3>1, <3>2
      <3>4. s + padTo \in Nat /\ i \in Nat /\ i < s + padTo /\ a <= i
        BY <3>1, <3>3
      <3>5. Ceil(s + padTo) <= Len(table[TableOf(r)])
        <4>1. ~(Pool!Missing(TableOf(r), Ceil(s + padTo)) > 0)
          BY <2>3, <3>2 DEF Unpadded
        <4>2. Ceil(s + padTo) \in Nat
          BY <3>4, CeilType
        <4>3. QED
          BY <3>3, <4>1, <4>2 DEF Pool!Missing
      <3>6. QED
        BY <1>1, <3>1, <3>2, <3>4, <3>5, PrivatePosition
    <2>4. ASSUME pc = "draft", Uncovered = << >>, NEW r \in Range(active),
                 NEW i \in (Len(ToksOf(r)) - 1) .. (Len(ToksOf(r)) + SpecK - 1)
          PROVE  Alone(r, i)
      <3>1. r \in Live /\ r # retiring
        BY <2>0 DEF Live, Placed
      <3>2. PICK a, t : a = Len(req[r].prompt) /\ t = Len(ToksOf(r))
        OBVIOUS
      <3>3. a \in Nat \ {0} /\ t \in Nat /\ a <= t - 1 /\ i \in t - 1 .. t + SpecK - 1 /\ Len(table[TableOf(r)]) \in Nat
        BY <2>1, <2>4, <3>1, <3>2
      <3>4. t + SpecK \in Nat /\ i \in Nat /\ i < t + SpecK /\ a <= i
        BY <3>3, Sizes
      <3>5. Ceil(t + SpecK) <= Len(table[TableOf(r)])
        <4>1. Pool!Missing(TableOf(r), Ceil(t + SpecK)) <= 0
          BY <2>0, <2>4, <3>2, UncoveredFacts DEF DraftPages
        <4>2. Ceil(t + SpecK) \in Nat
          BY <3>4, CeilType
        <4>3. QED
          BY <3>3, <4>1, <4>2 DEF Pool!Missing
      <3>6. QED
        BY <1>1, <3>1, <3>2, <3>4, <3>5, PrivatePosition
    <2>5. QED
      BY <2>2, <2>3, <2>4 DEF DecodePagesPrivate
  <1>2. QED
    BY <1>1

LEMMA PromisedPages == EngineInv => ReserveNeverFails
  <1>1. ASSUME EngineInv, pc = "reserve", NEW r, r = Last(admitted)
        PROVE  Pool!Missing(TableOf(r), Ceil(Len(req[r].prompt) + req[r].maxNew)) <= Cardinality(free)
    <2>0. TypeOK /\ Phases /\ Placed /\ Requests /\ Covered
      BY <1>1 DEF EngineInv
    <2>1. r \in Live
      BY <1>1, <2>0, LastFacts DEF Phases, Placed, Live
    <2>2. PICK a, m : a = Len(req[r].prompt) /\ m = req[r].maxNew
      OBVIOUS
    <2>3. a \in Nat /\ m \in Nat /\ r \in Rids
      BY <2>0, <2>1, <2>2, LiveFacts
    <2>4. Ceil(a + m) <= Cardinality(free)
      BY <1>1, <2>0, <2>2 DEF Covered
    <2>5. Ceil(a + m) \in Nat /\ Cardinality(free) \in Nat /\ Len(table[TableOf(r)]) \in Nat
      <3>1. a + m \in Nat
        BY <2>3
      <3>2. QED
        BY <2>0, <2>3, <3>1, CeilType, PoolTypes, OwnerFacts
    <2>6. QED
      BY <2>2, <2>4, <2>5 DEF Pool!Missing
  <1>2. ASSUME EngineInv, pc = "pad"
        PROVE  Cardinality(Short) <= Cardinality(free)
    <2>0. TypeOK /\ Placed /\ Requests /\ Planned
      BY <1>2 DEF EngineInv
    <2> DEFINE S == LackingAll(groups) \cup Short
    <2>1. Grouping(Rows(Range(admitted)), groups) /\ Cardinality(S) <= Cardinality(free)
      BY <1>2, <2>0 DEF Planned, InWave, Rows
    <2>2. IsFiniteSet(S)
      BY <2>0, <2>1, LackingRids, ShortFinite, FS_Union
    <2>3. Short \subseteq S
      OBVIOUS
    <2> HIDE DEF S
    <2>4. Cardinality(Short) <= Cardinality(S) /\ Cardinality(S) \in Nat /\ Cardinality(Short) \in Nat
      BY <2>2, <2>3, FS_Subset, FS_CardinalityType
    <2>5. Cardinality(free) \in Nat
      BY <2>0, PoolTypes
    <2>6. QED
      BY <2>1, <2>4, <2>5
  <1>3. QED
    BY <1>1, <1>2 DEF ReserveNeverFails, Short

\* Between two passes the tokens a request in the active set counts as its own are those it has, and a
\* request that waits for its prefill has its prompt.
LEMMA ReadableFacts ==
  ASSUME EngineInv, NEW r \in Range(admitted) \cup Range(active)
  PROVE  /\ r \in Live /\ r # retiring /\ r \in Rids /\ TableOf(r) \in Owners /\ Plus(r) = ToksOf(r)
         /\ ToksOf(r) \in Seq(Tokens) /\ Len(ToksOf(r)) \in Nat \ {0}
         /\ r \in Range(admitted) => req[r].shared \in Nat /\ (Capacity = 0 => req[r].shared = 0)
         /\ r \notin Range(admitted) => Done(r) = Len(ToksOf(r)) - 1
  <1>0. TypeOK /\ Placed /\ Requests
    BY DEF EngineInv
  <1>1. r \in Live /\ r # retiring /\ r \notin Range(settling) /\ r \notin Range(emitting)
    BY <1>0 DEF Live, Placed, Disjoint
  <1>2. /\ r \in Rids /\ ToksOf(r) \in Seq(Tokens) /\ Len(ToksOf(r)) = Len(req[r].prompt) + Len(req[r].gen)
        /\ Len(req[r].prompt) \in Nat \ {0} /\ Len(req[r].gen) \in Nat /\ req[r].shared \in Nat
    BY <1>0, <1>1, LiveFacts
  <1>3. verified[r] = << >>
    BY <1>0, <1>1, <1>2 DEF Requests
  <1>4. Plus(r) = ToksOf(r)
    BY <1>2, <1>3, AgreesParts DEF Plus
  <1>5. Capacity = 0 => req[r].shared = 0
    BY <1>0, <1>1 DEF Requests
  <1>6. r \notin Range(admitted) => Done(r) = Len(ToksOf(r)) - 1
    BY <1>1, <1>4 DEF Done
  <1>7. Len(ToksOf(r)) \in Nat \ {0}
    <2>1. PICK a, b : a = Len(req[r].prompt) /\ b = Len(req[r].gen)
      OBVIOUS
    <2>2. a \in Nat \ {0} /\ b \in Nat /\ Len(ToksOf(r)) = a + b
      BY <1>2, <2>1
    <2>3. QED
      BY <2>2
  <1>8. QED
    BY <1>1, <1>2, <1>4, <1>5, <1>6, <1>7, OwnerFacts

\* What a request reads is inside its table.
LEMMA ReadableInside ==
  ASSUME EngineInv, SharedHeld, NEW r \in Range(admitted) \cup Range(active), NEW i \in 0..Readable(r) - 1
  PROVE  i \in Positions(table, TableOf(r))
  <1>0. TypeOK /\ Phases /\ Placed /\ Requests /\ Covered
    BY DEF EngineInv
  <1>1. /\ r \in Live /\ r \in Rids /\ TableOf(r) \in Owners /\ Len(table[TableOf(r)]) \in Nat
        /\ ToksOf(r) \in Seq(Tokens) /\ Len(ToksOf(r)) = Len(req[r].prompt) + Len(req[r].gen)
        /\ Len(req[r].prompt) \in Nat \ {0} /\ Len(req[r].gen) \in Nat /\ req[r].maxNew \in Nat
        /\ Len(req[r].gen) <= req[r].maxNew
        /\ req[r].shared \in Nat /\ req[r].shared < Len(req[r].prompt)
    BY <1>0, ReadableFacts, LiveFacts, PoolTypes
  <1>2. PICK a, b, m, s, n, t, len : /\ a = Len(req[r].prompt) /\ b = Len(req[r].gen) /\ m = req[r].maxNew /\ s = req[r].shared
                                     /\ len = Len(table[TableOf(r)]) /\ n = len * PageSize /\ t = Len(ToksOf(r))
    OBVIOUS
  <1>3. /\ a \in Nat \ {0} /\ b \in Nat /\ m \in Nat /\ b <= m /\ s \in Nat /\ s < a /\ len \in Nat /\ n \in Nat /\ t = a + b
    <2>1. len \in Nat
      BY <1>1, <1>2
    <2>2. QED
      BY <1>1, <1>2, <2>1, TimesFacts
  <1>4. i \in 0..s - 1 \/ i \in 0..t - 2
    <2>1. Readable(r) = s \/ Readable(r) = t - 1
      BY <1>2 DEF Readable
    <2>2. PICK d : d = Readable(r)
      OBVIOUS
    <2>3. i \in 0..d - 1 /\ (d = s \/ d = t - 1)
      BY <2>1, <2>2
    <2>4. QED
      BY <1>3, <2>3
  <1>5. i \in Nat /\ i < a + m /\ a + m \in Nat
    BY <1>3, <1>4
  <1>6. CASE ~(pc = "reserve" /\ r = Last(admitted))
    <2>1. Ceil(a + m) <= len
      BY <1>0, <1>1, <1>2, <1>6 DEF Covered
    <2>2. i < n
      BY <1>0, <1>1, <1>2, <1>5, <2>1, CoveredPosition
    <2>3. i \in 0..n - 1
      BY <1>3, <1>5, <2>2
    <2>4. QED
      BY <1>2, <2>3 DEF Positions
  <1>7. CASE pc = "reserve" /\ r = Last(admitted)
    <2>1. s <= n
      BY <1>2, <1>7 DEF SharedHeld
    <2>2. Readable(r) = s
      BY <1>0, <1>2, <1>7, LastFacts DEF Readable, Phases, Placed
    <2>3. i \in 0..s - 1
      BY <2>2
    <2>4. i \in 0..n - 1
      BY <1>3, <2>1, <2>3
    <2>5. QED
      BY <1>2, <2>4 DEF Positions
  <1>8. QED
    BY <1>6, <1>7

LEMMA IsolatedSlots == EngineInv /\ SharedHeld => KVIsolated
  <1>1. ASSUME EngineInv, SharedHeld, NEW r \in Range(admitted) \cup Range(active), NEW i \in 0..Readable(r) - 1
        PROVE  kv[PageAt(r, i)][i % PageSize] \in {<< >>, Prefix(ToksOf(r), i)}
    <2>1. /\ r \in Live /\ r # retiring /\ r \in Rids /\ Plus(r) = ToksOf(r) /\ Len(ToksOf(r)) \in Nat \ {0}
          /\ r \in Range(admitted) => req[r].shared \in Nat /\ (Capacity = 0 => req[r].shared = 0)
          /\ r \notin Range(admitted) => Done(r) = Len(ToksOf(r)) - 1
      BY <1>1, ReadableFacts
    <2>2. i \in Positions(table, TableOf(r))
      BY <1>1, ReadableInside
    <2>3. SlotOf(kv, table, TableOf(r), i) = kv[PageAt(r, i)][i % PageSize]
      BY DEF SlotOf, PageAt
    <2>4. CASE Capacity > 0
      <3>1. Own(SlotOf(kv, table, TableOf(r), i), Plus(r), i)
        BY <1>1, <2>1, <2>2, <2>4 DEF EngineInv, CleanKV, Positions
      <3>2. QED
        BY <2>1, <2>3, <3>1 DEF Own
    <2>5. CASE Capacity = 0
      <3>1. r \notin Range(admitted) /\ i \in 0..Done(r) - 1
        BY <1>1, <2>1, <2>5 DEF Readable
      <3>2. SlotOf(kv, table, TableOf(r), i) = Prefix(Plus(r), i)
        BY <1>1, <2>1, <2>5, <3>1 DEF EngineInv, ExactKV
      <3>3. QED
        BY <2>1, <2>3, <3>2
    <2>6. QED
      BY <2>4, <2>5, Sizes
  <1>2. ASSUME EngineInv, NEW e \in Range(order), NEW i \in 0..Len(entries[e]) - 1
        PROVE  kv[table[KeptBy(e)][i \div PageSize + 1]][i % PageSize] \in {<< >>, Prefix(entries[e], i)}
    <2>1. Capacity > 0
      BY <1>2, Sizes, EmptyRange DEF EngineInv, Cached
    <2>2. Own(SlotOf(kv, table, KeptBy(e), i), entries[e], i)
      BY <1>2, <2>1 DEF EngineInv, CleanKV
    <2>3. QED
      BY <2>2 DEF Own, SlotOf
  <1>3. QED
    BY <1>1, <1>2 DEF KVIsolated

LEMMA MatchingSlots == Capacity = 0 /\ EngineInv => KVMatchesTokens
  <1>1. ASSUME EngineInv, Capacity = 0, NEW r \in Range(admitted) \cup Range(active), NEW i \in 0..Readable(r) - 1
        PROVE  kv[PageAt(r, i)][i % PageSize] = Prefix(ToksOf(r), i)
    <2>1. /\ r \in Live /\ r \in Rids /\ Plus(r) = ToksOf(r)
          /\ r \in Range(admitted) => req[r].shared = 0
          /\ r \notin Range(admitted) => Done(r) = Len(ToksOf(r)) - 1
      BY <1>1, ReadableFacts
    <2>2. r \notin Range(admitted) /\ i \in 0..Done(r) - 1
      BY <2>1 DEF Readable
    <2>3. SlotOf(kv, table, TableOf(r), i) = Prefix(Plus(r), i)
      BY <1>1, <2>1, <2>2 DEF EngineInv, ExactKV
    <2>4. QED
      BY <2>1, <2>3 DEF SlotOf, PageAt
  <1>2. QED
    BY <1>1 DEF KVMatchesTokens

-----------------------------------------------------------------------------
(* No page leaks and no request is lost, as long as no step is abandoned *)

\* While no session was restarted, a request is known by one number from submit() to its last event.
Numbered ==
  /\ nextRid + Len(pending) = submitted + 1
  /\ \A i \in DOMAIN pending : pending[i].ext = nextRid - 1 + i
  /\ \A r \in Live : req[r].ext = r
  /\ done = (1..nextRid - 1) \ (Live \ {retiring})

Tidy == failures = 0 => pc # "failed" /\ NoLeak /\ Numbered

\* One draft per step never takes a request past what admission reserved.
LEMMA OneDraftFits ==
  ASSUME TypeOK, Placed, Phases, Requests, Covered, SpecK <= 1, DraftsOutOfPages
  PROVE  FALSE
  <1>1. pc = "draft" /\ Uncovered # << >>
    BY DEF DraftsOutOfPages
  <1>2. PICK r : r = Head(Uncovered)
    OBVIOUS
  <1>3. r \in Range(active) /\ Pool!ReserveOutOfPages(TableOf(r), DraftPages(r))
    BY <1>1, <1>2, UncoveredFacts DEF DraftsOutOfPages
  <1>4. r \in Live /\ r \in Rids
    BY <1>3 DEF Live, TypeOK
  <1>5. PICK a, b, m, len : a = Len(req[r].prompt) /\ b = Len(req[r].gen) /\ m = req[r].maxNew /\ len = Len(table[TableOf(r)])
    OBVIOUS
  <1>6. a \in Nat /\ b \in Nat /\ m \in Nat /\ b < m /\ Len(ToksOf(r)) = a + b /\ len \in Nat
    BY <1>3, <1>4, <1>5, LiveFacts, PoolTypes, OwnerFacts DEF Requests
  <1>7. Ceil(a + m) <= len
    BY <1>1, <1>4, <1>5 DEF Covered
  <1>8. a + b + SpecK \in Nat /\ a + m \in Nat /\ a + b + SpecK <= a + m
    BY <1>6, Sizes
  <1>9. PICK x, y : x = a + b + SpecK /\ y = a + m
    OBVIOUS
  <1>10. Ceil(x) <= Ceil(y) /\ Ceil(x) \in Nat /\ Ceil(y) \in Nat
    BY <1>8, <1>9, CeilMonotone, CeilType
  <1>11. DraftPages(r) = Ceil(x)
    BY <1>6, <1>9 DEF DraftPages
  <1>12. Pool!Missing(TableOf(r), DraftPages(r)) = 0
    <2>1. PICK d : d = DraftPages(r)
      OBVIOUS
    <2>2. PICK e : e = Ceil(y)
      OBVIOUS
    <2>3. d <= e /\ d \in Nat /\ e \in Nat /\ e <= len /\ len \in Nat
      BY <1>6, <1>7, <1>9, <1>10, <1>11, <2>1, <2>2
    <2>4. ~(d > len)
      BY <2>3
    <2>5. Pool!Missing(TableOf(r), d) = IF d > len THEN d - len ELSE 0
      BY <1>5 DEF Pool!Missing
    <2>6. QED
      BY <2>1, <2>4, <2>5
  <1>13. Pool!Missing(TableOf(r), DraftPages(r)) > Cardinality(free) /\ Cardinality(free) \in Nat
    BY <1>3, PoolTypes, SameCardinality DEF Pool!ReserveOutOfPages
  <1>14. QED
    BY <1>12, <1>13

\* A step that does not abandon the step of the engine.
LEMMA TidyPoints ==
  ASSUME TypeOK, Placed, Phases, Requests, Covered, SpecK <= 1, Next, failures' = 0, Tidy
  PROVE  failures = 0 /\ pc # "failed" /\ pc' # "failed" /\ ~StartOnline
  <1>1. failures \in Nat
    BY EngineAssumption DEF TypeOK
  <1>2. failures' = failures \/ failures' = failures + 1
    BY DEF Next, Step, Submit, BeginStep, Admit, ReserveAdmitted, EndAdmit, TakeGroup, ReservePadding, Forward, Settle,
           EndSettle, Decode, BeginDraft, ReserveDrafts, DraftsOutOfPages, Verify, NothingActive, Emit, EndStep, Remember,
           NothingToRemember, Evict, EndEvict, Free, ModelCallRaises, StartOnline
  <1>3. failures = 0 /\ ~ModelCallRaises
    BY <1>1, <1>2 DEF ModelCallRaises
  <1>4. pc # "failed" /\ ~StartOnline
    BY <1>3 DEF Tidy, StartOnline
  <1>5. ~DraftsOutOfPages
    BY OneDraftFits
  <1>6. pc' # "failed"
    BY <1>3, <1>4, <1>5 DEF Next, Step, Submit, BeginStep, Admit, ReserveAdmitted, EndAdmit, TakeGroup, ReservePadding,
           Forward, Settle, EndSettle, Decode, BeginDraft, ReserveDrafts, Verify, NothingActive, Emit, EndStep, Remember,
           NothingToRemember, Evict, EndEvict, Free, TakeTokens
  <1>7. QED
    BY <1>3, <1>4, <1>6

\* Only free() and a restart end the life of a request.
LEMMA LiveKept ==
  ASSUME TypeOK, Placed, Phases, Requests, Cached, Planned, Next, ~StartOnline, NEW r \in Live, ~Free \/ r # retiring
  PROVE  r \in Live'
  <1>1. CASE Staying
    BY <1>1, StayingStays DEF places, Live
  <1>2. CASE Submitting
    BY <1>2 DEF Submitting, Submit, batch, Live
  <1>3. CASE Admit
    BY <1>3, AdmitFacts
  <1>4. CASE TakeGroup
    BY <1>4, TakeLive
  <1>5. CASE Settle \/ Emit
    BY <1>5, HandsExist, HandsFacts
  <1>6. CASE Decoding
    BY <1>6, DecodingLive
  <1>7. CASE Free
    BY <1>7, FreeFacts
  <1>8. QED
    BY <1>1, <1>2, <1>3, <1>4, <1>5, <1>6, <1>7, NextCases

LEMMA NoLeakStep ==
  ASSUME TypeOK, Placed, Phases, Requests, Cached, Planned, Next, ~StartOnline, NoLeak
  PROVE  NoLeak'
  <1> SUFFICES ASSUME NEW r \in Rids, table'[TableOf(r)] # << >>
               PROVE  r \in Live'
    BY DEF NoLeak
  <1>0. TableOf(r) \in Owners
    BY OwnerFacts
  <1>1. ASSUME table'[TableOf(r)] = table[TableOf(r)], ~Free \/ r # retiring
        PROVE  r \in Live'
    <2>1. r \in Live
      BY <1>1 DEF NoLeak
    <2>2. QED
      BY <1>1, <2>1, LiveKept
  <1>2. CASE UNCHANGED <<free, table>> /\ ~Free
    BY <1>1, <1>2
  <1>3. CASE Reserving
    <2>1. PICK s \in Live, f \in Seq(Pages) : s \in Rids /\ Grows(TableOf(s), f)
      BY <1>3, ReservingGrows DEF Grows
    <2>2. ~Free
      BY <1>3 DEF Reserving, ReserveAdmitted, ReservePadding, ReserveDrafts, DraftsOutOfPages, Free
    <2>3. CASE r = s
      BY <2>1, <2>2, <2>3, LiveKept
    <2>4. CASE r # s
      <3>1. table'[TableOf(r)] = table[TableOf(r)]
        BY <1>0, <2>1, <2>4, OwnerFacts, GrowsTables
      <3>2. QED
        BY <1>1, <2>2, <3>1
    <2>5. QED
      BY <2>3, <2>4
  <1>4. CASE Remember /\ Aliases(TableOf(retiring), KeptBy(retiring), FullPages(retiring)) /\ retiring \in Rids
    <2>1. table'[TableOf(r)] = table[TableOf(r)]
      BY <1>0, <1>4, OwnerFacts, AliasesTables
    <2>2. ~Free
      BY <1>4 DEF Remember, Free
    <2>3. QED
      BY <1>1, <2>1, <2>2
  <1>5. ASSUME Admit, NEW q, nextRid \in Rids, Route(q.prompt) \in Rids,
               Aliases(KeptBy(Route(q.prompt)), TableOf(nextRid), Depth(q.prompt) \div PageSize)
        PROVE  r \in Live'
    <2>1. CASE r = nextRid
      BY <1>5, <2>1, AdmitFacts
    <2>2. CASE r # nextRid
      <3>1. table'[TableOf(r)] = table[TableOf(r)]
        BY <1>0, <1>5, <2>2, OwnerFacts, AliasesTables
      <3>2. ~Free
        BY <1>5 DEF Admit, Free
      <3>3. QED
        BY <1>1, <3>1, <3>2
    <2>3. QED
      BY <2>1, <2>2
  <1>6. CASE Evict /\ Releases(KeptBy(Head(lru))) /\ Head(lru) \in Rids
    <2>1. table'[TableOf(r)] = table[TableOf(r)]
      BY <1>0, <1>6, OwnerFacts, ReleasesTables
    <2>2. ~Free
      BY <1>6 DEF Evict, Free
    <2>3. QED
      BY <1>1, <2>1, <2>2
  <1>7. CASE Free /\ Releases(TableOf(retiring)) /\ retiring \in Rids
    <2>1. r # retiring
      BY <1>0, <1>7, OwnerFacts, ReleasesTables
    <2>2. table'[TableOf(r)] = table[TableOf(r)]
      BY <1>0, <1>7, <2>1, OwnerFacts, ReleasesTables
    <2>3. QED
      BY <1>1, <2>1, <2>2
  <1>8. QED
    BY <1>2, <1>3, <1>4, <1>5, <1>6, <1>7, TableMoves

LEMMA NumberedStep ==
  ASSUME TypeOK, Placed, Phases, Requests, Cached, Planned, Next, ~StartOnline, Numbered
  PROVE  Numbered'
  <1>0. /\ nextRid \in Nat /\ submitted \in Nat /\ Len(pending) \in Nat /\ DOMAIN pending = 1..Len(pending)
        /\ req \in [Rids -> ReqSet] /\ \A r \in Live : r \in Rids /\ r \in Nat /\ r < nextRid /\ 1 <= r
    <2>1. pending \in Seq([ext : Rids, prompt : Prompts, maxNew : MaxNews]) /\ req \in [Rids -> ReqSet]
      BY DEF TypeOK, ReqSet
    <2>2. Len(pending) \in Nat /\ DOMAIN pending = 1..Len(pending)
      BY <2>1
    <2>3. nextRid \in Nat /\ submitted \in Nat
      BY Sizes DEF TypeOK
    <2>4. \A r \in Live : r \in Rids /\ r < nextRid
      BY DEF TypeOK, Placed
    <2>5. \A r \in Rids : r \in Nat /\ 1 <= r
      BY Sizes DEF Rids
    <2>6. QED
      BY <2>1, <2>2, <2>3, <2>4, <2>5
  <1>1. CASE UNCHANGED <<pending, submitted, nextRid, req, done, retiring>> /\ Live' = Live
    BY <1>1 DEF Numbered
  <1>2. CASE Staying
    BY <1>1, <1>2, StayingStays DEF places, Live
  <1>3. CASE TakeGroup \/ Decoding
    BY <1>1, <1>3, TakeLive, DecodingLive, DecodingFacts
  <1>4. CASE Submitting
    <2>1. PICK p \in Prompts, n \in MaxNews : Submit(p, n)
      BY <1>4 DEF Submitting
    <2>2. PICK x : x = [ext |-> submitted + 1, prompt |-> p, maxNew |-> n]
      OBVIOUS
    <2>3. /\ pending' = Append(pending, x) /\ submitted' = submitted + 1 /\ x.ext = submitted + 1
          /\ UNCHANGED <<nextRid, req, done, retiring>> /\ Live' = Live
      BY <2>1, <2>2 DEF Submit, batch, Live
    <2>4. PICK l : l = Len(pending)
      OBVIOUS
    <2>5. /\ Len(pending') = l + 1 /\ DOMAIN pending' = 1..l + 1
          /\ \A i \in 1..l + 1 : pending'[i] = IF i = l + 1 THEN x ELSE pending[i]
      <3>1. pending \in Seq([ext : Rids, prompt : Prompts, maxNew : MaxNews])
        BY DEF TypeOK
      <3> DEFINE S == [ext : Rids, prompt : Prompts, maxNew : MaxNews]
      <3>2. submitted \in 0..MaxRequests /\ submitted < MaxRequests /\ MaxRequests \in Nat
        BY <2>1, Sizes DEF TypeOK, Submit
      <3>3. submitted + 1 \in Rids
        BY <3>2 DEF Rids
      <3>4. x \in S
        BY <2>2, <3>3
      <3> HIDE DEF S
      <3>5. pending \in Seq(S)
        BY <3>1 DEF S
      <3>6. QED
        BY <2>3, <2>4, <3>4, <3>5
    <2>6. nextRid + l = submitted + 1 /\ \A i \in 1..l : pending[i].ext = nextRid - 1 + i
      BY <1>0, <2>4 DEF Numbered
    <2>7. \A i \in DOMAIN pending' : pending'[i].ext = nextRid - 1 + i
      BY <1>0, <2>3, <2>4, <2>5, <2>6
    <2>8. nextRid + Len(pending') = submitted' + 1
      BY <1>0, <2>3, <2>4, <2>5, <2>6
    <2>9. QED
      BY <2>3, <2>7, <2>8 DEF Numbered
  <1>5. CASE Admit
    <2>1. PICK q, m : q = Head(pending) /\ m = nextRid
      OBVIOUS
    <2>2. /\ m \in Rids /\ m \notin Live /\ pending # << >> /\ pending' = Tail(pending) /\ nextRid' = m + 1
          /\ req' = [req EXCEPT ![m] = [ext |-> q.ext, prompt |-> q.prompt, gen |-> << >>,
                                        maxNew |-> q.maxNew, shared |-> SharedTokens(q.prompt)]]
          /\ Live' = Live \cup {m} /\ UNCHANGED <<submitted, retiring, done>>
      BY <1>5, <2>1, AdmitFacts
    <2>3. PICK l : l = Len(pending)
      OBVIOUS
    <2>4. /\ Len(pending') = l - 1 /\ DOMAIN pending' = 1..l - 1 /\ \A i \in 1..l - 1 : pending'[i] = pending[i + 1]
          /\ l \in Nat \ {0} /\ q = pending[1]
      <3>1. pending \in Seq([ext : Rids, prompt : Prompts, maxNew : MaxNews])
        BY DEF TypeOK
      <3> DEFINE S == [ext : Rids, prompt : Prompts, maxNew : MaxNews]
      <3>2. pending \in Seq(S)
        BY <3>1
      <3> HIDE DEF S
      <3>3. QED
        BY <2>1, <2>2, <2>3, <3>2
    <2>5. m + l = submitted + 1 /\ (\A i \in 1..l : pending[i].ext = m - 1 + i) /\ m \in Nat /\ m # 0
      BY <1>0, <2>1, <2>2, <2>3, Sizes DEF Numbered, Rids
    <2>6. q.ext = m
      BY <2>4, <2>5
    <2>7. \A i \in DOMAIN pending' : pending'[i].ext = nextRid' - 1 + i
      <3>1. PICK k : k = nextRid'
        OBVIOUS
      <3>2. k = m + 1
        BY <2>2, <3>1
      <3>3. ASSUME NEW i \in 1..l - 1
            PROVE  pending'[i].ext = k - 1 + i
        <4>1. i + 1 \in 1..l
          BY <2>4
        <4>2. pending[i + 1].ext = m - 1 + (i + 1)
          BY <2>5, <4>1
        <4>3. m - 1 + (i + 1) = k - 1 + i
          BY <2>4, <2>5, <3>2
        <4>4. QED
          BY <2>4, <4>2, <4>3
      <3>4. QED
        BY <2>4, <3>1, <3>3
    <2>8. nextRid' + Len(pending') = submitted' + 1
      <3>1. PICK a, b, c : a = nextRid' /\ b = Len(pending') /\ c = submitted'
        OBVIOUS
      <3>2. a = m + 1 /\ b = l - 1 /\ c = submitted
        BY <2>2, <2>4, <3>1
      <3>3. a + b = c + 1
        BY <1>0, <2>4, <2>5, <3>2
      <3>4. QED
        BY <3>1, <3>3
    <2>9. \A r \in Live' : req'[r].ext = r
      <3>1. req'[m] = [ext |-> q.ext, prompt |-> q.prompt, gen |-> << >>, maxNew |-> q.maxNew,
                       shared |-> SharedTokens(q.prompt)]
        BY <1>0, <2>2
      <3>2. \A r \in Live : req'[r] = req[r]
        BY <1>0, <2>2
      <3>3. QED
        BY <2>2, <2>6, <3>1, <3>2 DEF Numbered
    <2>10. done' = (1..nextRid' - 1) \ (Live' \ {retiring'})
      <3>1. done = (1..m - 1) \ (Live \ {retiring}) /\ m # retiring
        <4>1. retiring \in Live \cup {0}
          BY DEF Live
        <4>2. QED
          BY <2>1, <2>2, <2>5, <4>1 DEF Numbered
      <3>2. 1..(m + 1) - 1 = (1..m - 1) \cup {m}
        BY <2>5
      <3>3. m \notin 1..m - 1
        BY <2>5
      <3>4. nextRid' - 1 = (m + 1) - 1 /\ Live' = Live \cup {m} /\ retiring' = retiring /\ done' = done
        BY <2>2
      <3>5. QED
        BY <3>1, <3>2, <3>3, <3>4
    <2>11. QED
      BY <2>7, <2>8, <2>9, <2>10 DEF Numbered
  <1>6. CASE Settle \/ Emit
    <2>1. PICK s \in Rids, toks \in Seq(Tokens) : Hands(s, toks)
      BY <1>6, HandsExist
    <2>2. /\ s \in Live /\ s # 0 /\ retiring = 0 /\ UNCHANGED <<pending, submitted, nextRid>>
      BY <2>1 DEF Hands
    <2>3. /\ Live' = Live /\ \A r \in Rids : req'[r].ext = req[r].ext
          /\ \/ retiring' = s /\ done' = done \cup {req[s].ext}
             \/ retiring' = 0 /\ done' = done
      BY <2>1, HandsFacts
    <2>4. \A r \in Live' : req'[r].ext = r
      BY <1>0, <2>3 DEF Numbered
    <2>5. done = (1..nextRid - 1) \ (Live \ {0}) /\ req[s].ext = s
      BY <2>2 DEF Numbered
    <2>6. s \in 1..nextRid - 1
      BY <1>0, <2>2
    <2>7. done' = (1..nextRid - 1) \ (Live \ {retiring'})
      <3>1. CASE retiring' = 0 /\ done' = done
        BY <2>5, <3>1
      <3>2. CASE retiring' = s /\ done' = done \cup {s}
        <4>1. 0 \notin 1..nextRid - 1
          BY <1>0
        <4>2. QED
          BY <2>5, <2>6, <3>2, <4>1
      <3>3. QED
        BY <2>3, <2>5, <3>1, <3>2
    <2>8. QED
      BY <2>2, <2>3, <2>4, <2>7 DEF Numbered
  <1>7. CASE Free
    <2>1. PICK m : m = retiring
      OBVIOUS
    <2>2. /\ m \in Rids /\ retiring' = 0 /\ Live' = Live \ {m} /\ req' = [req EXCEPT ![m] = NoRequest]
          /\ UNCHANGED <<pending, submitted, nextRid, done>>
      BY <1>7, <2>1, FreeFacts
    <2>3. \A r \in Live' : req'[r] = req[r]
      BY <1>0, <2>2
    <2>4. 0 \notin Live
      BY <1>0
    <2>5. Live' \ {retiring'} = Live \ {retiring}
      BY <2>1, <2>2, <2>4
    <2>6. QED
      BY <2>2, <2>3, <2>5 DEF Numbered
  <1>8. QED
    BY <1>2, <1>3, <1>4, <1>5, <1>6, <1>7, NextCases

LEMMA TidyStep ==
  ASSUME EngineInv, Tidy, SpecK <= 1, [Next]_vars
  PROVE  Tidy'
  <1>1. CASE Next
    <2> SUFFICES ASSUME failures' = 0 PROVE pc' # "failed" /\ NoLeak' /\ Numbered'
      BY DEF Tidy
    <2>1. TypeOK /\ Placed /\ Phases /\ Requests /\ Cached /\ Covered /\ Planned
      BY DEF EngineInv
    <2>2. failures = 0 /\ pc' # "failed" /\ ~StartOnline
      BY <1>1, <2>1, TidyPoints
    <2>3. NoLeak /\ Numbered
      BY <2>2 DEF Tidy
    <2>4. QED
      BY <1>1, <2>1, <2>2, <2>3, NoLeakStep, NumberedStep
  <1>2. CASE UNCHANGED vars
    <2>1. UNCHANGED <<table, pending, submitted, nextRid, req, done, retiring, failures, pc>> /\ Live' = Live
      BY <1>2 DEF vars, pool, batch, Live
    <2>2. QED
      BY <2>1 DEF Tidy, NoLeak, Numbered
  <1>3. QED
    BY <1>1, <1>2

LEMMA TidyInit == Init => Tidy
  <1> SUFFICES ASSUME Init PROVE NoLeak /\ Numbered /\ pc # "failed"
    BY DEF Tidy
  <1>1. Live = {}
    BY InitTypes
  <1>2. NoLeak
    <2>1. \A r \in Rids : table[TableOf(r)] = << >>
      BY OwnerFacts DEF Init, Pool!Init
    <2>2. QED
      BY <2>1 DEF NoLeak
  <1>3. pending = << >> /\ submitted = 0 /\ nextRid = 1 /\ done = {} /\ pc = "idle"
    BY DEF Init
  <1>4. Len(pending) = 0 /\ DOMAIN pending = {}
    BY <1>3
  <1>5. Numbered
    BY <1>1, <1>3, <1>4 DEF Numbered
  <1>6. QED
    BY <1>2, <1>3, <1>5

LEMMA InOnePlace ==
  ASSUME TypeOK, Placed, Numbered, NEW x \in 1..submitted
  PROVE  Cardinality({i \in DOMAIN pending : pending[i].ext = x})
           + Cardinality({r \in Live \ {retiring} : req[r].ext = x})
           + Cardinality(done \cap {x}) = 1
  <1> DEFINE W == {i \in DOMAIN pending : pending[i].ext = x}
             L == {r \in Live \ {retiring} : req[r].ext = x}
             D == done \cap {x}
  <1>1. /\ nextRid \in Nat /\ submitted \in Nat /\ Len(pending) \in Nat /\ DOMAIN pending = 1..Len(pending)
        /\ \A r \in Live : r \in Nat /\ r < nextRid
    <2>1. pending \in Seq([ext : Rids, prompt : Prompts, maxNew : MaxNews])
      BY DEF TypeOK
    <2>2. Len(pending) \in Nat /\ DOMAIN pending = 1..Len(pending)
      BY <2>1
    <2>3. nextRid \in Nat /\ submitted \in Nat
      BY Sizes DEF TypeOK
    <2>4. \A r \in Live : r \in Rids /\ r < nextRid
      BY DEF TypeOK, Placed
    <2>5. \A r \in Rids : r \in Nat
      BY Sizes DEF Rids
    <2>6. QED
      BY <2>2, <2>3, <2>4, <2>5
  <1>2. PICK l : l = Len(pending)
    OBVIOUS
  <1>3. /\ l \in Nat /\ nextRid + l = submitted + 1 /\ x \in Nat /\ x # 0 /\ x <= submitted
        /\ W = {i \in 1..l : nextRid - 1 + i = x} /\ L = {r \in Live \ {retiring} : r = x}
        /\ D = ((1..nextRid - 1) \ (Live \ {retiring})) \cap {x}
    BY <1>1, <1>2 DEF Numbered
  <1>4. Cardinality({}) = 0 /\ \A y : Cardinality({y}) = 1
    BY FS_EmptySet, FS_Singleton
  <1> HIDE DEF W, L, D
  <1>5. CASE x >= nextRid
    <2>1. x - nextRid + 1 \in 1..l
      BY <1>1, <1>3, <1>5
    <2>2. W = {x - nextRid + 1}
      BY <1>1, <1>3, <2>1
    <2>3. L = {}
      BY <1>1, <1>3, <1>5
    <2>4. D = {}
      <3>1. x \notin 1..nextRid - 1
        BY <1>1, <1>3, <1>5
      <3>2. QED
        BY <1>3, <3>1
    <2>5. Cardinality(W) = 1 /\ Cardinality(L) = 0 /\ Cardinality(D) = 0
      BY <1>4, <2>2, <2>3, <2>4
    <2>6. QED
      BY <2>5 DEF W, L, D
  <1>6. CASE x < nextRid
    <2>1. W = {}
      BY <1>1, <1>3, <1>6
    <2>2. x \in 1..nextRid - 1
      BY <1>1, <1>3, <1>6
    <2>3. (L = {x} /\ D = {}) \/ (L = {} /\ D = {x})
      BY <1>3, <2>2
    <2>4. Cardinality(W) = 0
      BY <1>4, <2>1
    <2>5. CASE L = {x} /\ D = {}
      <3>1. Cardinality(L) = 1 /\ Cardinality(D) = 0
        BY <1>4, <2>5
      <3>2. QED
        BY <2>4, <3>1 DEF W, L, D
    <2>6. CASE L = {} /\ D = {x}
      <3>1. Cardinality(L) = 0 /\ Cardinality(D) = 1
        BY <1>4, <2>6
      <3>2. QED
        BY <2>4, <3>1 DEF W, L, D
    <2>7. QED
      BY <2>3, <2>5, <2>6
  <1>7. QED
    BY <1>1, <1>3, <1>5, <1>6

-----------------------------------------------------------------------------
(* The invariant is inductive *)

\* The pool of the engine is the pool of PagedPoolProofs.
PP == INSTANCE PagedPoolProofs WITH MaxTable <- Ceil(MaxSeq + SpecK)

LEMMA PoolFinite == PP!IsFiniteSet(Pages) /\ PP!IsFiniteSet(Owners) /\ Ceil(MaxSeq + SpecK) \in Nat
  <1>1. \A S : IsFiniteSet(S) => PP!IsFiniteSet(S)
    BY DEF IsFiniteSet, PP!IsFiniteSet
  <1>2. MaxSeq + SpecK \in Nat
    BY GroupsAssumption, EngineAssumption
  <1>3. QED
    BY <1>1, <1>2, OwnersFinite, EngineAssumption, CeilType

LEMMA OneCardinality == \A S : PP!Cardinality(S) = Pool!Cardinality(S)
  BY DEF PP!Cardinality, Pool!Cardinality

LEMMA SamePool ==
  /\ Pool!PoolInv <=> PP!PoolInv
  /\ Pool!PoolInv' <=> PP!PoolInv'
  /\ [Pool!Next]_(Pool!poolVars) <=> [PP!Next]_(PP!poolVars)
  <1>1. Pool!PoolInv <=> PP!PoolInv
    BY OneCardinality DEF Pool!PoolInv, PP!PoolInv, Pool!TypeOK, PP!TypeOK, Pool!RefcountExact, PP!RefcountExact,
       Pool!FreeExact, PP!FreeExact, Pool!NoPageTwice, PP!NoPageTwice, Pool!Referrers, PP!Referrers, Pool!Held, PP!Held,
       Pool!Range, PP!Range, Pool!IsInjective, PP!IsInjective
  <1>2. Pool!PoolInv' <=> PP!PoolInv'
    BY OneCardinality DEF Pool!PoolInv, PP!PoolInv, Pool!TypeOK, PP!TypeOK, Pool!RefcountExact, PP!RefcountExact,
       Pool!FreeExact, PP!FreeExact, Pool!NoPageTwice, PP!NoPageTwice, Pool!Referrers, PP!Referrers, Pool!Held, PP!Held,
       Pool!Range, PP!Range, Pool!IsInjective, PP!IsInjective
  <1>3. Pool!poolVars = PP!poolVars /\ Pool!poolVars' = PP!poolVars'
    BY DEF Pool!poolVars, PP!poolVars
  <1>4. Pool!Next <=> PP!Next
    BY OneCardinality DEF Pool!Next, PP!Next, Pool!Reserve, PP!Reserve, Pool!ReserveOutOfPages, PP!ReserveOutOfPages,
       Pool!Missing, PP!Missing, Pool!Picks, PP!Picks, Pool!Injection, PP!Injection, Pool!IsInjective, PP!IsInjective,
       Pool!Grow, PP!Grow, Pool!Alias, PP!Alias, Pool!Release, PP!Release, Pool!Held, PP!Held, Pool!Range, PP!Range
  <1>5. QED
    BY <1>1, <1>2, <1>3, <1>4

LEMMA PoolInvStep == Pool!PoolInv /\ [Pool!Next]_(Pool!poolVars) => Pool!PoolInv'
  BY SamePool, PoolFinite, PP!PoolStep

LEMMA EngineStep ==
  ASSUME EngineInv, SharedHeld, [Next]_vars
  PROVE  EngineInv' /\ SharedHeld'
  <1>0. /\ TypeOK /\ Pool!PoolInv /\ Phases /\ Placed /\ Requests /\ Cached /\ Covered /\ Planned
        /\ Sharing /\ CleanKV /\ ExactKV
    BY DEF EngineInv
  <1>1. CASE Next
    <2>1. Phases' /\ Placed' /\ Requests' /\ Cached' /\ SharedHeld'
      BY <1>0, <1>1, PhasesStep, PlacedStep, RequestsStep, CachedStep, SharedHeldStep
    <2>2. Pool!PoolInv'
      BY <1>0, <1>1, EnginePoolStep, PoolInvStep
    <2>3. Covered' /\ Planned'
      BY <1>0, <1>1, <2>2, CoveredStep, PlannedStep
    <2>4. TypeOK'
      BY <1>0, <1>1, <2>1, <2>2, TypeStep
    <2>5. Sharing'
      BY <1>0, <1>1, <2>1, <2>4, SharingStep
    <2>6. CleanKV'
      BY <1>0, <1>1, <2>1, <2>2, <2>4, CleanKVStep
    <2>7. ExactKV'
      BY <1>0, <1>1, <2>1, <2>4, ExactKVStep
    <2>8. QED
      BY <2>1, <2>2, <2>3, <2>4, <2>5, <2>6, <2>7 DEF EngineInv
  <1>2. CASE UNCHANGED vars
    <2>1. /\ UNCHANGED <<free, refcount, table, kv, entries, order, lru, pending, submitted, nextRid, req, admitted, groups>>
          /\ UNCHANGED <<settling, padTo, active, emitting, verified, retiring, done, failures, pc>>
      BY <1>2 DEF vars, pool, cacheVars, batch
    <2>2. Live' = Live /\ InWave' = InWave /\ Holders' = Holders /\ Told' = Told /\ Short' = Short
      BY <2>1 DEF Live, InWave, Holders, Told, Short, ToksOf
    <2>3. \A r : Plus(r)' = Plus(r) /\ Done(r)' = Done(r) /\ ToksOf(r)' = ToksOf(r) /\ RowOf(r)' = RowOf(r)
      BY <2>1 DEF Plus, Done, ToksOf, RowOf
    <2>4. TypeOK' /\ Phases' /\ Placed' /\ Requests' /\ Cached' /\ Covered' /\ SharedHeld'
      <3>1. Pool!TypeOK'
        BY <1>0, <2>1 DEF TypeOK, Pool!TypeOK
      <3>2. TypeOK'
        BY <1>0, <2>1, <2>2, <3>1 DEF TypeOK
      <3>3. Phases' /\ Placed' /\ Requests'
        BY <1>0, <2>1, <2>2 DEF Phases, Placed, Requests
      <3>4. Cached' /\ Covered' /\ SharedHeld'
        BY <1>0, <2>1, <2>2 DEF Cached, Covered, SharedHeld
      <3>5. QED
        BY <3>2, <3>3, <3>4
    <2>5. Planned'
      BY <1>0, <2>1, <2>2, <2>3 DEF Planned
    <2>6. Pool!PoolInv'
      <3>1. [Pool!Next]_(Pool!poolVars)
        BY <2>1 DEF Pool!poolVars
      <3>2. QED
        BY <1>0, <3>1, PoolInvStep
    <2>7. Sharing'
      BY <1>0, <2>1, <2>2, <2>3 DEF Sharing, NoSharing
    <2>8. CleanKV' /\ ExactKV'
      BY <1>0, <2>1, <2>2, <2>3 DEF CleanKV, ExactKV
    <2>9. QED
      BY <2>4, <2>5, <2>6, <2>7, <2>8 DEF EngineInv
  <1>3. QED
    BY <1>1, <1>2

\* The step-by-step argument: what holds of the points of step(), of the places of a request and of
\* the pages and their KV together survives every action.
THEOREM EngineSafety == Spec => [](EngineInv /\ SharedHeld)
  <1>1. Init => EngineInv /\ SharedHeld
    BY EngineInit
  <1>2. EngineInv /\ SharedHeld /\ [Next]_vars => EngineInv' /\ SharedHeld'
    BY EngineStep
  <1>3. QED
    BY <1>1, <1>2, PTL DEF Spec

-----------------------------------------------------------------------------
(* What the runs check, for every value of the constants *)

\* The types of everything the engine keeps.
THEOREM EngineTypes == Spec => []TypeOK
  <1>1. EngineInv => TypeOK
    BY DEF EngineInv
  <1>2. QED
    BY <1>1, EngineSafety, PTL

\* Every step of PagedEngine is one operation of the page pool or leaves the pool alone:
\* the engine implements the abstract pool, whose invariants it therefore inherits.
THEOREM EnginePool == Spec => PoolSpec
  <1>1. Init => Pool!Init
    BY DEF Init
  <1>2. EngineInv /\ [Next]_vars => [Pool!Next]_(Pool!poolVars)
    <2>1. UNCHANGED vars => [Pool!Next]_(Pool!poolVars)
      BY DEF vars, pool, Pool!poolVars
    <2>2. QED
      BY <2>1, EnginePoolStep DEF EngineInv
  <1>3. QED
    BY <1>1, <1>2, EngineSafety, PTL DEF Spec, PoolSpec, Pool!Spec

\* What decoding, padding and drafting write past a prompt is on pages nobody else refers to: the
\* pages of share_into and remember are the whole pages in front.
THEOREM EnginePrivate == Spec => []DecodePagesPrivate
  BY PrivatePages, EngineSafety, PTL

\* Admission and the grouping of the wave promise only pages that are free: no reserve() of
\* admission or of padding raises, whatever is shared, evicted, drafted or generated meanwhile.
THEOREM EngineReserves == Spec => []ReserveNeverFails
  BY PromisedPages, EngineSafety, PTL

\* A slot of an admitted or active request, or of an entry of the prefix cache, holds the KV of exactly
\* the tokens it is read for, or KV of no sequence: no forward pass ever writes into the KV of another.
THEOREM EngineIsolated == Spec => []KVIsolated
  BY IsolatedSlots, EngineSafety, PTL

\* "identical leading tokens have identical KV", without the prefix cache: every slot a request reads
\* holds the KV of its own tokens, whatever was padded, drafted and rejected in between.  (With the
\* cache it is false: an entry may keep the slot of a last token that was never decoded.)
THEOREM EngineKVMatches == ASSUME Capacity = 0 PROVE Spec => []KVMatchesTokens
  <1>1. EngineInv => KVMatchesTokens
    BY MatchingSlots
  <1>2. QED
    BY <1>1, EngineSafety, PTL

\* Until a model call raises, only a request in work owns pages, and every request is in one place: a
\* speculative step of one draft never runs out of pages.
LEMMA EngineTidy == ASSUME SpecK <= 1 PROVE Spec => []Tidy
  <1>1. Init => Tidy
    BY TidyInit
  <1>2. EngineInv /\ Tidy /\ [Next]_vars => Tidy'
    BY TidyStep
  <1>3. QED
    BY <1>1, <1>2, EngineSafety, PTL DEF Spec

\* As long as no model call raised, only a request the engine still works on owns a block table.
THEOREM EngineNoLeak == ASSUME SpecK <= 1 PROVE Spec => [](failures = 0 => NoLeak)
  <1>1. Tidy => (failures = 0 => NoLeak)
    BY DEF Tidy
  <1>2. QED
    BY <1>1, EngineTidy, PTL

\* As long as no model call raised, every submitted request is in exactly one place: waiting, in work
\* or answered.
THEOREM EngineLosesNone == ASSUME SpecK <= 1 PROVE Spec => [](failures = 0 => NoRequestLost)
  <1>1. TypeOK /\ Placed /\ Numbered => NoRequestLost
    BY InOnePlace DEF NoRequestLost
  <1>2. EngineInv /\ Tidy => (failures = 0 => NoRequestLost)
    BY <1>1 DEF EngineInv, Tidy
  <1>3. QED
    BY <1>2, EngineTidy, EngineSafety, PTL

=============================================================================
