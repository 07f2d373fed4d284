---------------------------- MODULE DenseEngine ----------------------------
(***************************************************************************)
(* ContinuousBatchEngine (runtime/serving.py) in an online session, over   *)
(* the rows of DenseRows.  One thread runs step_online(); requests are     *)
(* submitted between two steps.  The step is split into actions so that    *)
(* each performs one forward pass or hands over one row:                   *)
(*                                                                         *)
(*  idle - flush - [filter - decode] - advance - admit                     *)
(*       - prefill - plain | prepare - take  - [filter - decode] - release *)
(*  idle - flush - burst                                                   *)
(*                                                                         *)
(* where a decode pass comes before or after admission, never both.        *)
(* A finished request is retired (its row adopted as a reusable prefix, or *)
(* released) before the step goes on, unless a ragged decode defers that   *)
(* to the flush of the next step.                                          *)
(***************************************************************************)
EXTENDS DenseRows

CONSTANTS Requests,
          Prompt,      \* request -> its prompt
          Reply,       \* request -> the token the model generates for it
          MaxNew,      \* request -> max_new_tokens
          MinCommon,   \* tokens a common prefix must have (16 in the code)
          Modes        \* engine configurations

ASSUME EngineAssumption ==
  /\ IsFiniteSet(Requests)
  /\ MinCommon \in Nat /\ MinCommon > 1
  /\ \A r \in Requests :
       /\ Prompt[r] \in Seq(STRING) \ {<< >>} /\ Reply[r] \in STRING
       /\ MaxNew[r] \in Nat \ {0}
       /\ Len(Prompt[r]) + MaxNew[r] <= MaxLen
  /\ \A m \in Modes :
       /\ {m.decodeFirst, m.defer, m.ragged, m.many, m.pin, m.adopt, m.storeFull, m.graph}
            \subseteq BOOLEAN
       /\ {m.readyCap, m.chunk, m.perStep} \subseteq Nat

VARIABLES mode,         \* the configuration of this session
          phase,        \* where each request is
          row,          \* the active row it holds
          gen,          \* tokens generated
          seq,          \* positions of its row that are filled (prompt_cursor while prefilling)
          hit,          \* prefix tokens it reuses
          src,          \* the row it copies them from, as found by its lookup
          over,         \* requests whose last token ended them
          todo,         \* requests the current pass still has to serve
          decodeAfter,  \* this step decodes after admission
          pc

request == <<phase, row, gen, seq, hit, src, over>>
vars == <<rows, mode, request, todo, decodeAfter, pc>>

In(p) == {r \in Requests : phase[r] = p}
TokensOf(r) == Prompt[r] \o [i \in 1..gen[r] |-> Reply[r]]

Init ==
  /\ RowsInit
  /\ mode \in Modes
  /\ phase = [r \in Requests |-> "new"]
  /\ row = [r \in Requests |-> NoRow] /\ src = [r \in Requests |-> NoRow]
  /\ gen = [r \in Requests |-> 0] /\ seq = [r \in Requests |-> 0] /\ hit = [r \in Requests |-> 0]
  /\ over = {} /\ todo = {} /\ decodeAfter = FALSE /\ pc = "idle"

\* submit_online
Submit(r) ==
  /\ pc = "idle" /\ phase[r] = "new"
  /\ phase' = [phase EXCEPT ![r] = "waiting"]
  /\ UNCHANGED <<rows, mode, row, gen, seq, hit, src, over, todo, decodeAfter, pc>>

(***************************************************************************)
(* Retiring finished requests (_cleanup_finished_states).                  *)
(***************************************************************************)
\* Nothing of the pass in hand is left half done.
Settled == In("ending") = {} /\ In("filled") = {}

\* Mutant: the adopted row also goes back to the free list.
AdoptAndRelease(r, choice) ==
  /\ entries' = WithEntry(choice.left, Prompt[r], row[r], FALSE)
  /\ freePrefix' = freePrefix \ {choice.row}
  /\ freeActive' = freeActive \cup {choice.row, row[r]}

\* _store_delayed_pinned_full_prompt_prefix: the row becomes the entry's, and a
\* prefix row takes its place among the active rows.
AdoptRow(r, choice) ==
  /\ entries' = WithEntry(choice.left, Prompt[r], row[r], FALSE)
  /\ freePrefix' = freePrefix \ {choice.row}
  /\ freeActive' = freeActive \cup {choice.row}

\* Mutant: a finished request keeps its row.
ReleaseNothing(r) == UNCHANGED <<freeActive, entries, freePrefix>>

ReleaseRow(r) ==
  /\ freeActive' = freeActive \cup {row[r]}
  /\ UNCHANGED <<entries, freePrefix>>

Adopts == mode.pin /\ mode.adopt

Retire(r) ==
  /\ phase[r] = "ending" \/ (phase[r] = "pending" /\ pc = "flush")
  /\ IF Adopts /\ PrefixRowChoices(mode.pin) # {}
     THEN \E choice \in PrefixRowChoices(mode.pin) : AdoptRow(r, choice)
     ELSE ReleaseRow(r)
  /\ phase' = [phase EXCEPT ![r] = "done"] /\ row' = [row EXCEPT ![r] = NoRow]
  /\ UNCHANGED <<kv, mode, gen, seq, hit, src, over, todo, decodeAfter, pc>>

(***************************************************************************)
(* step_online: what the step does, and in which order.                    *)
(***************************************************************************)
StartStep ==
  /\ pc = "idle" /\ Settled
  /\ \E r \in Requests : phase[r] \in {"waiting", "active", "prefilling", "pending"}
  /\ pc' = "flush"
  /\ UNCHANGED <<rows, mode, request, todo, decodeAfter>>

\* A decode-first engine decodes before it admits, unless ready requests may be
\* prefilled ahead of a small enough active batch.
PrefillFirst ==
  /\ In("waiting") # {} /\ mode.readyCap > 0
  /\ Cardinality(In("active")) <= mode.readyCap

Decide ==
  /\ pc = "flush" /\ In("pending") = {}
  /\ LET before == mode.decodeFirst /\ In("active") # {}
     IN /\ decodeAfter' = (~mode.decodeFirst \/ (before /\ PrefillFirst))
        /\ pc' = IF before /\ ~PrefillFirst THEN "filter" ELSE "advance"
  /\ todo' = In("prefilling")
  /\ UNCHANGED <<rows, mode, request>>

(***************************************************************************)
(* Decode (_decode_active).                                                *)
(***************************************************************************)
Filter ==
  /\ pc = "filter"
  /\ phase' = [r \in Requests |->
                 IF phase[r] = "active" /\ r \in over THEN "ending" ELSE phase[r]]
  /\ todo' = In("active") \ over
  /\ pc' = "decode"
  /\ UNCHANGED <<rows, mode, row, gen, seq, hit, src, over, decodeAfter>>

RaggedOver(G) == mode.ragged /\ \E r, q \in G : seq[r] # seq[q]
Ragged == RaggedOver(todo)

\* One ragged batch of all, or one batch for each sequence length.
DecodeGroups ==
  IF Ragged THEN {todo} ELSE {{q \in todo : seq[q] = seq[r]} : r \in todo}

\* Mutant: one token past the budget.
SpentLate(G) == {r \in G : gen[r] + 1 > MaxNew[r]}

\* The members of G that end with the token just sampled: the budget is used up,
\* or the token is a stop token.
Spent(G) == {r \in G : gen[r] + 1 >= MaxNew[r]}
Ended(G, stops) == stops \cup Spent(G)

\* One forward pass over G: each row gets the KV of the request's last token.  Free
\* rows may fill the batch up to a bucket; they are written where the longest ends.
Forward(G, pads) ==
  LET padding == IF mode.ragged /\ Cardinality(G) > 1 THEN pads \cap freeActive ELSE {}
      last == Max({seq[r] : r \in G})
  IN /\ kv' = [w \in Rows |->
                 IF \E r \in G : row[r] = w
                 THEN LET r == CHOOSE r \in G : row[r] = w
                      IN Put(kv[w], seq[r], <<Reply[r]>>)
                 ELSE IF w \in padding THEN Put(kv[w], last, <<Junk>>) ELSE kv[w]]
     /\ seq' = [r \in Requests |-> IF r \in G THEN seq[r] + 1 ELSE seq[r]]
     /\ gen' = [r \in Requests |-> IF r \in G THEN gen[r] + 1 ELSE gen[r]]

DecodeGroup(G, stops, pads) ==
  /\ pc = "decode" /\ Settled /\ G \in DecodeGroups
  /\ Forward(G, pads)
  /\ over' = over \cup Ended(G, stops)
  /\ phase' = [r \in Requests |->
                 IF r \in Ended(G, stops) THEN (IF Ragged /\ mode.defer THEN "pending" ELSE "ending")
                 ELSE phase[r]]
  /\ todo' = todo \ G
  /\ UNCHANGED <<freeActive, freePrefix, entries, mode, row, hit, src, decodeAfter, pc>>

DecodeDone ==
  /\ pc = "decode" /\ Settled /\ todo = {}
  /\ pc' = IF decodeAfter THEN "release" ELSE "advance"
  /\ todo' = In("prefilling")
  /\ UNCHANGED <<rows, mode, request, decodeAfter>>

\* step_online_many: several decode steps in one call, without admission.  Stop
\* tokens are seen only when the burst is read back; until then their rows go on
\* decoding.  Rows out of budget leave the batch at once.
StartBurst ==
  /\ pc = "flush" /\ In("pending") = {}
  /\ mode.many /\ mode.decodeFirst /\ In("prefilling") = {} /\ RaggedOver(In("active"))
  /\ todo' = In("active") /\ pc' = "burst"
  /\ UNCHANGED <<rows, mode, request, decodeAfter>>

BurstStep(stops, pads) ==
  /\ pc \in {"burst", "bursting"} /\ Ragged
  /\ Forward(todo, pads)
  /\ over' = over \cup Ended(todo, stops)
  /\ todo' = todo \ Spent(todo) /\ pc' = "bursting"
  /\ UNCHANGED <<freeActive, freePrefix, entries, mode, phase, row, hit, src, decodeAfter>>

BurstDone ==
  /\ pc = "bursting"
  /\ phase' = [r \in Requests |->
                 IF phase[r] = "active" /\ r \in over THEN "ending" ELSE phase[r]]
  /\ todo' = {} /\ pc' = "idle"
  /\ UNCHANGED <<rows, mode, row, gen, seq, hit, src, over, decodeAfter>>

(***************************************************************************)
(* Chunked prefill (_advance_prefilling).                                  *)
(***************************************************************************)
ChunkGroups ==
  {{q \in todo : hit[q] = hit[r] /\ seq[q] = seq[r] /\ src[q] = src[r]} : r \in todo}

ChunkLen(r) == Min({mode.chunk, Len(Prompt[r]) - seq[r]})

\* The first chunk folds in the copy of the reused prefix.
Chunked(r) ==
  Put(IF seq[r] = hit[r] /\ hit[r] > 0 THEN CopyOf(src[r], hit[r]) ELSE kv[row[r]],
      seq[r], SubSeq(Prompt[r], seq[r] + 1, seq[r] + ChunkLen(r)))

ChunkGroup(G, stops, pads) ==
  LET filled == {r \in G : seq[r] + ChunkLen(r) = Len(Prompt[r])}
      ended == Ended(filled, stops)
  IN /\ pc = "advance" /\ Settled /\ G \in ChunkGroups
     /\ stops \subseteq filled
     /\ kv' = [w \in Rows |->
                 IF \E r \in G : row[r] = w THEN Chunked(CHOOSE r \in G : row[r] = w)
                 ELSE IF w \in pads THEN Blank ELSE kv[w]]
     /\ seq' = [r \in Requests |-> IF r \in G THEN seq[r] + ChunkLen(r) ELSE seq[r]]
     /\ gen' = [r \in Requests |-> IF r \in filled THEN 1 ELSE gen[r]]
     /\ over' = over \cup ended
     /\ phase' = [r \in Requests |-> IF r \in ended THEN "ending"
                                     ELSE IF r \in filled THEN "active" ELSE phase[r]]
     /\ todo' = todo \ G
     /\ UNCHANGED <<freeActive, freePrefix, entries, mode, row, hit, src, decodeAfter, pc>>

AdvanceDone ==
  /\ pc = "advance" /\ Settled /\ todo = {}
  /\ pc' = "admit"
  /\ UNCHANGED <<rows, mode, request, todo, decodeAfter>>

(***************************************************************************)
(* Admission (_admit_ready_requests).  Which of the waiting requests go    *)
(* first is a policy: any choice that the capacity allows.                 *)
(***************************************************************************)
\* Mutant: rows of half-prefilled prompts are not counted.
CapacityOfActive == MaxActive - Cardinality(In("active"))

Capacity == MaxActive - Cardinality(In("active") \cup In("prefilling"))

Found(batch) == UNION {Hits(Prompt[r], mode.graph) : r \in batch}

\* _prefill_many looks all of them up before it prefills the first; where suffixes are
\* padded, a lookup may be demoted.
Admit(batch) ==
  /\ pc = "admit"
  /\ batch # {} /\ Cardinality(batch) <= Capacity
  /\ mode.perStep > 0 => Cardinality(batch) <= mode.perStep
  /\ phase' = [r \in Requests |-> IF r \in batch THEN "admitted" ELSE phase[r]]
  /\ IF mode.chunk > 0
     THEN pc' = "prepare" /\ UNCHANGED <<hit, src>>
     ELSE /\ \E found \in [batch -> Found(batch)] :
               /\ \A r \in batch : found[r] \in Hits(Prompt[r], mode.graph)
               /\ hit' = [r \in Requests |-> IF r \in batch THEN found[r].tokens ELSE hit[r]]
               /\ src' = [r \in Requests |-> IF r \in batch THEN found[r].row ELSE src[r]]
          /\ pc' = "prefill"
  /\ todo' = batch
  /\ UNCHANGED <<rows, mode, row, gen, seq, over, decodeAfter>>

AfterPrefill == IF decodeAfter THEN "filter" ELSE "release"

\* Nothing waits, no row is free, or admission waits for more free rows, more ready
\* requests or a later step, which it does only while rows are in use.
AdmitNone ==
  /\ pc = "admit"
  /\ In("waiting") = {} \/ Capacity < MaxActive
  /\ pc' = AfterPrefill
  /\ UNCHANGED <<rows, mode, request, todo, decodeAfter>>

(***************************************************************************)
(* Prefill (_prefill_many): the groups that reuse a prefix, then the rest. *)
(***************************************************************************)
Hitting == {r \in todo : hit[r] > 0}

\* Suffixes padded to one length let one batch serve a whole prefix, or (mixed
\* prefixes) all of them.
Padded == mode.graph \/ pc = "plain"

PrefixGroups ==
  {{q \in Hitting : hit[q] = hit[r] /\ (Padded \/ Len(Prompt[q]) = Len(Prompt[r]))} : r \in Hitting}
    \cup (IF Padded THEN {Hitting} ELSE {})

PlainGroups ==
  {todo} \cup {{q \in todo : Len(Prompt[q]) = Len(Prompt[r])} : r \in todo}

\* G gets rows, the reused prefix is copied, the rest of the prompt computed and
\* the first token sampled.
Fill(G, stops, pads) ==
  /\ \E f \in ActiveRowsFor(G) :
       LET taken == {f[r] : r \in G}
       IN /\ kv' = [w \in Rows |->
                      IF w \in taken
                      THEN LET r == CHOOSE r \in G : f[r] = w
                           IN Put(IF hit[r] = 0 THEN Blank ELSE CopyOf(src[r], hit[r]), hit[r],
                                  SubSeq(Prompt[r], hit[r] + 1, Len(Prompt[r])))
                      ELSE IF w \in pads \ taken THEN Blank ELSE kv[w]]
          /\ freeActive' = freeActive \ taken
          /\ row' = [r \in Requests |-> IF r \in G THEN f[r] ELSE row[r]]
  /\ phase' = [r \in Requests |-> IF r \in G THEN "filled" ELSE phase[r]]
  /\ seq' = [r \in Requests |-> IF r \in G THEN Len(Prompt[r]) ELSE seq[r]]
  /\ gen' = [r \in Requests |-> IF r \in G THEN 1 ELSE gen[r]]
  /\ over' = over \cup Ended(G, stops)
  /\ todo' = todo \ G
  /\ UNCHANGED <<freePrefix, entries, mode, hit, src, decodeAfter, pc>>

\* _acquire_active_row finds none: "no active serving rows available".
Raise ==
  /\ pc' = "raised"
  /\ UNCHANGED <<rows, mode, request, todo, decodeAfter>>

FillOrRaise(G, stops, pads) ==
  IF Cardinality(G) > Cardinality(freeActive) THEN Raise ELSE Fill(G, stops, pads)

PrefillPrefixGroup(G, stops, pads) ==
  /\ pc \in {"prefill", "plain"} /\ Settled /\ G \in PrefixGroups /\ G # {}
  /\ ~mode.graph => pads = {}
  /\ FillOrRaise(G, stops, pads)

\* The prompts left share a long enough prefix: it is prefilled once, into a row
\* that becomes the common prefix's, and they all copy from it.
SharedPrompts(G) ==
  IF Cardinality(G) > 1 THEN CommonCount({Prompt[r] : r \in G}) ELSE 0

\* _store_reusable_prefix_tokens_in_row: an entry that the route of these tokens has
\* already is taken out, its row cleared and freed.
StoreCommon(tokens, choice) ==
  LET old == Replaced(choice.left, tokens)
  IN /\ entries' = WithEntry(old.left, tokens, choice.row, TRUE)
     /\ freePrefix' = (freePrefix \ {choice.row}) \cup old.freed
     /\ kv' = [w \in Rows |-> IF w = choice.row THEN Put(Blank, 0, tokens)
                              ELSE IF w \in old.freed THEN Blank ELSE kv[w]]

PrefillCommon ==
  LET n == SharedPrompts(todo)
  IN /\ pc = "prefill" /\ Settled /\ Hitting = {} /\ todo # {}
     /\ IF n >= MinCommon /\ PrefixRowChoices(mode.pin) # {}
        THEN \E choice \in PrefixRowChoices(mode.pin) :
               /\ StoreCommon(SubSeq(Prompt[CHOOSE r \in todo : TRUE], 1, n), choice)
               /\ hit' = [r \in Requests |-> IF r \in todo THEN n ELSE hit[r]]
               /\ src' = [r \in Requests |-> IF r \in todo THEN choice.row ELSE src[r]]
        ELSE UNCHANGED <<entries, freePrefix, kv, hit, src>>
     /\ pc' = "plain"
     /\ UNCHANGED <<freeActive, mode, phase, row, gen, seq, over, todo, decodeAfter>>

PrefillPlainGroup(G, stops, pads) ==
  /\ pc = "plain" /\ Settled /\ Hitting = {} /\ G \in PlainGroups /\ G # {}
  /\ pads = {}
  /\ FillOrRaise(G, stops, pads)

\* _store_reusable_prefix: with a pinned shared prefix the whole prompt is not
\* stored now (it may be adopted when the request finishes).
Store(r) ==
  /\ phase[r] = "filled"
  /\ IF mode.storeFull /\ ~mode.pin /\ PrefixRowChoices(FALSE) # {}
     THEN \E choice \in PrefixRowChoices(FALSE) :
            /\ entries' = WithEntry(choice.left, Prompt[r], choice.row, FALSE)
            /\ freePrefix' = freePrefix \ {choice.row}
            /\ kv' = [kv EXCEPT ![choice.row] = CopyOf(row[r], Len(Prompt[r]))]
     ELSE UNCHANGED <<entries, freePrefix, kv>>
  /\ phase' = [phase EXCEPT ![r] = "active"]
  /\ UNCHANGED <<freeActive, mode, row, gen, seq, hit, src, over, todo, decodeAfter, pc>>

PrefillDone ==
  /\ pc \in {"prefill", "plain"} /\ Settled /\ todo = {}
  /\ pc' = AfterPrefill
  /\ UNCHANGED <<rows, mode, request, todo, decodeAfter>>

(***************************************************************************)
(* Chunked admission (_admit_to_prefilling).                               *)
(***************************************************************************)
\* _prepare_chunked_common_prefix_for_admission: every request keeps its last
\* token to compute.
PrepareCommon ==
  LET n == Min({SharedPrompts(todo)} \cup {Len(Prompt[r]) - 1 : r \in todo})
      tokens == SubSeq(Prompt[CHOOSE r \in todo : TRUE], 1, n)
      known == \E i \in DOMAIN entries : entries[i].common /\ entries[i].tokens = tokens
  IN /\ pc = "prepare"
     /\ IF n >= MinCommon /\ ~known /\ PrefixRowChoices(mode.pin) # {}
        THEN \E choice \in PrefixRowChoices(mode.pin) : StoreCommon(tokens, choice)
        ELSE UNCHANGED <<entries, freePrefix, kv>>
     /\ pc' = "take"
     /\ UNCHANGED <<freeActive, mode, request, todo, decodeAfter>>

TakeRow(r) ==
  /\ pc = "take" /\ r \in todo
  /\ IF freeActive = {} THEN Raise
     ELSE /\ \E f \in ActiveRowsFor({r}) :
               /\ row' = [row EXCEPT ![r] = f[r]]
               /\ freeActive' = freeActive \ {f[r]}
               /\ kv' = [kv EXCEPT ![f[r]] = Blank]
          /\ \E found \in Hits(Prompt[r], FALSE) :
               /\ hit' = [hit EXCEPT ![r] = found.tokens]
               /\ src' = [src EXCEPT ![r] = found.row]
               /\ seq' = [seq EXCEPT ![r] = found.tokens]
          /\ phase' = [phase EXCEPT ![r] = "prefilling"]
          /\ todo' = todo \ {r}
          /\ UNCHANGED <<freePrefix, entries, mode, gen, over, decodeAfter, pc>>

TakeDone ==
  /\ pc = "take" /\ todo = {}
  /\ pc' = AfterPrefill
  /\ UNCHANGED <<rows, mode, request, todo, decodeAfter>>

\* _release_online_prefill_finished: a decode-first engine retires at once what
\* its prefill already finished.
Release ==
  /\ pc = "release"
  /\ phase' = [r \in Requests |->
                 IF mode.decodeFirst /\ phase[r] = "active" /\ r \in over THEN "ending" ELSE phase[r]]
  /\ todo' = {}
  /\ pc' = "idle"
  /\ UNCHANGED <<rows, mode, row, gen, seq, hit, src, over, decodeAfter>>

Step ==
  \/ \E r \in Requests : Retire(r) \/ Store(r) \/ TakeRow(r)
  \/ StartStep \/ Decide \/ Filter \/ DecodeDone \/ AdvanceDone
  \/ \E G \in SUBSET todo : \E stops \in SUBSET G, pads \in PadRows :
       /\ \/ DecodeGroup(G, stops, pads)
          \/ ChunkGroup(G, stops, pads)
          \/ PrefillPrefixGroup(G, stops, pads)
          \/ PrefillPlainGroup(G, stops, pads)
  \/ StartBurst \/ BurstDone
  \/ \E stops \in SUBSET todo, pads \in PadRows : BurstStep(stops, pads)
  \/ \E batch \in SUBSET In("waiting") : Admit(batch)
  \/ AdmitNone \/ PrefillCommon \/ PrefillDone
  \/ PrepareCommon \/ TakeDone \/ Release

Next == (\E r \in Requests : Submit(r)) \/ Step

Spec == Init /\ [][Next]_vars /\ WF_vars(Step)

-----------------------------------------------------------------------------
Phases == {"new", "waiting", "admitted", "filled", "prefilling", "active",
           "pending", "ending", "done"}
Holding == {"filled", "prefilling", "active", "pending", "ending"}

\* The state is well typed: no request generates more tokens than it may, none fills
\* more positions than its row has (_finish_reason_for_token, _apply_decoded_tokens).
TypeOK ==
  /\ mode \in Modes
  /\ phase \in [Requests -> Phases] /\ over \subseteq Requests /\ todo \subseteq Requests
  /\ freeActive \subseteq Rows /\ freePrefix \subseteq Rows
  /\ \A i \in DOMAIN entries : entries[i].row \in Rows /\ Len(entries[i].tokens) <= MaxLen
  /\ \A r \in Requests :
       /\ row[r] \in Rows \cup {NoRow} /\ src[r] \in Rows \cup {NoRow}
       /\ gen[r] \in 0..MaxNew[r] /\ seq[r] \in 0..MaxLen /\ hit[r] \in 0..MaxLen
  /\ decodeAfter \in BOOLEAN

Held == {r \in Requests : phase[r] \in Holding}
HeldRows == {row[r] : r \in Held}

\* Every physical row has exactly one owner: the free active list, the free prefix
\* list, one reusable prefix or one request.  Adopting a finished request's row as a
\* reusable prefix and evicting a prefix move rows between the sides, and however
\* often they do, the active side keeps max_active_requests rows.
RowsPartitioned ==
  /\ Rows = freeActive \cup HeldRows \cup freePrefix \cup EntryRows
  /\ freeActive \cap HeldRows = {} /\ freePrefix \cap EntryRows = {}
  /\ (freeActive \cup HeldRows) \cap (freePrefix \cup EntryRows) = {}
  /\ \A r, q \in Held : r # q => row[r] # row[q]
  /\ DistinctRows(entries)
  /\ Cardinality(freeActive \cup HeldRows) = MaxActive

\* Where the first seq[r] (or, before the copy, hit[r]) positions of r are.
Source(r) ==
  IF phase[r] = "admitted" \/ (phase[r] = "prefilling" /\ seq[r] = hit[r]) THEN src[r] ELSE row[r]
Filled(r) == IF phase[r] = "admitted" THEN hit[r] ELSE seq[r]

\* A reusable prefix's row holds the KV of exactly its tokens, and a request attends
\* to the KV of its own tokens only: whatever was copied, padded, adopted, evicted or
\* decoded in between, up to and including the row a lookup found and has not copied
\* yet (_copy_prefix, _store_reusable_prefix_tokens_adopt, _decode_batch).
KVMatches ==
  /\ \A i \in DOMAIN entries : HoldsPrefix(kv[entries[i].row], entries[i].tokens)
  /\ \A r \in Requests : phase[r] \in {"admitted", "filled", "prefilling", "active"} =>
       \A i \in 1..Filled(r) : kv[Source(r)][i] = TokensOf(r)[i]

\* Admission counts the rows in use well enough that _acquire_active_row never
\* raises "no active serving rows available".
RowsSuffice == pc # "raised"

\* A common prefix that lookups return keeps its row; one they do not return any more
\* may also have been stored again, and is then returned from its new row.
Kept(e) ==
  \E k \in DOMAIN entries' :
    /\ entries'[k].common /\ entries'[k].tokens = e.tokens
    /\ entries'[k].row = e.row \/ (~e.indexed /\ entries'[k].indexed)

PrefixesKept == \A i \in DOMAIN entries : mode.pin /\ entries[i].common => Kept(entries[i])

\* Pinning (shared prefixes stay): once stored, a common prefix is never given up while
\* other prefixes come and go.  As long as lookups return it, it also keeps its row: the
\* replacement in _store_reusable_prefix_tokens_in_row only meets one that an adopted
\* prompt has displaced in the index (_acquire_prefix_row, _adopt_reusable_prefix_tokens).
PinnedStays == [][PrefixesKept]_vars

\* A submitted request is eventually answered, with more requests than rows, as long
\* as step_online() is called while there is work: no row is lost on the way, and no
\* pass of the step leaves a request behind.
Answered(r) == phase[r] \in {"pending", "ending", "done"}
AllAnswered == \A r \in Requests : phase[r] = "waiting" ~> Answered(r)

=============================================================================
