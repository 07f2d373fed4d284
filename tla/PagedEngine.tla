---------------------------- MODULE PagedEngine ----------------------------
(***************************************************************************)
(* The paged continuous-batching engine of runtime/paged_serving.py:       *)
(* PagedEngine (submit / step / start_online) over the page pool of        *)
(* PagedPool, with the zero-copy prefix cache PagedPrefixCache.            *)
(*                                                                         *)
(* step() runs on one thread.  Its phases are separate actions ordered by  *)
(* pc so that every action performs at most one operation of the pool:     *)
(*   idle -> admit <-> reserve -> prefill -> settle -> decode -> emit      *)
(* with draft before emit when the step decodes speculatively              *)
(* and, for a request that finishes, remember -> evict -> free.  Only      *)
(* Submit and StartOnline are calls from outside, between two steps.       *)
(*                                                                         *)
(* The KV value a forward pass writes is represented by the token prefix   *)
(* it was computed for; << >> marks a slot not written since its page was  *)
(* allocated (torch.empty, or what the last owner left there).             *)
(***************************************************************************)
EXTENDS PrefillGroups, FiniteSets

CONSTANTS Pages,        \* the pool
          MaxActive,    \* max_active
          Capacity,     \* prefix-cache entries; 0 when the cache is disabled
          Tokens,       \* the vocabulary
          Eos,          \* the stop token of every request
          Prompts,      \* prompts a client may submit
          MaxNews,      \* max_new_tokens a client may ask for
          SpecK,        \* drafted tokens of a speculative step; 0 when it is off
          MaxRequests,  \* bound on the requests submitted
          MaxFailures   \* bound on the model calls that raise

ASSUME EngineAssumption ==
  /\ IsFiniteSet(Pages) /\ MaxActive \in Nat \ {0} /\ Capacity \in Nat
  /\ MaxRequests \in Nat /\ MaxFailures \in Nat
  /\ SpecK \in Nat /\ Eos \in Tokens /\ Prompts \subseteq Seq(Tokens) \ {<< >>}
  /\ MaxNews \subseteq Nat \ {0}
  /\ \A p \in Prompts, n \in MaxNews : Len(p) + n <= MaxSeq

Rids == 1..MaxRequests
TableOf(r) == <<"seq", r>>      \* the block table of request r
KeptBy(r) == <<"kept", r>>    \* the pages the prefix cache retains of request r

VARIABLES free, refcount, table,   \* the pool
          kv,        \* page -> offset -> the prefix whose KV is there
          entries,   \* PagedPrefixCache._entries: rid -> tokens, << >> if absent
          order,     \* insertion order of _entries
          lru,       \* PagedPrefixCache._lru
          pending,   \* self._pending: <<ext, prompt, max_new>>
          submitted, \* number of requests submitted, also the next ext id
          nextRid,   \* self._next_rid
          req,       \* what the engine keeps of each admitted request
          admitted,  \* admitted in this step, prefill still to come
          groups,    \* the prefill groups planned for the wave and not yet run
          settling,  \* the prefill group in hand, first token still to be handled
          padTo,     \* tokens per row of that group's forward pass
          active,    \* self._active
          emitting,  \* decoded in this step, token still to be handled
          verified,  \* per request, the tokens a speculative step found for it
          retiring,  \* the finished request being retired, 0 if none
          done,      \* ext ids whose last event had finished = True
          failures,  \* model calls that raised so far
          pc

pool == <<free, refcount, table>>
cacheVars == <<entries, order, lru>>
batch == <<admitted, groups, settling, padTo, active, emitting, verified,
           retiring>>
vars == <<pool, kv, cacheVars, pending, submitted, nextRid, req, batch, done, failures, pc>>

Owners == {TableOf(r) : r \in Rids} \cup {KeptBy(r) : r \in Rids}

Pool == INSTANCE PagedPool WITH MaxTable <- Ceil(MaxSeq + SpecK)

NoRequest == [ext |-> 0, prompt |-> << >>, gen |-> << >>, maxNew |-> 0, shared |-> 0]

ToksOf(r) == req[r].prompt \o req[r].gen

Init ==
  /\ Pool!Init
  /\ kv = [p \in Pages |-> [i \in 0..PageSize - 1 |-> << >>]]
  /\ entries = [r \in Rids |-> << >>] /\ order = << >> /\ lru = << >>
  /\ pending = << >> /\ submitted = 0 /\ nextRid = 1
  /\ req = [r \in Rids |-> NoRequest]
  /\ admitted = << >> /\ groups = << >> /\ settling = << >> /\ padTo = 0 /\ active = << >>
  /\ emitting = << >> /\ verified = [r \in Rids |-> << >>] /\ retiring = 0
  /\ done = {} /\ failures = 0 /\ pc = "idle"

(***************************************************************************)
(* Calls of the online batcher.                                            *)
(***************************************************************************)
Submit(prompt, maxNew) ==
  /\ pc = "idle" /\ submitted < MaxRequests
  /\ submitted' = submitted + 1
  /\ pending' = Append(pending, [ext |-> submitted + 1, prompt |-> prompt, maxNew |-> maxNew])
  /\ UNCHANGED <<pool, kv, cacheVars, nextRid, req, batch, done, failures, pc>>

\* The batcher calls step() while has_work().
BeginStep ==
  /\ pc = "idle" /\ (pending # << >> \/ active # << >>)
  /\ pc' = "admit"
  /\ UNCHANGED <<pool, kv, cacheVars, pending, submitted, nextRid, req, batch, done, failures>>

(***************************************************************************)
(* Admission: bounded by max_active and by free pages, in arrival order.   *)
(***************************************************************************)
\* Mutant: admission counts the pages of the prompt only.
NeedPrompt(q) == Ceil(Len(q.prompt))

Need(q) == Ceil(Len(q.prompt) + q.maxNew)

CanAdmit ==
  /\ Len(active) + Len(admitted) < MaxActive
  /\ pending # << >>
  /\ Need(Head(pending)) <= Cardinality(free)

\* Mutant: the last, partly equal page counts as shared.
AlignedUp(s, t) ==
  LET common == Max({n \in 0..Len(s) : n <= Len(t) /\ SubSeq(s, 1, n) = SubSeq(t, 1, n)})
  IN Min({Ceil(common) * PageSize, Len(t)})

\* Tokens two sequences share at the front, in whole pages.
AlignedCommon(s, t) ==
  LET common == Max({n \in 0..Len(s) : n <= Len(t) /\ SubSeq(s, 1, n) = SubSeq(t, 1, n)})
  IN (common \div PageSize) * PageSize

\* The radix router indexes every page boundary of every entry, a boundary of
\* several entries routing to the one indexed last; it is rebuilt in the order of
\* _entries when one is dropped, so it is determined by that order.
Depth(prompt) == Max({0} \cup {AlignedCommon(prompt, entries[e]) : e \in Range(order)})
Route(prompt) ==
  order[Max({i \in DOMAIN order : AlignedCommon(prompt, entries[order[i]]) = Depth(prompt)})]

Without(s, e) == Subsequence(s, {i \in DOMAIN s : s[i] # e})

Touch(e) == Append(Without(lru, e), e)

\* PagedPrefixCache.share_into for a fresh request r.
ShareInto(r, prompt) ==
  IF Depth(prompt) >= PageSize
  THEN /\ Pool!Alias(KeptBy(Route(prompt)), TableOf(r), Depth(prompt) \div PageSize)
       /\ lru' = Touch(Route(prompt))
  ELSE UNCHANGED <<pool, lru>>

\* Mutant: steps a page back from the last token, without max(0, ...).
SharedTokensBack(prompt) ==
  IF Depth(prompt) >= Len(prompt) THEN Len(prompt) - 1 - PageSize ELSE Depth(prompt)

\* What is left to prefill: a whole cached prompt still recomputes its last page.
SharedTokens(prompt) ==
  IF Depth(prompt) >= Len(prompt)
  THEN ((Len(prompt) - 1) \div PageSize) * PageSize
  ELSE Depth(prompt)

Admit ==
  /\ pc = "admit" /\ CanAdmit
  /\ LET q == Head(pending)
     IN /\ ShareInto(nextRid, q.prompt)
        /\ req' = [req EXCEPT ![nextRid] =
                     [ext |-> q.ext, prompt |-> q.prompt, gen |-> << >>,
                      maxNew |-> q.maxNew, shared |-> SharedTokens(q.prompt)]]
  /\ pending' = Tail(pending)
  /\ nextRid' = nextRid + 1
  /\ admitted' = Append(admitted, nextRid)
  /\ pc' = "reserve"
  /\ UNCHANGED <<kv, entries, order, submitted, groups, settling, padTo, active, emitting, verified, retiring, done, failures>>

\* The pages a step allocates hold whatever was there before.
ForgetFresh ==
  kv' = [p \in Pages |-> IF p \in free \ free' THEN [i \in 0..PageSize - 1 |-> << >>] ELSE kv[p]]

\* Mutant: reserves the prompt, not the tokens to be generated.
ReservePromptOnly ==
  LET r == Last(admitted)
  IN /\ pc = "reserve"
     /\ Pool!Reserve(TableOf(r), Ceil(Len(req[r].prompt)))
     /\ ForgetFresh
     /\ pc' = "admit"
     /\ UNCHANGED <<cacheVars, pending, submitted, nextRid, req, batch, done, failures>>

ReserveAdmitted ==
  LET r == Last(admitted)
  IN /\ pc = "reserve"
     /\ Pool!Reserve(TableOf(r), Ceil(Len(req[r].prompt) + req[r].maxNew))
     /\ ForgetFresh
     /\ pc' = "admit"
     /\ UNCHANGED <<cacheVars, pending, submitted, nextRid, req, batch, done, failures>>

\* A row of the wave, as the grouping of PrefillGroups sees it.
RowOf(r) == [rid |-> r, shared |-> req[r].shared,
             suffix |-> Len(req[r].prompt) - req[r].shared, pages |-> Len(table[TableOf(r)])]

(***************************************************************************)
(* Nothing more to admit: plan the prefill groups of the wave.  The flags  *)
(* and the state of the graph path select among the plans.                 *)
(***************************************************************************)
EndAdmit ==
  /\ pc = "admit" /\ ~CanAdmit
  /\ \E pad, bucketed, graph \in BOOLEAN :
       groups' = WaveGroups([i \in DOMAIN admitted |-> RowOf(admitted[i])], Cardinality(free),
                            pad, bucketed, graph)
  /\ pc' = IF admitted # << >> THEN "prefill" ELSE "decode"
  /\ UNCHANGED <<pool, kv, cacheVars, pending, submitted, nextRid, req, admitted, settling, padTo,
                 active, emitting, verified, retiring, done, failures>>

(***************************************************************************)
(* Prefill, one group per forward pass, in the order of the plan.          *)
(***************************************************************************)
TakeGroup ==
  LET g == Head(groups)
      rids == [i \in DOMAIN g.rows |-> g.rows[i].rid]
  IN /\ pc = "prefill"
     /\ settling' = rids /\ padTo' = g.len /\ groups' = Tail(groups)
     /\ admitted' = Subsequence(admitted, {i \in DOMAIN admitted : admitted[i] \notin Range(rids)})
     /\ pc' = "pad"
     /\ UNCHANGED <<pool, kv, cacheVars, pending, submitted, nextRid, req, active, emitting, verified, retiring,
                    done, failures>>

\* Rows of the group whose table does not cover the padded length yet.
Unpadded == {r \in Range(settling) : Pool!Missing(TableOf(r), Ceil(req[r].shared + padTo)) > 0}

ReservePadding ==
  /\ pc = "pad"
  /\ \E r \in Unpadded : Pool!Reserve(TableOf(r), Ceil(req[r].shared + padTo))
  /\ ForgetFresh
  /\ UNCHANGED <<cacheVars, pending, submitted, nextRid, req, batch, done, failures, pc>>

\* The page and offset of position i (counted from 0) of request r.
PageAt(r, i) == table[TableOf(r)][i \div PageSize + 1]

\* The writes of request r at some positions: the KV of its tokens, or, by padding
\* past them, of no sequence at all.
WritesOf(r, toks, positions) ==
  {[rid |-> r, pos |-> i, val |-> IF i < Len(toks) THEN SubSeq(toks, 1, i + 1) ELSE << >>] : i \in positions}

\* kv after a forward pass.  Two rows may write one slot only when they share it,
\* and then write the same value (KVIsolated would fail for one of them otherwise).
Scatter(writes) ==
  [p \in Pages |-> [o \in 0..PageSize - 1 |->
     LET vals == {x.val : x \in {x \in writes : PageAt(x.rid, x.pos) = p /\ x.pos % PageSize = o}}
     IN IF vals = {} THEN kv[p][o] ELSE CHOOSE v \in vals : TRUE]]

\* The forward pass of the group: positions shared .. shared + padTo - 1 of each
\* row; what padding writes past the prompt is of no sequence.
Forward ==
  /\ pc = "pad" /\ Unpadded = {}
  /\ kv' = Scatter(UNION {WritesOf(r, req[r].prompt, req[r].shared .. (req[r].shared + padTo - 1)) :
                           r \in Range(settling)})
  /\ pc' = "settle"
  /\ UNCHANGED <<pool, cacheVars, pending, submitted, nextRid, req, batch, done, failures>>

(***************************************************************************)
(* _retire_or_activate, and the bookkeeping of a decoded token.            *)
(***************************************************************************)
\* Where the tokens found for r end it: its last token, or the first stop token.
Ends(r, toks) == {n \in DOMAIN toks : Len(req[r].gen) + n >= req[r].maxNew \/ toks[n] = Eos}

Taken(r, toks) == SubSeq(toks, 1, Min(Ends(r, toks) \cup {Len(toks)}))

\* Mutant: a request that goes on displaces the others in the active set.
TakeTokensDisplaces(r, toks) ==
  /\ req' = [req EXCEPT ![r].gen = @ \o Taken(r, toks)]
  /\ IF Ends(r, toks) # {}
     THEN /\ retiring' = r /\ done' = done \cup {req[r].ext}
          /\ pc' = "remember" /\ UNCHANGED active
     ELSE /\ active' = <<r>>
          /\ UNCHANGED <<retiring, done, pc>>

\* Hand out the tokens found for r; it retires now or stays in the active set.
TakeTokens(r, toks) ==
  /\ req' = [req EXCEPT ![r].gen = @ \o Taken(r, toks)]
  /\ IF Ends(r, toks) # {}
     THEN /\ retiring' = r /\ done' = done \cup {req[r].ext}
          /\ pc' = "remember" /\ UNCHANGED active
     ELSE /\ active' = Append(active, r)
          /\ UNCHANGED <<retiring, done, pc>>

Settle ==
  /\ pc = "settle" /\ settling # << >>
  /\ \E tok \in Tokens : TakeTokens(Head(settling), <<tok>>)
  /\ settling' = Tail(settling)
  /\ UNCHANGED <<pool, kv, cacheVars, pending, submitted, nextRid, admitted, groups, padTo, emitting, verified, failures>>

EndSettle ==
  /\ pc = "settle" /\ settling = << >>
  /\ padTo' = 0
  /\ pc' = IF groups # << >> THEN "prefill" ELSE "decode"
  /\ UNCHANGED <<pool, kv, cacheVars, pending, submitted, nextRid, req, admitted, groups, settling, active,
                 emitting, verified, retiring, done, failures>>

(***************************************************************************)
(* Decode: one forward pass writes the KV of every active request's last   *)
(* token, then each request gets its next token.                           *)
(***************************************************************************)
\* Mutant: writes the slot after the last token.
DecodeOneLate ==
  /\ pc = "decode" /\ active # << >>
  /\ kv' = Scatter(UNION {WritesOf(r, ToksOf(r), {Min({Len(ToksOf(r)), Len(table[TableOf(r)]) * PageSize - 1})}) :
                           r \in Range(active)})
  /\ emitting' = active /\ active' = << >>
  /\ pc' = "emit"
  /\ UNCHANGED <<pool, cacheVars, pending, submitted, nextRid, req, admitted, groups, settling, padTo,
                 verified, retiring, done, failures>>

Decode ==
  /\ pc = "decode" /\ active # << >>
  /\ kv' = Scatter(UNION {WritesOf(r, ToksOf(r), {Len(ToksOf(r)) - 1}) : r \in Range(active)})
  /\ emitting' = active /\ active' = << >>
  /\ pc' = "emit"
  /\ UNCHANGED <<pool, cacheVars, pending, submitted, nextRid, req, admitted, groups, settling, padTo,
                 verified, retiring, done, failures>>

NothingActive ==
  /\ pc = "decode" /\ active = << >>
  /\ pc' = "idle"
  /\ UNCHANGED <<pool, kv, cacheVars, pending, submitted, nextRid, req, batch, done, failures>>

(***************************************************************************)
(* _decode_spec.  Each row runs its last token and SpecK drafts; greedy    *)
(* verification keeps the drafts that are what the model would have said   *)
(* anyway and adds the token after them.  Where drafts come from does not  *)
(* matter: any number of them may be kept.                                 *)
(***************************************************************************)
BeginDraft ==
  /\ pc = "decode" /\ active # << >> /\ SpecK > 0
  /\ pc' = "draft"
  /\ UNCHANGED <<pool, kv, cacheVars, pending, submitted, nextRid, req, batch, done, failures>>

DraftPages(r) == Ceil(Len(ToksOf(r)) + SpecK)

\* Rows whose table does not cover their drafts yet, in the order of the loop.
Uncovered ==
  Subsequence(active, {i \in DOMAIN active : Pool!Missing(TableOf(active[i]), DraftPages(active[i])) > 0})

ReserveDrafts ==
  /\ pc = "draft" /\ Uncovered # << >>
  /\ Pool!Reserve(TableOf(Head(Uncovered)), DraftPages(Head(Uncovered)))
  /\ ForgetFresh
  /\ UNCHANGED <<cacheVars, pending, submitted, nextRid, req, batch, done, failures, pc>>

\* Admission did not count the drafts: reserve() may raise, out of step().
DraftsOutOfPages ==
  /\ pc = "draft" /\ Uncovered # << >>
  /\ Pool!ReserveOutOfPages(TableOf(Head(Uncovered)), DraftPages(Head(Uncovered)))
  /\ ForgetFresh
  /\ pc' = "failed"
  /\ UNCHANGED <<cacheVars, pending, submitted, nextRid, req, batch, done, failures>>

\* The forward pass over the rows: behind the drafts that are kept, what is written is
\* of no sequence.
Verify ==
  /\ pc = "draft" /\ Uncovered = << >>
  /\ \E found \in [Range(active) -> UNION {[1..n -> Tokens] : n \in 1..SpecK + 1}] :
       /\ kv' = Scatter(UNION {WritesOf(r, ToksOf(r) \o Front(found[r]),
                                       (Len(ToksOf(r)) - 1) .. (Len(ToksOf(r)) + SpecK - 1)) :
                               r \in Range(active)})
       /\ verified' = [r \in Rids |-> IF r \in Range(active) THEN found[r] ELSE << >>]
  /\ emitting' = active /\ active' = << >>
  /\ pc' = "emit"
  /\ UNCHANGED <<pool, cacheVars, pending, submitted, nextRid, req, admitted, groups, settling,
                 padTo, retiring, done, failures>>

\* A token per row, or what verification found for it.
Emit ==
  LET r == Head(emitting)
  IN /\ pc = "emit" /\ emitting # << >>
     /\ \E toks \in IF verified[r] # << >> THEN {verified[r]} ELSE {<<tok>> : tok \in Tokens} :
          TakeTokens(r, toks)
     /\ emitting' = Tail(emitting) /\ verified' = [verified EXCEPT ![r] = << >>]
     /\ UNCHANGED <<pool, kv, cacheVars, pending, submitted, nextRid, admitted, groups, settling,
                    padTo, failures>>

EndStep ==
  /\ pc = "emit" /\ emitting = << >>
  /\ pc' = "idle"
  /\ UNCHANGED <<pool, kv, cacheVars, pending, submitted, nextRid, req, batch, done, failures>>

(***************************************************************************)
(* Retirement: remember the sequence in the prefix cache, evict the least  *)
(* recently used entries beyond the capacity, free the block table.        *)
(***************************************************************************)
\* Full pages of prompt and generated tokens, the last token included.
FullPages(r) == Min({Len(table[TableOf(r)]), Len(ToksOf(r)) \div PageSize})

\* Mutant: the entry keeps the pages without retaining them.
RememberWithoutRetain ==
  /\ pc = "remember" /\ Capacity > 0 /\ FullPages(retiring) > 0
  /\ table' = [table EXCEPT ![KeptBy(retiring)] = SubSeq(table[TableOf(retiring)], 1, FullPages(retiring))]
  /\ entries' = [entries EXCEPT ![retiring] = SubSeq(ToksOf(retiring), 1, FullPages(retiring) * PageSize)]
  /\ order' = Append(order, retiring)
  /\ lru' = Append(lru, retiring)
  /\ pc' = "evict"
  /\ UNCHANGED <<free, refcount, kv, pending, submitted, nextRid, req, batch, done, failures>>

Remember ==
  /\ pc = "remember" /\ Capacity > 0 /\ FullPages(retiring) > 0
  /\ Pool!Alias(TableOf(retiring), KeptBy(retiring), FullPages(retiring))
  /\ entries' = [entries EXCEPT ![retiring] = SubSeq(ToksOf(retiring), 1, FullPages(retiring) * PageSize)]
  /\ order' = Append(order, retiring)
  /\ lru' = Append(lru, retiring)
  /\ pc' = "evict"
  /\ UNCHANGED <<kv, pending, submitted, nextRid, req, batch, done, failures>>

NothingToRemember ==
  /\ pc = "remember" /\ (Capacity = 0 \/ FullPages(retiring) = 0)
  /\ pc' = "free"
  /\ UNCHANGED <<pool, kv, cacheVars, pending, submitted, nextRid, req, batch, done, failures>>

Evict ==
  /\ pc = "evict" /\ Len(lru) > Capacity
  /\ Pool!Release(KeptBy(Head(lru)))
  /\ entries' = [entries EXCEPT ![Head(lru)] = << >>]
  /\ order' = Without(order, Head(lru))
  /\ lru' = Tail(lru)
  /\ UNCHANGED <<kv, pending, submitted, nextRid, req, batch, done, failures, pc>>

EndEvict ==
  /\ pc = "evict" /\ Len(lru) <= Capacity
  /\ pc' = "free"
  /\ UNCHANGED <<pool, kv, cacheVars, pending, submitted, nextRid, req, batch, done, failures>>

\* Mutant: a finished request keeps its block table.
FreeNothing ==
  /\ pc = "free"
  /\ retiring' = 0
  /\ req' = [req EXCEPT ![retiring] = NoRequest]
  /\ pc' = IF padTo > 0 THEN "settle" ELSE "emit"
  /\ UNCHANGED <<pool, kv, cacheVars, pending, submitted, nextRid, admitted, groups, settling, padTo, active,
                 emitting, verified, done, failures>>

Free ==
  /\ pc = "free"
  /\ Pool!Release(TableOf(retiring))
  /\ retiring' = 0
  /\ req' = [req EXCEPT ![retiring] = NoRequest]
  /\ pc' = IF padTo > 0 THEN "settle" ELSE "emit"
  /\ UNCHANGED <<kv, cacheVars, pending, submitted, nextRid, admitted, groups, settling, padTo, active,
                 emitting, verified, done, failures>>

(***************************************************************************)
(* A model call raises: the exception leaves step() and ends the batcher's *)
(* session.  The next session reuses the persistent engine and resets it   *)
(* with start_online, which forgets the requests but not their pages.      *)
(***************************************************************************)
ModelCallRaises ==
  /\ failures < MaxFailures
  /\ \/ pc = "pad" /\ Unpadded = {}
     \/ pc = "decode" /\ active # << >>
     \/ pc = "draft" /\ Uncovered = << >>
  /\ failures' = failures + 1
  /\ pc' = "failed"
  /\ UNCHANGED <<pool, kv, cacheVars, pending, submitted, nextRid, req, batch, done>>

StartOnline ==
  /\ pc = "failed"
  /\ pending' = << >> /\ active' = << >>
  /\ admitted' = << >> /\ groups' = << >> /\ settling' = << >> /\ padTo' = 0    \* locals of the step that died
  /\ req' = [r \in Rids |-> NoRequest]
  /\ nextRid' = IF Capacity = 0 THEN 1 ELSE nextRid
  /\ pc' = "idle"
  /\ UNCHANGED <<pool, kv, cacheVars, submitted, emitting, verified, retiring, done, failures>>

Step ==
  \/ BeginStep \/ Admit \/ ReserveAdmitted \/ EndAdmit
  \/ TakeGroup \/ ReservePadding \/ Forward \/ Settle \/ EndSettle
  \/ Decode \/ BeginDraft \/ ReserveDrafts \/ DraftsOutOfPages \/ Verify
  \/ NothingActive \/ Emit \/ EndStep
  \/ Remember \/ NothingToRemember \/ Evict \/ EndEvict \/ Free

Next ==
  \/ \E p \in Prompts, n \in MaxNews : Submit(p, n)
  \/ Step \/ ModelCallRaises \/ StartOnline

Spec == Init /\ [][Next]_vars

\* The batcher keeps calling step() while there is work, and a started step ends.
FairSpec == Spec /\ WF_vars(Step)

-----------------------------------------------------------------------------
(* Properties *)

Live == Range(admitted) \cup Range(settling) \cup Range(active) \cup Range(emitting)
        \cup ({retiring} \ {0})

TypeOK ==
  /\ Pool!TypeOK
  /\ kv \in [Pages -> [0..PageSize - 1 -> Seq(Tokens)]]
  /\ entries \in [Rids -> Seq(Tokens)]
  /\ order \in Seq(Rids) /\ lru \in Seq(Rids)
  /\ pending \in Seq([ext : Rids, prompt : Prompts, maxNew : MaxNews])
  /\ submitted \in 0..MaxRequests /\ nextRid \in 1..MaxRequests + 1
  /\ req \in [Rids -> [ext : 0..MaxRequests, prompt : Seq(Tokens), gen : Seq(Tokens),
                       maxNew : Nat, shared : Nat]]
  /\ Live \subseteq Rids /\ padTo \in 0..MaxSeq /\ done \subseteq Rids /\ failures \in 0..MaxFailures
  /\ verified \in [Rids -> Seq(Tokens)]
  /\ pc \in {"idle", "admit", "reserve", "prefill", "pad", "settle", "decode", "draft", "emit",
             "remember", "evict", "free", "failed"}

\* Attention of request r reads the positions below Readable(r): the shared prefix
\* before its prefill, all tokens but the last one between two decode steps.
Readable(r) == IF r \in Range(admitted) THEN req[r].shared ELSE Len(ToksOf(r)) - 1

Prefix(toks, i) == SubSeq(toks, 1, i + 1)

\* No request ever writes into the KV of another: every slot that a request will
\* read, or that the prefix cache keeps, holds the KV of exactly its own tokens or of
\* no sequence (never written since its page was allocated, or padding).
KVIsolated ==
  /\ \A r \in Range(admitted) \cup Range(active) : \A i \in 0..Readable(r) - 1 :
       kv[PageAt(r, i)][i % PageSize] \in {<< >>, Prefix(ToksOf(r), i)}
  /\ \A e \in Range(order) : \A i \in 0..Len(entries[e]) - 1 :
       kv[table[KeptBy(e)][i \div PageSize + 1]][i % PageSize] \in {<< >>, Prefix(entries[e], i)}

\* "identical leading tokens have identical KV": every slot a request reads holds
\* the KV of its own tokens.
KVMatchesTokens ==
  \A r \in Range(admitted) \cup Range(active) : \A i \in 0..Readable(r) - 1 :
    kv[PageAt(r, i)][i % PageSize] = Prefix(ToksOf(r), i)

\* "The sharer only ever WRITES its private suffix/decode pages": past the prompt, the
\* positions an active request may still decode into,
\* those its group pads and those its drafts fill, are inside its table, in pages nobody
\* else refers to, whatever was shared, remembered or evicted meanwhile.
DecodePagesPrivate ==
  LET Private(r, i) == i \div PageSize < Len(table[TableOf(r)]) /\ refcount[PageAt(r, i)] = 1
  IN /\ \A r \in Range(active) :
          \A i \in (Len(ToksOf(r)) - 1) .. (Len(req[r].prompt) + req[r].maxNew - 1) : Private(r, i)
     /\ pc = "pad" /\ Unpadded = {} =>
          \A r \in Range(settling) :
            \A i \in Len(req[r].prompt) .. (req[r].shared + padTo - 1) : Private(r, i)
     /\ pc = "draft" /\ Uncovered = << >> =>
          \A r \in Range(active) :
            \A i \in (Len(ToksOf(r)) - 1) .. (Len(ToksOf(r)) + SpecK - 1) : Private(r, i)

\* Admission tests the free pages before the prefix is shared and before it
\* reserves, and padding before any row reserves: no reserve() of step() raises.
ReserveNeverFails ==
  /\ pc = "reserve" =>
       LET r == Last(admitted)
       IN Pool!Missing(TableOf(r), Ceil(Len(req[r].prompt) + req[r].maxNew)) <= Cardinality(free)
  /\ pc = "pad" =>
       Cardinality(UNION {{r} \X (Len(table[TableOf(r)]) + 1 .. Ceil(req[r].shared + padTo)) :
                           r \in Range(settling)}) <= Cardinality(free)

\* Only a request the engine still works on owns a block table.
NoLeak == \A r \in Rids : table[TableOf(r)] # << >> => r \in Live

\* Every submitted request is in exactly one place: waiting, in work, or answered.
NoRequestLost ==
  \A x \in 1..submitted :
    Cardinality({i \in DOMAIN pending : pending[i].ext = x})
      + Cardinality({r \in Live \ {retiring} : req[r].ext = x})
      + Cardinality(done \cap {x}) = 1

\* The engine drives the pool only through its operations.
PoolSpec == Pool!Spec

\* Every submitted request is eventually answered: freeing the pages of a finished
\* request lets a waiting one be admitted.
AllAnswered == \A x \in Rids : (submitted >= x) ~> (x \in done)

=============================================================================
