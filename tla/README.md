# TorchInferno in TLA+

This directory specifies the parts of TorchInferno (`src/torchinferno`) whose
correctness depends on order: who holds which KV page, what is written before it
is read, what a process sees of another one's memory, and what must happen
eventually. Every module is a translation of code; the comment above a
definition says which. `PROJECT.json` maps each definition to its lines, and
lists runs, hazards, theorems, findings and, for each property, a mutant of the
code that breaks it.

## 1. The system

TorchInferno is a Python inference runtime for language models (about 82 000
lines). A request travels

    HTTP / Engine API -> completion engine -> batcher -> engine.step() -> model
                              |  (queue, batch worker)      |
                              |                             +-- page pool, prefix cache
                              +-- rank 0 -> command ring -> worker ranks

| Component | Code | State it keeps | Operations | What makes it hard |
|---|---|---|---|---|
| Layered page pool | `runtime/paged.py` `LayeredPagedKVCache` | free list, reference counts, block tables | reserve, share_prefix, retain, release, free | counts over long histories; running dry half-way |
| Copy-on-write page cache | `runtime/paged.py` `PagedKVCache`, used by `models/llama3/tensor_parallel.py` | pages, counts, lengths, tensors | append, alias_prefix, truncate, set_length, free | writes to shared pages; failing in the middle of an append |
| Paged engine | `runtime/paged_serving.py` `PagedEngine` | waiting queue, active rows, block tables | submit, step, start_online | waves of rows in one forward pass; admission at the limit of the pool |
| Prefix cache | `runtime/paged_serving.py` `PagedPrefixCache`, `runtime/prefix.py` | entries, LRU, radix index | remember, share_into, evict | pages of finished requests are read by new ones |
| Command ring | `runtime/shm_broadcast.py` | slots and flags in shared memory | enqueue, dequeue | several processes, no lock, no fence |
| Tensor-parallel command transport | `openai_server.py` 15392-15565, 16525 | which channel carries the next command | broadcast, receive, fall back | two channels, ranks must agree |
| Completion engine, online batcher | `openai_server.py` | prompt cache, encode jobs, request queue, live set, model lock, stream queues | generate, complete, close, batch worker, online session, encode leader | threads, shutdown, leader election, who takes the sentinel |
| Engine facade | `engine/engine.py` | active and cancelled ids, closed flag | generate_stream, cancel, close, async bridge | cancellation racing start and end |
| Dense continuous batching | `runtime/serving.py`, `runtime/prefix_cache.py`, `runtime/prefix.py` | active and prefix rows, reusable prefixes, waiting, prefilling, active and pending sets | submit_online, step_online, step_online_many, chunked prefill, store, adopt, evict | row ownership, prefix source rows going stale, deferred clean-up |
| Schedulers | `runtime/scheduler.py` | rows, queues, token budgets | schedule, apply, finish | mirror of what the runtime did |
| Disaggregation | `runtime/disagg.py`, `runtime/disaggregated.py` | prefill and decode roles, transfers | send, receive, route | two roles, transfer order |
| Offload, CUDA graphs, decode runner | `runtime/offload.py`, `cudagraphs.py`, `decode_runner.py` | device buffers, captured graphs | capture, replay | device behaviour |
| HTTP, protocol | `openai_http.py`, `server/` | none beyond a connection | parse, format | I/O |
| Models, kernels, graph compiler | `models/`, `kernels/`, `compiler.py`, `graph/` | tensors | forward | numerics |
| CLI, profiling, simulation, research, benchmarks | `cli.py`, `profiling.py`, `runtime/simulation.py`, `research/`, `benchmarks/` | none that serves requests | drivers | measurements |

What makes each of them correct, in one line:

* page pool: a page's count is the number of tables and entries that list it; it
  is free exactly at 0; no table lists a page twice;
* copy-on-write cache: sequences are independent of each other, and an append
  adds all of its tokens or none;
* paged engine: nobody writes KV another request reads; attention reads KV of
  the request's own tokens; no `reserve` of a step raises; every request is
  answered; pages belong to requests in work;
* ring: every reader receives every message once, whole and in order; nobody
  waits for ever;
* command transport: every rank executes the commands of rank 0 in their order;
* completion engine: a prompt is encoded by one client at a time, the model is used by
  one thread, a request is in one place until its last response, and the sentinel of
  `close()` is taken by the worker's main loop only;
* completion engine and facade: every consumer gets an end event, a cancelled
  request stops soon, a closed engine accepts nothing and leaves nobody waiting;
* dense engine: a row has one owner; a reusable prefix and a request find the KV
  of their own tokens in their rows; admission never runs out of rows; a pinned
  prefix is never given up; every request is answered;
* schedulers: the scheduler's mirror agrees with the engine, budgets are kept.

## 2. The modules

| Module | What it is |
|---|---|
| `PagedPool` | the page pool as its clients see it |
| `PagedPoolProofs` | its invariant, proved for every size |
| `PrefillGroups` | pure operators: how `step` splits a wave into prefill groups |
| `Subsequences` | the elements of a sequence at given positions, used by `PrefillGroups` and `PromptEncoding` |
| `PrefillWave` | the grouping of an arbitrary wave and the reservations that follow |
| `PrefillWaveProofs` | what the groups of a wave are, that the plan is a partition of it and its reservations fit, proved for every wave, bucket list and pool |
| `PagedEngine` | engine and prefix cache, composed with `PagedPool` (INSTANCE) and `PrefillGroups` (EXTENDS) |
| `PagedEngineProofs` | its invariant: pages, sharing, KV and requests, proved for every size |
| `SequenceStore` | abstract: independent sequences |
| `CowPages` | copy-on-write pages, implements `SequenceStore` |
| `CowPagesProofs` | its invariant, the implementation and when it runs dry, proved for every size |
| `EngineFacade` | request bookkeeping, cancellation, close and the async bridge |
| `EngineFacadeProofs` | their invariant and the streams, proved for any number of streams |
| `DenseRows` | the cache rows of the dense engine: free lists, reusable prefixes, cells |
| `DenseEngine` | an online session of the dense engine over them |
| `DenseEngineProofs` | row ownership, pinning, admission, budgets and KV, proved for every size |
| `PromptEncoding` | prompt cache, keys in flight and encode leader of the client threads |
| `CompletionQueue` | clients, queue, worker, online session and close() of the completion engine, over `PromptEncoding` |
| `CompletionQueueProofs` | one encoder, one user of the model, every request and the sentinel kept, proved for every size |
| `BroadcastLog` | abstract: one writer, every reader receives every message |
| `ShmRing` | the ring, load by load under x86-TSO, implements `BroadcastLog` |
| `ShmRingProofs` | its invariant and the implementation, proved for every size |
| `MC_*` | values of the constants for TLC |

### PagedPool

`free`, `refcount`, `table` are `_free_pages`, `_page_refcount` and the
`page_ids` of every owner, where an owner is a live sequence or an entry of the
prefix cache (its `keep` list). `Reserve` and `ReserveOutOfPages` are the two
ends of `reserve`, `Alias` is `share_prefix`, `share_into` and the retaining
half of `remember` (all of them hand the first pages of one list to an empty one
and count them), `Release` is `free` and `_drop_entry`. The free list is a LIFO
in the code and a set here, so results hold for every order. Block tables are
per request and shared by all layers; layers therefore do not appear.

### PrefillGroups, PrefillWave

`step` prefills an admitted wave in groups: rows with equal suffix and shared
length exactly, or rows of a suffix bucket padded to its length when the padded
pages are free (`can_pad`, `extra_pages_needed`,
`_shared_prefix_prefill_groups`). `WaveGroups` is that function with its flags as
parameters. `PrefillWave` starts from any wave and any number of free pages and
reserves group by group as `_prefill_suffix_batch` does.

### PagedEngine

One thread calls `step`. A step is a chain of actions ordered by `pc`, cut so
that each performs at most one operation of the pool:

    idle -> admit <-> reserve -> prefill -> pad -> settle -> decode -> emit -> idle
    in a speculative step                                    decode -> draft -> emit
    and for a request that finishes: remember -> evict -> free

`Admit` covers the admission loop body up to the reservation (share_into,
the shared length, LRU touch); `EndAdmit` plans the groups; `TakeGroup`,
`ReservePadding`, `Forward` are `_prefill_suffix_batch`; `Settle` and `Emit`
give a row its token (any token: the model is not modelled) and retire it;
`Decode` writes one slot per active row. `_decode_spec` is `BeginDraft` (the flag is
read in every step, so plain and speculative steps may alternate), `ReserveDrafts`,
one row at a time, `DraftsOutOfPages` where `reserve` raises, and `Verify`, the
forward pass over last token and drafts with the acceptance of a part of them; what
it writes for a rejected draft is of no sequence, like padding. Where the n-gram
lookup finds drafts does not matter: any number of them may be kept, with any token
after them. `ModelCallRaises` and `StartOnline` are
the failure path of the online batcher, which drops the session and calls
`start_online` on the persistent engine.

KV data is abstracted to *which tokens it was computed for*: `kv[page][offset]`
is the token prefix whose forward pass wrote the slot, or `<< >>` when the slot
was not written since its page was allocated. That is exactly what decides
whether attention reads the right thing. The radix tree is reduced to what it
answers: the deepest page boundary an entry shares with the prompt, ties going
to the entry indexed last.

Left out: graph runners (they replay the same writes), `external_cache` of
`start_online` (another pool in place of this one), statistics.

### CowPages, SequenceStore

`append` is cut where it can fail or where a page changes: one action per page
of `_ensure_capacity`, one per chunk (`WriteInPlace` or `WriteCopy`), then
`FinishAppend`; `OutOfPages` is the RuntimeError of `_allocate_page` in either
loop and leaves what it already took. Calls come from one thread, so no other
operation runs inside an append. Pages keep what their last owner wrote, as the
tensors do: `set_length` may lengthen a sequence into such slots.
The refinement mapping sends the pages to `Contents(r)`, what `materialize`
returns.

### EngineFacade

Two actors per stream: the thread that runs `generate_stream` of the engine, one
action per critical section of `_lock` and per event it puts, and the consumer
task of the async generator. `Cancel`, `Close` and `Leave` come at any time;
`Raises` is any exception inside the `try`. The `finally` clause of the consumer
is part of the action that ends it, since nothing is awaited in between. The
environment reuses an id only for a stream it has read to its end (`IdFree`).
`asked` and `late` are history variables. Stop and length are one reason, tokens
are their index, and what is put after the consumer has gone is not kept.

### DenseRows, DenseEngine

`freeActive`, `freePrefix` are the two free lists; `entries` is
`reusable_prefixes`, `_prefix_order` and the radix index in one sequence, oldest
first, where `indexed` says whether the index still routes to the entry. `kv` is,
per row and position, the *token* whose KV was written there last, or `Junk`:
enough to say whether a request attends to its own tokens.

One thread runs `step_online`; it is cut so that each action performs one forward
pass or hands over one row:

    idle - flush - [filter - decode] - advance - admit
         - prefill - plain | prepare - take  - [filter - decode] - release - idle
    idle - flush - burst

`Decide` is the choice between decoding before and after admission
(`decode_first`, `prefill_ready_before_decode` and its cap). `DecodeGroup` is
one batch of `_decode_active` with its padding rows, `BurstStep` and `BurstDone`
are `step_online_many`, `ChunkGroup` is one group of `_advance_prefilling`,
`PrefillPrefixGroup`, `PrefillCommon` and `PrefillPlainGroup` are the passes of
`_prefill_many`, `Store` and `Retire` store a prompt when it is filled and adopt
or release a row when its request ends. `phase` names the list a request is in:
`pending` is `_pending_online_finish_states`, `ending` a request that is being
cleaned up. The lookup of a prefix (`hit`, `src`) is made for a whole wave before
its first group is prefilled, so that rows can be recycled in between.

A lookup returns the deepest indexed prefix of the prompt, and where suffixes are
padded the code may fall back to the deepest common prefix above it
(`_maybe_demote_mixed_prefix_long_suffix`, `_maybe_demote_mixed_prefix_extra_tokens`):
when the suffix that is left is too long, or the tokens gained are too few. Those
thresholds are left open: `Hits` is the set of both, `Shallower` says when there is
a fallback, and `Admit` takes one of them for each request. The fallback need not be
indexed: the filtered lookup also finds a common prefix that an adopted prompt with
the same tokens has displaced.

`StoreCommon` is `_store_reusable_prefix_tokens_in_row`. A common prefix is stored
under a route made of its tokens. When this route is stored already, `Replaced`
takes the old entry out, clears and frees its row, and the prefix comes back, pinned
again, on the new row. That happens in a history of several requests: a prompt that
is no more than the common prefix finishes and is adopted, takes the index node of
the prefix, is evicted later, and two more prompts that share just these tokens miss.

`Modes` is a set of engine configurations, chosen in `Init`. Left open in the
model: which free prefix row is taken, which waiting requests an admission picks
(priorities, budgets), and whether admission is put off while rows are in use
(`admit_min_free_rows`, `admit_min_ready_requests`, step intervals). Request ids
are unique. A request has one reply token of its own and any number of them ends
it, since stop tokens are chosen freely. An acquired row is always cleared (the
code skips that where it overwrites), and pins are never lifted.

Left out: unified and overlapped steps, the decode runner, prompt-lookup decode,
FlashInfer and paged prefill, the skip of a copy into a row that is still warm,
the finished-prefix cache (off by default), `run()`, and the reset of a session.

### PromptEncoding, CompletionQueue

`enc` is where a client is in encoding its prompt: it looks its key up, waits for
the owner of the key, or owns it; an owner encodes alone (no batch tokenizer) or
appends a job, and leads the draining of the jobs if nobody does. `st` is where a
client is after that: alone on the direct path with the model lock (`paused` while
its generator is suspended), or with a request in the queue and reading its
responses. `wpc` is where the one worker is; `batch`, `running`, `deferred` are
its local lists. `ended` is `request.done`. A client makes one request and stands
for it in the queue.

The same three actions (`Takes`, `DrainOne`, `DrainEnd`) are all places that take
from the queue; what they do with the sentinel of `close()` is `AfterDrain`. The
only place that differs is the idle session (`IdleLeave`). A batch is generated
group by group; any group, and any step of a session, may raise. An error of the
batch tokenizer fails all jobs of the batch.

Steps that touch only a thread's own state are merged with the one before: taking
and encoding the jobs of a batch (`EncodeJobs`), and leaving, where the lock is
not released in between.

Left out: the persistent session and the unified scheduler worker (off by
default), waits for more arrivals (they only make batches larger, and every cut is
possible in the model), length compatibility and truncation to `max_model_len`,
a disabled prompt cache, and warm-up. One thread calls `close()`.

### ShmRing, BroadcastLog

One action per load or store of shared memory. The docstring of
`shm_broadcast.py` argues from x86-TSO, so that is the memory: each process has
a FIFO store buffer that drains at any time (`FlushWriter`, `FlushReader`), and
loads see their own newest store first. These four operators model hardware and
are marked external. A chunk is two cells (length prefix, body) so that a torn
read is visible. A message counts as sent from the moment `_acquire_write` finds
its slot (`ClearWritten`), which makes the refinement to `BroadcastLog` hold
before and after it becomes visible.

## 3. The runs

| Run | Question | Bounds |
|---|---|---|
| `pool` | do counts, free list and tables agree after every history? | 5 pages, 3 owners, tables of 4 |
| `wave` | is every row in one group of legal shape, and do all padded reservations fit? | 4 rows in buckets of 4, 8 and 12, up to 3 free pages |
| `engine_cache` | with sharing, eviction, speculative steps, failure and restart: is KV isolated, are decode and draft pages private, does no reserve of admission or padding raise, is every step an operation of the pool? | 5 pages of 2 tokens, 2 active, 3 requests, 1 retained entry, 2 drafts, 1 failure |
| `engine_plain` | without the cache: is what attention reads right, are pages and requests accounted for, and is every request answered? | 4 pages for requests of 2 or 3, 2 active, 3 requests, 1 draft |
| `dense` | in four configurations: has every row one owner and the right KV, does admission find its rows, do pinned prefixes stay where lookups find them, is every request answered? | 4 requests, 2 active rows, 2 prefix rows, rows of 7 positions, up to 3 tokens |
| `completion` | is a prompt encoded once, the model used by one thread and every request in one place; does every client come back, and does close() return where no session runs? | 2 streams of one class and prompt, 1 completion, batches of 2, encode jobs by 2, 1 cached prompt; online and direct mode |
| `stale_last_slot`, `rows_run_out`, `close_hangs` | the findings below | as small as the behaviour allows |
| `cow` | do copy-on-write pages implement independent sequences, and when may an append fail? | 3 pages, 2 sequences of up to 4 tokens, appends of up to 3, 2 values |
| `facade` | is the active set exact, does a cancellation stop its request and no other, does every consumer that stays get its stream or an error? | 2 streams, 2 ids, 2 tokens |
| `ring` | does the ring implement the log, and does it keep moving? | 2 readers, 2 slots, 3 messages, 8 buffered stores, timeouts |

Why the bounds are enough. Pages of two tokens give every relation of a length to
a page boundary (on it, one past it). The prompts are one page, one page and a
half, and the first one's continuation as a next turn, so whole-prompt hits,
partial hits and misses all occur; three requests are two that overlap and one
that meets what they left behind. Pools are smaller than the demand, so admission
blocks and appends fail; the code's pools are larger (rows * pages per row + 8),
which only makes those states rarer. A capacity of 1 evicts on every second
retirement. Two drafts reach one token past what admission reserved, so in
`engine_cache` a speculative step may run out of pages; with one draft it cannot, and
`engine_plain` may ask that every request is answered. In the ring the third
message reuses slot 0, where flags and chunk of the first are still set: from
there the ring repeats itself, slot for slot. A store buffer of 8 holds a whole
message (6 stores) and the beginning of the next.
In `facade` two streams and two ids allow both side by side and one after the other
under one id, while the first thread is still returning; two tokens are the least
with which a cancellation can come too late once and must not twice. Streams with
different ids meet only in the closed flag.

In `dense` four requests over two active rows make admission wait and rows come
back. All prompts share a common prefix of two tokens; the first is no more than that
prefix, the second and the fourth go on differently, the third extends the second. So
common and whole prefixes are found, the first lookups miss, a displaced pinned prefix
is missed and stored again on another row, a lookup is demoted to a displaced common
prefix, and two prefix rows are fewer than the prefixes on offer. The
configurations are the server's, with the cap at `max_active_requests`; one
that admits first; one that stores whole prompts without pinning; one with
chunks of two tokens. `MinCommon` is 2 (16 in the code), which only makes common
prefixes more frequent. In `completion` two streams are enough for a session with
one that joins, a key in flight and a waiter, and a batch of two jobs; the
completion is what a session must defer. Replies of one token suffice, since a
reply may also end before its first one and what matters is the order of its
responses.

`CHECK_DEADLOCK FALSE` is set where the system may stop: when the bounded number
of requests, failures or messages is used up, when nothing can be released any
more, or when a wave is done. `cow` checks deadlock.

Symmetry: pages (and requests and values where nothing orders them) are
symmetric in runs that check safety only.

### Fairness

* `PagedEngine`: `WF_vars(Step)`. The batcher calls `step` in a loop while
  `has_work()`, and a started step runs to its end on one thread. Submit and
  failures are not fair.
* `ShmRing`: weak fairness of each process' steps and of each store buffer. A
  worker's loop calls `dequeue` again after it returns or times out
  (`_tensor_parallel_worker_loop`); hardware drains store buffers. `Enqueue` is
  not fair: rank 0 need not send.
* `DenseEngine`: `WF_vars(Step)`: the caller steps while `has_online_work()`, and
  a started step runs to its end on one thread. Submissions are not fair.
* `CompletionQueue`: weak fairness of every client once it has entered, of the
  worker and of the thread in `close()`: they are threads of their own that run
  when they can. A consumer of a suspended generator resumes or closes it. Whether
  a client comes and whether `close()` is called is open. A lock is a condition
  of the step that takes it; since only finitely many clients use the direct path,
  weak fairness is enough.
* `EngineFacade` needs none: every thread takes finitely many steps and waits for
  nobody, so that a stream ends is the invariant `NobodyWaits`.

## 4. Findings

The violation runs show, each with a counterexample of TLC:

1. `stale_last_slot` - A finished request is remembered with all its tokens, but
   the KV of its last token was never computed. When that token fills a page, the
   retained page ends in a slot nobody wrote, and a later prompt that continues
   the conversation reads it. (`KVMatchesTokens` holds without the cache, run
   `engine_plain`.)
2. `rows_run_out` - The server's sessions decode first, prefill ready requests
   ahead of that only up to a cap of 8 active rows, and defer the clean-up of rows
   that finish in a ragged decode to the next step. With more active rows than the
   cap and requests waiting, a step decodes, leaves finished rows pending, counts
   them as free in admission, and raises "no active serving rows available". The
   server's default `admit_min_free_rows` of 2 does not prevent it: two rows that
   finish together are enough, as in the counterexample. `AdmissionFits` (section 5)
   says which configurations are safe.
3. `close_hangs` - An idle online session takes the sentinel of `close()` and drops
   it; the worker waits for another one, and `close()` for the worker.

Further behaviours have a configuration of their own here, to be run by hand
(`tlc -config <cfg> <module>`), each with a counterexample:

* `MC_PagedEngine_leak.cfg` (`NoLeak`): after a step raised, `start_online` forgets
  the requests but not their pages (`paged_serving.py` 1551); the pool of the
  persistent engine shrinks for good.
* `MC_PagedEngine_starve.cfg` (`AllAnswered`): the prefix cache bounds entries, not
  pages. Retained pages are not evicted for a waiting request, and a step that
  admits nothing changes nothing: `has_work()` stays true for ever. The ratio of
  pool to entries is the code's, with one slack page instead of eight.
* `MC_DenseEngine_unpinned.cfg` (`KVMatches`): without pinned prefixes and without
  padded (graph) prefill, storing the prompt of one group evicts the prefix that a
  later group of the same wave was found to share; it copies from a row that holds
  another prompt by then.
* `MC_DenseEngine_chunk.cfg` (`KVMatches`): with chunked prefill and adoption, a
  request keeps the source row of its prefix until its first chunk; a retirement in
  between may evict the entry and give its row to the active side, where padding
  of another batch overwrites it before it is copied.

Two more that no property of a run refutes, because the code
promises nothing about them:

* A prompt cached to its last token recomputes its last page inside the page it
  shares (`step` lowers `shared` by a page after `share_into` took it). The values
  are those of the same tokens, so `KVIsolated` holds.
* `AsyncInferenceEngine`: a stream that is left before its thread reached
  `_enter_request` loses its cancellation there and runs to `max_tokens` unread; an
  id used again while its abandoned stream still runs shares the entries of both
  sets; and a consumer that saw the end while its thread still returned leaves a
  mark in `_cancelled_requests` until the id is used again, which
  `stats.cancelled_requests` counts.

## 5. The proofs

Every safety property of a passing run is also a theorem, for every value of the
constants (five with a hypothesis they need, named below); the end of this section
says what stays with TLC. `PROJECT.json` lists the theorems with the property each
states.

`PagedPoolProofs` proves `PoolSafety == Spec => []PoolInv` and its corollaries
`PoolTypes`, `CountsExact`, `FreeListExact`, `TablesInjective`, for every finite set
of pages, every finite set of owners and every table length (`PagesAssumption`,
`OwnersAssumption`, `MaxTableAssumption`).

`PoolInv == TypeOK /\ RefcountExact /\ FreeExact /\ NoPageTwice` is inductive, and
none of its parts is so alone. That a release brings the count to the number of
remaining referrers needs `RefcountExact`; that pages taken by `Reserve` have no
referrer needs `FreeExact` and `RefcountExact` together (free means count 0 means
no referrer); that the grown table is injective needs exactly that; and
`ReleaseInv` may take one reference off per page because of `NoPageTwice`, by
which the set of pages of a table says all about it. There is one lemma per
operation (`GrowInv`, `AliasInv`, `ReleaseInv`), over two lemmas on sequences
(`AppendRange`, `AppendInjective`).

`PrefillWaveProofs` is about the prefill wave, for every list of buckets, page size
and padding limit (`GroupsAssumption`), every set of waves whose rows have ids of their
own (`WaveAssumption`) and every number of free pages.

* `WaveGrouping` is about the operators alone and needs no `WaveAssumption`: whatever its
  flags, `WaveGroups` puts every row of the wave in exactly one group, gives every group
  a legal shape (exact, or padded to one length below `max_seq`), and the pages that all
  padded groups together lack are free. There is a lemma per way of grouping (`ExactGrouping`,
  `PaddedGrouping`, `BucketedGrouping`, `SharedGrouping`), over `GroupsByFacts`, which
  says that the groups by a key are a partition, and `JoinGroupings` and
  `FlattenGroupings`, which put groupings together. Where a definition is a fold over
  the wave the proof goes by `SetInduction`.
* `WaveSafety == Spec => []WaveInv` follows the plan while it is carried out: what is
  left of it groups some rows of the wave, and the pages it still lacks are free, since
  a reservation takes exactly the pages its own group lacked (`TailGrouping`).
  `WaveNeverRaises`, `GroupsHaveShape` and `WaveIsPartitioned` are the run's properties.

`PagedEngineProofs` extends `PrefillWaveProofs` for its lemmas on groups (the constants
of the wave stay free there, and no proof uses them) and composes pool and groups:
`EngineSafety == Spec => [](EngineInv /\ SharedHeld)`, for every pool, page size, number of active rows, capacity of the prefix
cache, set of prompts and budgets, number of drafts and choice of flags
(`EngineAssumption` of `PagedEngine`). `EngineInv` is inductive. Its parts:

* `TypeOK`, `Pool!PoolInv` and `Phases` (what can be going on at each `pc`, and that a
  retirement may interrupt a wave or a decode);
* `Placed`: every live request is in one list, once, and was admitted before
  `nextRid`; `Requests`: what is kept of it fits where it is;
* `Cached`: entries, order and LRU list name the same requests, all of them over, and
  an entry's pages hold exactly its tokens;
* `Covered`: the table of a live request covers its prompt and its budget, or the pages
  for that are free (`SharedHeld`: the shared prefix is in the table by then);
* `Planned`: the groups left are a grouping of the requests still admitted, and what
  they and the group in hand lack is free. It is where `WaveGrouping` is used;
* `Sharing`: two holders (live requests, entries) share pages from the front, at the
  same index, and as far as they do their tokens agree; behind its prompt a live
  request shares nothing. Agreement is what lets an eviction, a truncation of `shared`
  or a prefill that computes a shared page again do no harm;
* `CleanKV`, with a cache: a slot of a holder holds the KV of its own tokens, or of
  none. `ExactKV`, without: the slots a request has filled hold exactly that.

From it follow `EngineTypes`, `EnginePrivate`, `EngineReserves`, `EngineIsolated`, and
`EnginePool == Spec => Pool!Spec`: every step is an operation of the pool whose guard
holds, or leaves it alone, so the theorems of `PagedPoolProofs` apply to the engine's
pool (they are used that way, through an INSTANCE). Three theorems have a hypothesis,
and need it:

* `EngineKVMatches == ASSUME Capacity = 0 ...`: with a cache the last slot of a retained
  page may never have been written (finding 1); `EngineIsolated` is what holds then;
* `EngineNoLeak` and `EngineLosesNone` `ASSUME SpecK <= 1` and speak of histories with
  `failures = 0`: an exception in a step leaves admitted requests and their pages
  behind (`MC_PagedEngine_leak.cfg`), and with two drafts a decode step may raise by
  itself. One draft never takes a request past what admission reserved (`OneDraftFits`).
  `Tidy` is the part of the invariant that is about them.

`CowPagesProofs` proves, for every pool, page size, limit and set of requests
(`CowAssumption`), `CowSafety == Spec => []Bookkeeping` with `CowCountsExact`,
`CowLengthsCovered`, `CowTypes` and `CowNeverOutOfPages`, and `CowImplements == Spec
=> StoreSpec`, the refinement.

* `Bookkeeping` needs its parts together. That the fresh page of a copy or of a
  grown table has no referrer, and that a shared page stays in use when a copy
  leaves it, come from exact counts; that a truncation releases exactly the pages
  behind the kept prefix comes from no table listing a page twice; and an alias may
  overwrite the entry of its target because an unknown request is empty
  (`UnknownEmpty`). `CountsFollow` is the one counting argument, on the referrers of
  a page; `CeilCovers`, `CeilFits` and `Covers` are the arithmetic of pages.
* `CowNeverOutOfPages` says that an append starves only when `Demanded`, the places
  the rows fill or are about to fill, with pages of its own for every row, are more
  than the pages of the pool: sharing and copying never cost more than rows that share
  nothing. When no page is free every page stands at some place of the tables
  (`Places`), so there are at least as many places as pages; and one place more is
  demanded, since the append lacks a page or copies one that stands at two places.
* The implementation adds `Written`: the tokens written so far stand behind the
  sequence. `SlotsKept` is the core: a write changes no slot in front of its position
  and none of another request, because a page with one reference is listed by the
  writer only (`WriteInPlaceSlots`) and the copy by nobody (`WriteCopySlots`). Every
  step but the ends of an append, a call or a change of length is then a stutter.

`ShmRingProofs` proves `RingImplements == Spec => LogSpec`, the refinement, with
`RingSafety == Spec => []RingInv` and `RingTypes`, for any number of readers, slots and
messages and a store buffer of any length (`RingAssumption`). The docstring of
`shm_broadcast.py` argues informally that stores in program order are enough; this is
that argument in full.

* Every message is the same `NReaders + 4` stores: clear, header, body, one reset per
  reader, publish. So the writer is a position in one stream of stores (`StoreOf`):
  `Issued` of them are issued, `Flushed` of them are in memory, and the buffer holds
  those between (`BufferOK`). A reader is given by the messages it is done with and by
  how many of its marks are in memory (`Done`, `Marked`).
* `MemOK` says what each cell of a slot holds, for each message of the `Window` (the
  last `NSlots`), as thresholds on `Flushed`: header and body from their stores on, a
  read flag by whether it is reset and then marked, the written flag from publish on.
* A slot is reused only when its last message is read: the writer counts `NReaders`
  flags that are set, each of them says that the mark is in memory (`Marked(r) + NSlots
  > Sent`), and what it counted stays true because marks are only added (`WriterOK`).
* A reader that sees the written flag set may see that of an earlier round of the slot,
  or of the message before its reset. `ReadyIsReset` is the core: written flag set and
  own flag unset mean that the message is in memory, whole, and that this reader's flag
  was reset for it; a stale written flag always comes with a set flag of its own.
* `FlushOwn` and `FlushOther` do the step that a buffered store reaches memory: it
  passes one threshold of its own message and disturbs no other slot of the window
  (`SlotsApart`).

`EngineFacadeProofs` proves `FacadeSafety == Spec => []FacadeInv` for every number of
streams and ids and every `max_tokens` (`FacadeAssumption`), and from it
`ActiveIsExact`, `CancelsOnlyItsOwn`, `CancelIsPrompt` and `ConsumersAreServed`;
`ClosedIsFinal` needs no invariant. The argument turns on two streams with one id.
`IdShared` says that one of them was read to its end, and `EndsMatch` that its
thread has then passed `_exit_request`: so nobody removes the entries of a stream
that is inside (`ActiveExact`), a mark found there was made for it (`MarksAsked`),
and once made it stays until the next check (`MarksStay`). `Counted` bounds the
events in flight, which `TypeOK` needs. The steps of a thread that put nothing and
leave the engine's sets alone share one lemma (`QuietInv`), those that put an event
another (`SendInv`); every other action has its own.

`StreamsAreComplete == Spec => []StreamComplete` is about the events themselves.
`Nth(s, i)` names the i-th event the thread of `s` puts: its tokens, then the final
event or the error, then the end marker. `StreamInv` says that what a consumer has
received, followed by what waits in its queue, is the first `emitted + Puts` of them.
A thread that fails changes what comes after its tokens (`StreamMoves`), never what
was put already; a consumer that meets the end marker has therefore received
everything before it, and no error among it.

`DenseEngineProofs` proves five theorems for any number of requests, active and
prefix rows and any set of configurations (`RowsAssumption`, `EngineAssumption`).

* `RowsHaveOneOwner == Spec => []RowsPartitioned`. `DenseInv` is the inductive
  invariant: the partition of the rows, that a free list and the entries are made
  of rows, and that requests hold a row exactly in the phases of `Holding`. The
  exchange of an adoption needs the whole of it: the row that comes to the active
  side is a prefix row, so nobody's, and the row that leaves is the request's, so
  no entry's; the count stays because one comes and one goes.
* `PinnedPrefixesStay == Spec => PinnedStays`. `PinnedStays` says that with pinning a
  common prefix is never given up, and that it keeps its row as long as lookups return
  it; one that an adopted prompt displaced may move, and is then found on its new row.
  Eviction takes no pinned entry (`PinnedLeft`), and a new entry displaces others only
  in the index (`KeptInList`). What is left is the replacement, which takes a pinned
  entry out: it must only meet one that is not indexed. This is what `Missed` is for: the requests of a wave that hit
  nothing have, until the wave stores its common prefix, no indexed prefix of at least
  `MinCommon` tokens (`CommonUnlisted`). A hit counts one token less than the prompt when
  the whole prompt is found, so this needs `MinCommon > 1` (it is 16). The chunked
  path stores a common prefix only when its route is not stored.
* `AdmissionFits == ASSUME SafeModes PROVE Spec => []RowsSuffice`. `FitInv` says
  that from admission to the last prefill of a wave the requests to serve and those
  that hold rows are at most `MaxActive` together. What it needs is that nothing is
  pending when admission counts (`BeforeAdmission`): true when clean-up is not
  deferred, when no decode is ragged, when the engine admits before it decodes, or
  when the cap is at least `max_active_requests`. These are the `SafeModes`; only a
  configuration they exclude can behave as in `rows_run_out`.

* `DenseTypes == Spec => []TypeOK`, in every configuration. That no request generates
  past its budget or fills past its row is not local to the pass that samples: it
  needs that a request whose budget is spent is in `over`, and that no pass takes
  one of those up again. `ServeInv` says so: `Progress`, what each request has
  generated, filled and looked up in its phase, and `Stages`, where in the step the
  requests of each phase can be (only the pass in hand has prompts half filled;
  whoever is being prefilled in chunks has its first chunk before the next admission).
  `EntriesOK` bounds the reused prefixes, `LookupFacts` and `SharedFacts` what a lookup
  and a common prefix return.
* `DenseKVMatches == ASSUME SoundModes PROVE Spec => []KVMatches`. `KVInv` separates
  three things whose KV must be right: the row behind every entry (`EntriesHold`), the
  row a lookup found as long as it has not been copied (`SourcesHold`: it is still the
  row of an entry, and holds the tokens found), and the row of every other request, up
  to the token it generated last (`RowsHold`). A pass writes rows of the requests it
  serves and free rows only, so `KVFrame` leaves the rest alone. `KVStored` is the
  crux: storing a prefix may evict another, so it is sound only when no lookup waits
  to be copied (`ToCopy` is empty). `SoundModes` are the configurations in which that is
  so: whole prompts are stored only under pinning (when the step stores none), for one
  request a step, or with chunks; and chunks do not go together with pinning and
  adoption. Either condition is needed: without the first there is
  `MC_DenseEngine_unpinned.cfg`, without the second `MC_DenseEngine_chunk.cfg`. The
  server's configuration satisfies both.

`CompletionQueueProofs` proves `CompletionSafety == Spec => []QueueInv` for every number
of clients, every assignment of prompts, kinds and classes to them, every batch limit
and cache size, and every set of engine configurations (`CompletionAssumption`: the only
demand on a configuration is that a tensor-parallel primary has no direct path). Every
step of clients, worker and `close()` keeps `QueueInv`, whose parts are theorems of
their own:

* `OneEncoder` and `JobsLed` (`OneClientEncodes`, `EveryJobIsLed`) are about the prompts
  alone, and inductive with the types of `PromptEncoding`. A key is in flight exactly
  while some client owns it, so a waiter has somebody who wakes it, also when the owner
  fails; and as jobs are appended and the leader resigns under one lock, a job that
  waits has a leader. `QuietEncoding` is the frame lemma of the steps that change no
  owner; `WithoutFacts` and `NewestFacts` are about the least recently used cache.
* `ModelLocked` (`ModelHasOneUser`): the holder of the lock is given by where clients
  and worker are. It is inductive with `WorkerStage`.
* `WorkerStage` says what the worker can hold at each place: a session has a policy and
  belongs to a primary, only a session defers, an idle one generates for nobody and has
  an empty batch. Without it a step that empties a list could lose what is in it.
* `RequestsKept` (`RequestsAreKept`): `Held`, the union of queue, batch, deferred list and
  running set, together with `ended` are the requests that were put; no two of the
  four meet, and no list has a request twice (`OnePlace`). `WorkerMoveInv` states what
  a step of the worker owes: it moves requests between these places or ends them. The
  hard steps are those that leave a session (`LeaveSessionInv`, `IdleLeaveInv`), where
  deferred requests go back to the queue behind newer ones, and `RunGroupInv`, where a
  batch is split by `Subsequence`.
* `SentinelKept` (`SentinelIsKept`): the sentinel comes once, after the last client, and a
  drain puts it back (`AfterDrainFacts`). What finding 3 loses is what the theorem
  excepts: a configuration with online sessions.

`EndedStaysEnded == Spec => EndedIsFinal` is the action property: no step gives a token to
a request with its last response. A batch may still list such a request (a session failed
it while it was deferred, and it was queued again); that the worker then hands out
nothing for it is `RequestsKept`, and that no client generates it on the direct path is
that a client which has queued its request never goes there.

Checked by TLC only: liveness under fairness (`AllAnswered` of three modules,
`AllDelivered`, `EnqueueReturns`, `CloseReturnsQueued`), which the provers cannot do.
The lookup of the dense engine's index is checked as part of its engine. Induction over
data is done here with `SetInduction`, over sets; the induction theorems of the library,
which take an operator as a parameter, are out of reach. No module uses RECURSIVE
operators (`PrefillGroups` takes its folds from the community modules, and filters are
`Subsequence`). The lemmas on subsequences stand in `PrefillWaveProofs` and in
`CompletionQueueProofs`, for the two names the community modules give to the set of a
sequence's elements.

## 6. Plan

In order of importance:

1. page pool, paged engine, prefix cache - done and proved, speculative decoding
   included; to be added: the adoption of an external pool;
2. copy-on-write cache and ring - done, both refinements proved;
3. engine facade - done; to be added: an event loop closed while threads put;
4. dense engine - online sessions done and proved; to be added: unified and overlapped steps,
   and the warm-row skip of a prefix copy;
5. completion engine - done and its safety proved; to be added: the persistent session
   and the unified scheduler worker;
6. `TpCommands` - the transport over ring and process group: ranks agree on the
   order of commands (composes `BroadcastLog`);
7. `Scheduler` - mirror and budgets of `runtime/scheduler.py`;
8. disaggregated serving.

Not modelled, and why. The command transport, the schedulers and disaggregated
serving have state machines of their own and are the next in line; the schedulers
are not on the server's default path. Offload, CUDA graphs and decode runners are
device behaviour. Kernels, models, compiler, HTTP parsing, CLI, simulation and
measurement tools are numerical code, I/O or drivers without a state machine; they
are the larger part of the repository's lines.
