--------------------------- MODULE PromptEncoding ---------------------------
(***************************************************************************)
(* How the client threads of OpenAICompletionEngine (openai_server.py)     *)
(* encode their chat prompts: a cache of encoded prompts, in which the     *)
(* first client that misses a key encodes it and the others wait for it,   *)
(* and below it a batch of encode jobs, which the client that finds no     *)
(* leader runs for all.                                                    *)
(***************************************************************************)
EXTENDS Subsequences, SequencesExt, FiniteSetsExt

CONSTANTS Clients,
          Key,          \* client -> the cache key of its messages
          CacheSize     \* entries of the prompt cache

VARIABLES jobLimit,   \* jobs of a batch; 1 where the tokenizer does not batch
          enc,        \* where each client is in encoding its prompt
          cached,     \* keys in the prompt cache, least recently used first
          inflight,   \* keys some client is encoding
          pending,    \* clients whose job waits for a batch
          leader,     \* some client drains the jobs
          outcome     \* result of each client's job

encoding == <<jobLimit, enc, cached, inflight, pending, leader, outcome>>

EncodingInit(limit) ==
  /\ jobLimit = limit
  /\ enc = [c \in Clients |-> "none"] /\ outcome = [c \in Clients |-> "none"]
  /\ cached = << >> /\ inflight = {} /\ pending = << >> /\ leader = FALSE

Moved(c, to) == [enc EXCEPT ![c] = to]

Without(keys, k) == Subsequence(keys, {i \in DOMAIN keys : keys[i] # k})

\* _cached_encode_chat_prompt: a hit, a key in flight, or a key to encode.
Lookup(c) ==
  /\ enc[c] = "lookup"
  /\ IF Key[c] \in ToSet(cached)
     THEN /\ cached' = Append(Without(cached, Key[c]), Key[c])
          /\ enc' = Moved(c, "ok") /\ UNCHANGED inflight
     ELSE /\ inflight' = inflight \cup {Key[c]}
          /\ enc' = Moved(c, IF Key[c] \in inflight THEN "await" ELSE "own")
          /\ UNCHANGED cached
  /\ UNCHANGED <<jobLimit, pending, leader, outcome>>

\* The owner of a key leaves it, and the clients that wait for it look again.
Published(c, result) ==
  [d \in Clients |-> IF d = c THEN result
                     ELSE IF enc[d] = "await" /\ Key[d] = Key[c] THEN "lookup" ELSE enc[d]]

Newest(keys) == SubSeq(keys, Max({1, Len(keys) - CacheSize + 1}), Len(keys))

Publish(c, result) ==
  /\ enc' = Published(c, result)
  /\ inflight' = inflight \ {Key[c]}
  /\ cached' = IF result = "ok"
               THEN Newest(Append(Without(cached, Key[c]), Key[c])) ELSE cached
  /\ outcome' = [outcome EXCEPT ![c] = "none"]
  /\ UNCHANGED <<jobLimit, pending, leader>>

JobDone(c) == enc[c] = "job" /\ outcome[c] # "none" /\ Publish(c, outcome[c])

\* encode_messages: without batches the owner encodes its prompt itself.
EncodeAlone(c, result) == enc[c] = "own" /\ jobLimit = 1 /\ Publish(c, result)

\* _encode_chat_messages: the job waits for a batch; without a leader this client is it.
AppendJob(c) ==
  /\ enc[c] = "own" /\ jobLimit > 1
  /\ pending' = Append(pending, c)
  /\ leader' = TRUE
  /\ enc' = Moved(c, IF leader THEN "job" ELSE "lead")
  /\ UNCHANGED <<jobLimit, cached, inflight, outcome>>

\* _drain_chat_prompt_encode_batches, batch by batch until no job is left.
\* A job appended while the tokenizer runs is as if it came between it and the check below.
EncodeJobs(c, result) ==
  LET n == Min({jobLimit, Len(pending)})
      batch == ToSet(SubSeq(pending, 1, n))
  IN /\ enc[c] = "lead"
     /\ pending' = SubSeq(pending, n + 1, Len(pending))
     /\ outcome' = [d \in Clients |-> IF d \in batch THEN result ELSE outcome[d]]
     /\ enc' = Moved(c, "drained")
     /\ UNCHANGED <<jobLimit, cached, inflight, leader>>

\* Mutant of ResignOrGoOn: resigns although a job came in while the batch was encoded.
Resign(c) ==
  /\ enc[c] = "drained"
  /\ leader' = FALSE
  /\ enc' = Moved(c, "job")
  /\ UNCHANGED <<jobLimit, cached, inflight, pending, outcome>>

ResignOrGoOn(c) ==
  /\ enc[c] = "drained"
  /\ leader' = (pending # << >>)
  /\ enc' = Moved(c, IF pending = << >> THEN "job" ELSE "lead")
  /\ UNCHANGED <<jobLimit, cached, inflight, pending, outcome>>

\* The client takes its prompt, or the error.
Taken(c, result) ==
  /\ enc[c] = result
  /\ enc' = Moved(c, "none")
  /\ UNCHANGED <<jobLimit, cached, inflight, pending, leader, outcome>>

EncodeStep(c) ==
  \/ Lookup(c) \/ AppendJob(c) \/ ResignOrGoOn(c) \/ JobDone(c)
  \/ \E result \in {"ok", "failed"} : EncodeAlone(c, result) \/ EncodeJobs(c, result)

Keys == {Key[c] : c \in Clients}

EncodingTypeOK ==
  /\ enc \in [Clients -> {"none", "lookup", "await", "own", "lead", "drained", "job",
                          "ok", "failed"}]
  /\ outcome \in [Clients -> {"none", "ok", "failed"}]
  /\ jobLimit \in Nat \ {0} /\ leader \in BOOLEAN
  /\ cached \in Seq(Keys) /\ Len(cached) <= CacheSize /\ inflight \subseteq Keys
  /\ pending \in Seq(Clients)

Owns(c) == enc[c] \in {"own", "lead", "drained", "job"}
Leads(c) == enc[c] \in {"lead", "drained"}

\* One client encodes a key; it is in flight as long as that client does, is not
\* cached yet, and nobody waits for a key that no client encodes.
OneEncoder ==
  /\ \A c, d \in Clients : Owns(c) /\ Owns(d) /\ Key[c] = Key[d] => c = d
  /\ inflight = {Key[c] : c \in {d \in Clients : Owns(d)}}
  /\ \A c \in Clients : enc[c] = "await" => Key[c] \in inflight
  /\ IsInjective(cached) /\ inflight \cap ToSet(cached) = {}

\* A job waits for a batch until it has its outcome, once, and while jobs wait one
\* client, and only one, is there to encode them.
JobsLed ==
  /\ leader <=> \E c \in Clients : Leads(c)
  /\ \A c, d \in Clients : Leads(c) /\ Leads(d) => c = d
  /\ IsInjective(pending)
  /\ ToSet(pending) = {c \in Clients : enc[c] \in {"lead", "drained", "job"} /\ outcome[c] = "none"}
  /\ pending # << >> => leader
  /\ \A c \in Clients : /\ enc[c] = "lead" => pending # << >>
                        /\ outcome[c] # "none" => enc[c] \in {"lead", "drained", "job"}

=============================================================================
