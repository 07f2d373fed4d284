--------------------------- MODULE CompletionQueue ---------------------------
(***************************************************************************)
(* OpenAICompletionEngine (openai_server.py): client threads encode their  *)
(* prompts (PromptEncoding), generate under the model lock when they are   *)
(* alone, or else queue a request for the one worker thread and read its   *)
(* responses; the worker runs the queue in batches, or, on the primary of  *)
(* a tensor-parallel model, in online sessions that streams join while     *)
(* they run; close() waits for the clients, then stops the worker with a   *)
(* sentinel in the queue.                                                  *)
(* A client makes one request, and stands for it in the queue.             *)
(***************************************************************************)
EXTENDS PromptEncoding

CONSTANTS Stream,      \* client -> it streams its tokens
          Class,       \* client -> what must agree to share a batch: sampling and policy
          MaxTokens,   \* client -> tokens of its reply (a stop token may end it earlier)
          Limit,       \* requests of a batch
          Modes,       \* engine configurations [online, fast, jobs]
          Stop         \* the sentinel of close()

\* What is at the place of a client that holds the model lock.
Free == "free"
Worker == "worker"

ASSUME CompletionAssumption ==
  /\ Clients \cap {Free, Worker, Stop} = {}
  /\ Limit \in Nat \ {0} /\ CacheSize \in Nat \ {0}
  /\ \A c \in Clients : Stream[c] \in BOOLEAN /\ MaxTokens[c] \in Nat \ {0} /\ Class[c] # "none"
  \* A tensor-parallel primary never takes the single-request path.
  /\ \A m \in Modes :
       /\ {m.online, m.fast} \subseteq BOOLEAN /\ ~(m.online /\ m.fast)
       /\ m.jobs \in Nat \ {0}

VARIABLES mode,
          st,         \* where each client is
          queue,      \* _generation_queue
          lock,       \* holder of _model_lock
          wpc,        \* where the worker is
          batch,      \* requests it has collected
          running,    \* requests it generates for
          policy,     \* class of the online session
          deferred,   \* requests an online session leaves for later
          sent,       \* tokens generated for each request
          unread,     \* tokens its client has not read
          ended,      \* requests with a last response (request.done)
          cpc         \* where close() is

worker == <<wpc, batch, running, policy, deferred>>
responses == <<sent, unread, ended>>
vars == <<encoding, mode, st, queue, lock, worker, responses, cpc>>

live == {c \in Clients : st[c] \notin {"out", "gone"}}   \* _live_requests
closed == cpc # "open"                                   \* _closed

Init ==
  /\ mode \in Modes
  /\ EncodingInit(mode.jobs)
  /\ st = [c \in Clients |-> "out"]
  /\ queue = << >> /\ lock = Free /\ cpc = "open"
  /\ wpc = "get" /\ batch = << >> /\ running = {} /\ policy = "none" /\ deferred = << >>
  /\ sent = [c \in Clients |-> 0] /\ unread = [c \in Clients |-> 0] /\ ended = {}

(***************************************************************************)
(* A client.                                                               *)
(***************************************************************************)
Goes(c, to) == st' = [st EXCEPT ![c] = to]

\* _enter_live_request
Enter(c) ==
  /\ st[c] = "out"
  /\ Goes(c, IF closed THEN "gone" ELSE "encoding")
  /\ enc' = IF closed THEN enc ELSE Moved(c, "lookup")
  /\ UNCHANGED <<jobLimit, cached, inflight, pending, leader, outcome,
                 mode, queue, lock, worker, responses, cpc>>

Encode(c) == EncodeStep(c) /\ UNCHANGED <<mode, st, queue, lock, worker, responses, cpc>>

EncodeFailed(c) ==
  /\ st[c] = "encoding" /\ Taken(c, "failed")
  /\ Goes(c, "gone")
  /\ UNCHANGED <<mode, queue, lock, worker, responses, cpc>>

\* _try_acquire_single_request_model
CheckAlone(c) ==
  /\ st[c] = "encoding" /\ Taken(c, "ok")
  /\ Goes(c, IF mode.fast /\ live = {c} /\ queue = << >> THEN "alone" ELSE "submit")
  /\ UNCHANGED <<mode, queue, lock, worker, responses, cpc>>

TryLock(c) ==
  /\ st[c] = "alone"
  /\ IF lock = Free THEN lock' = c /\ Goes(c, "direct") ELSE Goes(c, "submit") /\ UNCHANGED lock
  /\ UNCHANGED <<encoding, mode, queue, worker, responses, cpc>>

\* A token of the direct path is yielded with the lock held.
DirectToken(c) ==
  /\ st[c] = "direct" /\ sent[c] < MaxTokens[c]
  /\ sent' = [sent EXCEPT ![c] = @ + 1]
  /\ Goes(c, IF Stream[c] THEN "paused" ELSE "direct")
  /\ UNCHANGED <<encoding, mode, queue, lock, worker, unread, ended, cpc>>

\* The reply is complete, ends early or the model raises; finally releases the lock.
DirectEnd(c) ==
  /\ st[c] = "direct"
  /\ lock' = Free /\ Goes(c, "leaving")
  /\ UNCHANGED <<encoding, mode, queue, worker, responses, cpc>>

\* _submit_generation_batches, _submit_completion: _closed is read before the request is queued.
Submit(c) ==
  /\ st[c] = "submit"
  /\ Goes(c, IF closed THEN "gone" ELSE "put")
  /\ UNCHANGED <<encoding, mode, queue, lock, worker, responses, cpc>>

Put(c) ==
  /\ st[c] = "put"
  /\ queue' = Append(queue, c) /\ Goes(c, "waiting")
  /\ UNCHANGED <<encoding, mode, lock, worker, responses, cpc>>

\* One or more of the tokens that wait are yielded together.
Receive(c) ==
  /\ st[c] = "waiting" /\ Stream[c]
  /\ \E n \in 1..unread[c] : unread' = [unread EXCEPT ![c] = @ - n]
  /\ Goes(c, "reading")
  /\ UNCHANGED <<encoding, mode, queue, lock, worker, sent, ended, cpc>>

ReceiveEnd(c) ==
  /\ st[c] = "waiting" /\ c \in ended /\ unread[c] = 0
  /\ Goes(c, "gone")
  /\ UNCHANGED <<encoding, mode, queue, lock, worker, responses, cpc>>

\* The consumer of a suspended generator asks for more, or closes it.
Resume(c) ==
  /\ st[c] \in {"reading", "paused"}
  /\ Goes(c, IF st[c] = "reading" THEN "waiting" ELSE "direct")
  /\ UNCHANGED <<encoding, mode, queue, lock, worker, responses, cpc>>

Abandon(c) ==
  /\ st[c] \in {"reading", "paused"}
  /\ IF st[c] = "paused" THEN lock' = Free /\ Goes(c, "leaving") ELSE UNCHANGED lock /\ Goes(c, "gone")
  /\ UNCHANGED <<encoding, mode, queue, worker, responses, cpc>>

\* _exit_live_request; it is a step of its own only where the lock was released before.
Exit(c) ==
  /\ st[c] = "leaving"
  /\ Goes(c, "gone")
  /\ UNCHANGED <<encoding, mode, queue, lock, worker, responses, cpc>>

ClientStep(c) ==
  \/ Encode(c) \/ EncodeFailed(c) \/ CheckAlone(c) \/ TryLock(c)
  \/ DirectToken(c) \/ DirectEnd(c) \/ Submit(c) \/ Put(c)
  \/ Receive(c) \/ ReceiveEnd(c) \/ Resume(c) \/ Abandon(c) \/ Exit(c)

(***************************************************************************)
(* The worker.                                                             *)
(***************************************************************************)
\* _batch_worker waits for a first request.
Get ==
  /\ wpc = "get" /\ queue # << >>
  /\ queue' = Tail(queue)
  /\ LET first == Head(queue)
         online == mode.online /\ Stream[first]
     IN IF first = Stop THEN wpc' = "exit" /\ UNCHANGED <<batch, policy>>
        ELSE IF first \in ended THEN UNCHANGED <<wpc, batch, policy>>
        ELSE /\ wpc' = IF online THEN "enter" ELSE "collect"
             /\ policy' = IF online THEN Class[first] ELSE "none"
             /\ batch' = <<first>>
  /\ UNCHANGED <<encoding, mode, st, lock, running, deferred, responses, cpc>>

\* Both kinds of batch are run under the model lock.
Lock ==
  /\ wpc \in {"lock", "enter"} /\ lock = Free
  /\ lock' = Worker
  /\ wpc' = IF wpc = "lock" THEN "drain" ELSE "gather"
  /\ UNCHANGED <<encoding, mode, st, queue, batch, running, policy, deferred, responses, cpc>>

(***************************************************************************)
(* Draining the queue: _drain_ready_requests and _collect_batch... before  *)
(* (collect) and under the lock (drain) and for the next batch (next);     *)
(* drain_initial_ready, drain_ready and wait_and_drain in a session        *)
(* (gather, ready, wait), which defer what does not fit the session.       *)
(* Without work left a session drains once more (wait) and then idles.     *)
(* A drain ends at the limit, on an empty queue, or at the sentinel.       *)
(***************************************************************************)
Draining == {"collect", "drain", "next", "gather", "ready", "wait"}
Joins(c) == policy = "none" \/ (Stream[c] /\ Class[c] = policy)

Takes == Len(batch) < Limit /\ queue # << >> /\ Head(queue) # Stop

DrainOne ==
  /\ wpc \in Draining /\ Takes
  /\ queue' = Tail(queue)
  /\ IF Joins(Head(queue)) THEN batch' = Append(batch, Head(queue)) /\ UNCHANGED deferred
                           ELSE deferred' = Append(deferred, Head(queue)) /\ UNCHANGED batch
  /\ UNCHANGED <<encoding, mode, st, lock, wpc, running, policy, responses, cpc>>

\* Mutant of AfterDrain: the sentinel is taken with the rest.
AfterDrainLost == IF queue = << >> \/ Len(batch) >= Limit THEN queue ELSE Tail(queue)

\* The sentinel is put back for _batch_worker.
AfterDrain == IF queue = << >> \/ Len(batch) >= Limit THEN queue ELSE Append(Tail(queue), Stop)

DrainEnd ==
  /\ wpc \in Draining /\ ~Takes
  /\ queue' = AfterDrain
  /\ LET none == batch = << >>
     IN /\ wpc' = CASE wpc = "collect" -> "lock"
                    [] wpc = "drain" -> "run"
                    [] wpc = "next" -> IF none THEN "get" ELSE "run"
                    [] wpc = "gather" -> "start"
                    [] wpc = "ready" -> IF ~none THEN "join" ELSE IF running = {} THEN "wait" ELSE "step"
                    [] wpc = "wait" -> IF none THEN "idle" ELSE "join"
        /\ lock' = IF wpc = "next" /\ none THEN Free ELSE lock
  /\ UNCHANGED <<encoding, mode, st, batch, running, policy, deferred, responses, cpc>>

(***************************************************************************)
(* A batch: _run_queued_batch runs it group by group.  A request that had  *)
(* ended before is generated for again; nobody reads it.                   *)
(***************************************************************************)
RunGroup ==
  /\ wpc = "run" /\ running = {} /\ batch # << >>
  /\ LET InGroup(c) == Class[c] = Class[Head(batch)] /\ Stream[c] = Stream[Head(batch)]
     IN /\ running' = {c \in ToSet(batch) : InGroup(c)} \ ended
        /\ batch' = Subsequence(batch, {i \in DOMAIN batch : ~InGroup(batch[i])})
  /\ UNCHANGED <<encoding, mode, st, queue, lock, wpc, policy, deferred, responses, cpc>>

\* A token for a running stream, and the last response of a running request.
Generating == wpc \in {"run", "step"}

Token(c) ==
  /\ Generating /\ c \in running
  /\ Stream[c] /\ sent[c] < MaxTokens[c]
  /\ sent' = [sent EXCEPT ![c] = @ + 1]
  /\ unread' = [unread EXCEPT ![c] = @ + 1]
  /\ wpc' \in IF wpc = "step" THEN {"step", "ready"} ELSE {"run"}
  /\ UNCHANGED <<encoding, mode, st, queue, lock, batch, running, policy, deferred, ended, cpc>>

Finish(c) ==
  /\ Generating /\ c \in running
  /\ running' = running \ {c} /\ ended' = ended \cup {c}
  /\ wpc' \in IF wpc = "run" THEN {"run"} ELSE IF running = {c} THEN {"ready"} ELSE {"step", "ready"}
  /\ UNCHANGED <<encoding, mode, st, queue, lock, batch, policy, deferred, sent, unread, cpc>>

\* A group that raises fails the requests without a last response.
GroupRaises ==
  /\ wpc = "run" /\ running # {}
  /\ ended' = ended \cup running /\ running' = {}
  /\ UNCHANGED <<encoding, mode, st, queue, lock, wpc, batch, policy, deferred, sent, unread, cpc>>

BatchDone ==
  /\ wpc = "run" /\ running = {} /\ batch = << >>
  /\ IF Cardinality(live) > 1 \/ queue # << >>
     THEN wpc' = "next" /\ UNCHANGED lock
     ELSE wpc' = "get" /\ lock' = Free
  /\ UNCHANGED <<encoding, mode, st, queue, batch, running, policy, deferred, responses, cpc>>

(***************************************************************************)
(* An online session: _run_tensor_parallel_online_batcher.                 *)
(***************************************************************************)
\* Mutant of LeaveSession: what the session deferred is forgotten.
LeaveSessionForgets ==
  /\ deferred' = << >> /\ batch' = << >> /\ running' = {} /\ policy' = "none"
  /\ wpc' = "get" /\ lock' = Free
  /\ UNCHANGED <<encoding, mode, st, queue, sent, unread, cpc>>

\* The session is left; what it deferred goes back to the queue.
LeaveSession ==
  /\ queue' = queue \o deferred
  /\ deferred' = << >> /\ batch' = << >> /\ running' = {} /\ policy' = "none"
  /\ wpc' = "get" /\ lock' = Free
  /\ UNCHANGED <<encoding, mode, st, sent, unread, cpc>>

\* reject_initial_batch
Reject == wpc = "start" /\ ended' = ended \cup ToSet(batch) /\ LeaveSession

\* Any failure ends every request the session has taken, the deferred ones too.
SessionRaises ==
  /\ wpc \in {"start", "join", "step"}
  /\ ended' = ended \cup running \cup ToSet(batch) \cup ToSet(deferred)
  /\ LeaveSession

\* submit_batch
Join ==
  /\ wpc \in {"start", "join"}
  /\ running' = running \cup (ToSet(batch) \ ended)
  /\ batch' = << >> /\ wpc' = "ready"
  /\ UNCHANGED <<encoding, mode, st, queue, lock, policy, deferred, responses, cpc>>

StaysInSession == Head(queue) # Stop /\ Joins(Head(queue))

\* get(timeout=persistent_idle_s) returns a request of the session.
IdleTake ==
  /\ wpc = "idle" /\ queue # << >> /\ StaysInSession
  /\ queue' = Tail(queue) /\ batch' = <<Head(queue)>> /\ wpc' = "join"
  /\ UNCHANGED <<encoding, mode, st, lock, running, policy, deferred, responses, cpc>>

\* It returns another request, which is deferred, or the sentinel, which is dropped.
IdleLeave ==
  /\ wpc = "idle" /\ queue # << >> /\ ~StaysInSession
  /\ queue' = Tail(queue) \o deferred \o (IF Head(queue) = Stop THEN << >> ELSE <<Head(queue)>>)
  /\ deferred' = << >> /\ policy' = "none" /\ wpc' = "get" /\ lock' = Free
  /\ UNCHANGED <<encoding, mode, st, batch, running, responses, cpc>>

IdleTimeout == wpc = "idle" /\ queue = << >> /\ LeaveSession /\ UNCHANGED ended

WorkerStep ==
  \/ Get \/ Lock \/ DrainOne \/ DrainEnd
  \/ RunGroup \/ GroupRaises \/ BatchDone
  \/ \E c \in Clients : Token(c) \/ Finish(c)
  \/ Reject \/ SessionRaises \/ Join \/ IdleTake \/ IdleLeave \/ IdleTimeout

(***************************************************************************)
(* close(), by one thread.                                                 *)
(***************************************************************************)
SetClosed ==
  /\ cpc = "open" /\ cpc' = "draining"
  /\ UNCHANGED <<encoding, mode, st, queue, lock, worker, responses>>

PutStop ==
  /\ cpc = "draining" /\ live = {}
  /\ queue' = Append(queue, Stop) /\ cpc' = "joining"
  /\ UNCHANGED <<encoding, mode, st, lock, worker, responses>>

JoinWorker ==
  /\ cpc = "joining" /\ wpc = "exit"
  /\ cpc' = "closed"
  /\ UNCHANGED <<encoding, mode, st, queue, lock, worker, responses>>

CloserStep == PutStop \/ JoinWorker

Next ==
  \/ \E c \in Clients : Enter(c) \/ ClientStep(c)
  \/ WorkerStep \/ SetClosed \/ CloserStep

\* Threads that can run do; whether a client comes and whether close() is called is open.
Spec ==
  /\ Init /\ [][Next]_vars
  /\ \A c \in Clients : WF_vars(ClientStep(c))
  /\ WF_vars(WorkerStep) /\ WF_vars(CloserStep)

(***************************************************************************)
(* Properties.                                                             *)
(***************************************************************************)
\* Every variable has its type; a batch keeps its limit, the prompt cache its
\* size, and the worker generates only while it holds the model lock.
TypeOK ==
  /\ EncodingTypeOK
  /\ mode \in Modes /\ cpc \in {"open", "draining", "joining", "closed"}
  /\ st \in [Clients -> {"out", "encoding", "alone", "direct", "paused", "submit", "put",
                         "waiting", "reading", "leaving", "gone"}]
  /\ queue \in Seq(Clients \cup {Stop}) /\ lock \in Clients \cup {Free, Worker}
  /\ wpc \in Draining \cup {"get", "exit", "lock", "enter", "run", "start", "join", "step", "idle"}
  /\ batch \in Seq(Clients) /\ Len(batch) <= Limit
  /\ running \subseteq Clients /\ (running # {} => lock = Worker)
  /\ deferred \in Seq(Clients) /\ ended \subseteq Clients
  /\ sent \in [Clients -> Nat] /\ unread \in [Clients -> Nat]
  /\ \A c \in Clients : unread[c] <= sent[c] /\ sent[c] <= MaxTokens[c]

\* The model has one user: a client on the direct path, also while its stream is
\* suspended, or the worker from before it generates until it is done.
Locked == (Draining \ {"collect"}) \cup {"run", "start", "join", "step", "idle"}
ModelLocked ==
  /\ \A c \in Clients : lock = c <=> st[c] \in {"direct", "paused"}
  /\ lock = Worker <=> wpc \in Locked

\* What the worker holds, by the place it is at: an online session has a policy, only
\* a session defers, and it generates for nobody when it idles.
InSession == {"enter", "gather", "start", "join", "step", "ready", "wait", "idle"}
WorkerStage ==
  /\ policy # "none" <=> wpc \in InSession
  /\ wpc \in InSession => mode.online
  /\ deferred # << >> => wpc \in InSession
  /\ running # {} => wpc \in {"run", "step", "ready", "join"}
  /\ wpc = "step" => running # {}
  /\ wpc \in {"get", "exit", "step", "idle"} => batch = << >>
  /\ wpc \in {"collect", "lock", "drain", "enter", "gather", "start", "join"} => batch # << >>

\* No request is in two places, from the queue through a batch or the deferred ones
\* into what the worker generates for, nor twice in one.
OnePlace ==
  /\ IsInjective(queue) /\ IsInjective(batch) /\ IsInjective(deferred)
  /\ ToSet(queue) \cap (ToSet(batch) \cup ToSet(deferred) \cup running) = {}
  /\ ToSet(batch) \cap (ToSet(deferred) \cup running) = {} /\ ToSet(deferred) \cap running = {}

\* A request whose client waits is in one place until its last response, and the
\* worker generates for none after it.
Held == ToSet(queue) \cup ToSet(batch) \cup ToSet(deferred) \cup running
RequestsKept ==
  /\ OnePlace /\ running \cap ended = {}
  /\ \A c \in Clients :
       /\ c \in Held \cup ended => st[c] \in {"waiting", "reading", "gone"}
       /\ st[c] \in {"waiting", "reading"} => c \in Held \cup ended
       /\ enc[c] # "none" <=> st[c] = "encoding"

\* The sentinel is queued once, when no client is left, and only an online session
\* can lose it; the worker exits with it and leaves nobody behind.
SentinelKept ==
  /\ Stop \in ToSet(queue) => cpc = "joining" /\ wpc # "exit"
  /\ wpc = "exit" => cpc \in {"joining", "closed"}
  /\ cpc = "closed" => wpc = "exit"
  /\ cpc = "joining" /\ ~mode.online => Stop \in ToSet(queue) \/ wpc = "exit"
  /\ cpc \in {"joining", "closed"} => live = {}

\* No token follows the last response of a request, whoever still lists it.
EndedIsFinal ==
  [][\A c \in ended : c \in ended' /\ sent'[c] = sent[c] /\ unread'[c] <= unread[c]]_vars

\* The safety of the engine, and an invariant that each step keeps: no client encodes
\* for nothing or twice, none uses the model beside another, and no request or sentinel
\* is lost or doubled on its way from the queue through batches and sessions.
QueueInv ==
  /\ TypeOK /\ OneEncoder /\ JobsLed /\ ModelLocked /\ WorkerStage /\ RequestsKept /\ SentinelKept

\* A client that has entered comes back, whatever encodes its prompt, holds the
\* lock, defers, fails or ends its request: no wake-up and no request is lost
\* between leader and jobs, owner and waiters, session and queue, close and put.
AllAnswered == \A c \in Clients : st[c] = "encoding" ~> st[c] = "gone"

\* close() returns once it was called, whatever is queued, running or held
\* deferred then (generate_chat_tokens and close() in openai_server.py).
CloseReturns == cpc = "draining" ~> cpc = "closed"

\* Where no online session can take the sentinel, close() returns.
CloseReturnsQueued == (cpc = "draining" /\ ~mode.online) ~> cpc = "closed"

=============================================================================
