---------------------------- MODULE EngineFacade ----------------------------
(***************************************************************************)
(* engine/engine.py: InferenceEngine.generate_stream with its bookkeeping   *)
(* of active and cancelled request ids, and AsyncInferenceEngine, which     *)
(* runs it on a thread per stream and hands its events to a consumer task   *)
(* through an unbounded asyncio.Queue.                                      *)
(*                                                                          *)
(* Each critical section of self._lock is one action, as is each put that   *)
(* the event loop performs for a thread.  The backend yields at most        *)
(* MaxTokens tokens and may raise at any of its calls.                      *)
(***************************************************************************)
EXTENDS Naturals, Sequences

CONSTANTS Streams,    \* calls of AsyncInferenceEngine.generate_stream
          Ids,        \* request ids
          NoId,
          MaxTokens   \* sampling.max_tokens of every request

ASSUME FacadeAssumption == NoId \notin Ids /\ MaxTokens \in Nat

VARIABLES active,      \* _active_requests
          cancelled,   \* _cancelled_requests
          closed,      \* _closed
          id,          \* stream -> request id, NoId before the call
          pc,          \* where the thread of the stream is
          emitted,     \* events with a token it has yielded
          reason,      \* "complete" for stop and length, "cancelled", or "error" for an exception
          queue,       \* the asyncio.Queue of the stream
          cons,        \* where the consumer task is
          got,         \* the events it has received
          asked,       \* history: streams whose id was cancelled after their call
          late         \* history: tokens put while the id was marked cancelled

engine == <<active, cancelled, closed>>
consumer == <<cons, got>>
vars == <<engine, id, pc, emitted, reason, queue, consumer, asked, late>>

Token(i) == [kind |-> "token", index |-> i]
Final(n) == [kind |-> "final", index |-> n]
Error == [kind |-> "error", index |-> 0]
End == [kind |-> "end", index |-> 0]     \* None
Events == {Token(i) : i \in 0..MaxTokens} \cup {Final(n) : n \in 0..MaxTokens} \cup {Error, End}

Init ==
  /\ active = {} /\ cancelled = {} /\ closed = FALSE
  /\ id = [s \in Streams |-> NoId]
  /\ pc = [s \in Streams |-> "none"]
  /\ emitted = [s \in Streams |-> 0]
  /\ reason = [s \in Streams |-> "complete"]
  /\ queue = [s \in Streams |-> << >>]
  /\ cons = [s \in Streams |-> "none"]
  /\ got = [s \in Streams |-> << >>]
  /\ asked = {} /\ late = [s \in Streams |-> 0]

Goto(s, label) == pc' = [pc EXCEPT ![s] = label]

(***************************************************************************)
(* The thread of a stream.                                                 *)
(***************************************************************************)
\* An exception leaves generate_stream: after _exit_request once inside its try.
Throw(s, label) ==
  /\ reason' = [reason EXCEPT ![s] = "error"]
  /\ Goto(s, label)

EnsureOpen(s) ==
  /\ pc[s] = "start"
  /\ IF closed THEN Throw(s, "put_error") ELSE Goto(s, "enter") /\ UNCHANGED reason
  /\ UNCHANGED <<engine, id, emitted, queue, consumer, asked, late>>

\* Mutant: trusts the check of _ensure_open.
EnterUnchecked(s) ==
  /\ pc[s] = "enter"
  /\ active' = active \cup {id[s]} /\ cancelled' = cancelled \ {id[s]}
  /\ Goto(s, "next")
  /\ UNCHANGED <<closed, id, emitted, reason, queue, consumer, asked, late>>

\* Mutant: keeps a cancellation that was meant for an earlier request.
EnterKeepsCancelled(s) ==
  /\ pc[s] = "enter"
  /\ IF closed
     THEN Throw(s, "put_error") /\ UNCHANGED <<active, cancelled>>
     ELSE /\ active' = active \cup {id[s]} /\ UNCHANGED cancelled
          /\ Goto(s, "next") /\ UNCHANGED reason
  /\ UNCHANGED <<closed, id, emitted, queue, consumer, asked, late>>

EnterRequest(s) ==
  /\ pc[s] = "enter"
  /\ IF closed
     THEN Throw(s, "put_error") /\ UNCHANGED <<active, cancelled>>
     ELSE /\ active' = active \cup {id[s]} /\ cancelled' = cancelled \ {id[s]}
          /\ Goto(s, "next") /\ UNCHANGED reason
  /\ UNCHANGED <<closed, id, emitted, queue, consumer, asked, late>>

\* Mutant: one token too many.
BackendTokenPastMax(s) ==
  /\ pc[s] = "next" /\ emitted[s] <= MaxTokens
  /\ Goto(s, "check")
  /\ UNCHANGED <<engine, id, emitted, reason, queue, consumer, asked, late>>

\* The backend yields a token, ends, or raises (so may decoding the token, or
\* closing the iterator of a cancelled request).
BackendToken(s) ==
  /\ pc[s] = "next" /\ emitted[s] < MaxTokens
  /\ Goto(s, "check")
  /\ UNCHANGED <<engine, id, emitted, reason, queue, consumer, asked, late>>

BackendEnds(s) ==
  /\ pc[s] = "next"
  /\ Goto(s, "exit")
  /\ UNCHANGED <<engine, id, emitted, reason, queue, consumer, asked, late>>

Raises(s) ==
  /\ pc[s] \in {"next", "put_token"}
  /\ Throw(s, "exit")
  /\ UNCHANGED <<engine, id, emitted, queue, consumer, asked, late>>

\* Mutant: looks for a cancellation before the first token only.
CheckFirst(s) ==
  /\ pc[s] = "check"
  /\ IF id[s] \in cancelled /\ emitted[s] = 0
     THEN \E r \in {"cancelled", "error"} : reason' = [reason EXCEPT ![s] = r] /\ Goto(s, "exit")
     ELSE (Goto(s, "exit") \/ Goto(s, "put_token")) /\ UNCHANGED reason
  /\ UNCHANGED <<engine, id, emitted, queue, consumer, asked, late>>

\* _is_cancelled, then the stop tokens.
Check(s) ==
  /\ pc[s] = "check"
  /\ IF id[s] \in cancelled
     THEN \E r \in {"cancelled", "error"} : reason' = [reason EXCEPT ![s] = r] /\ Goto(s, "exit")
     ELSE (Goto(s, "exit") \/ Goto(s, "put_token")) /\ UNCHANGED reason
  /\ UNCHANGED <<engine, id, emitted, queue, consumer, asked, late>>

\* The event loop runs queue.put for the thread, which waits for its result.  What is
\* put after the consumer is gone is never read, and not kept here.
Put(s, item) == queue' = [queue EXCEPT ![s] = IF cons[s] = "reading" THEN Append(@, item) ELSE << >>]

\* Mutant: counts a token before it is handed out.
PutTokenCounted(s) ==
  /\ pc[s] = "put_token"
  /\ Put(s, Token(emitted[s] + 1))
  /\ emitted' = [emitted EXCEPT ![s] = @ + 1]
  /\ Goto(s, "next")
  /\ late' = [late EXCEPT ![s] = IF id[s] \in cancelled THEN @ + 1 ELSE @]
  /\ UNCHANGED <<engine, id, reason, consumer, asked>>

PutToken(s) ==
  /\ pc[s] = "put_token"
  /\ Put(s, Token(emitted[s]))
  /\ emitted' = [emitted EXCEPT ![s] = @ + 1]
  /\ Goto(s, "next")
  /\ late' = [late EXCEPT ![s] = IF id[s] \in cancelled THEN @ + 1 ELSE @]
  /\ UNCHANGED <<engine, id, reason, consumer, asked>>

\* Mutant: a request that raises stays active.
ExitOnSuccess(s) ==
  /\ pc[s] = "exit"
  /\ active' = IF reason[s] = "error" THEN active ELSE active \ {id[s]}
  /\ cancelled' = cancelled \ {id[s]}
  /\ Goto(s, IF reason[s] = "error" THEN "put_error" ELSE "put_final")
  /\ UNCHANGED <<closed, id, emitted, reason, queue, consumer, asked, late>>

ExitRequest(s) ==
  /\ pc[s] = "exit"
  /\ active' = active \ {id[s]} /\ cancelled' = cancelled \ {id[s]}
  /\ Goto(s, IF reason[s] = "error" THEN "put_error" ELSE "put_final")
  /\ UNCHANGED <<closed, id, emitted, reason, queue, consumer, asked, late>>

PutFinal(s) ==
  /\ pc[s] = "put_final"
  /\ Put(s, Final(emitted[s]))
  /\ Goto(s, "put_end")
  /\ UNCHANGED <<engine, id, emitted, reason, consumer, asked, late>>

\* Mutant: an exception ends the thread without a word.
PutNoError(s) ==
  /\ pc[s] = "put_error"
  /\ Goto(s, "dead")
  /\ UNCHANGED <<engine, id, emitted, reason, queue, consumer, asked, late>>

PutError(s) ==
  /\ pc[s] = "put_error"
  /\ Put(s, Error)
  /\ Goto(s, "put_end")
  /\ UNCHANGED <<engine, id, emitted, reason, consumer, asked, late>>

PutEnd(s) ==
  /\ pc[s] = "put_end"
  /\ Put(s, End)
  /\ Goto(s, "ending")
  /\ UNCHANGED <<engine, id, emitted, reason, consumer, asked, late>>

\* is_alive() is true until here.
ThreadEnds(s) ==
  /\ pc[s] = "ending" /\ Goto(s, "dead")
  /\ UNCHANGED <<engine, id, emitted, reason, queue, consumer, asked, late>>

(***************************************************************************)
(* The consumer task, and calls from outside.                              *)
(***************************************************************************)
\* The caller uses an id again only for a stream it has read to its end.
IdFree(i) == \A s \in Streams : id[s] = i => cons[s] \in {"done", "failed"}

Open(s, i) ==
  /\ cons[s] = "none" /\ IdFree(i)
  /\ id' = [id EXCEPT ![s] = i]
  /\ Goto(s, "start")
  /\ cons' = [cons EXCEPT ![s] = "reading"]
  /\ UNCHANGED <<engine, emitted, reason, queue, got, asked, late>>

\* cancel(i): the mark stays until a request with that id enters or exits.
MarkCancelled(i) ==
  /\ cancelled' = cancelled \cup {i}
  /\ asked' = asked \cup {s \in Streams : id[s] = i}

\* The finally clause of the consumer.
CancelIfAlive(s) ==
  IF pc[s] # "dead" THEN MarkCancelled(id[s]) ELSE UNCHANGED <<cancelled, asked>>

Receive(s) ==
  /\ cons[s] = "reading" /\ queue[s] # << >>
  /\ queue' = [queue EXCEPT ![s] = Tail(@)]
  /\ CASE Head(queue[s]) = End ->
            cons' = [cons EXCEPT ![s] = "done"] /\ CancelIfAlive(s) /\ UNCHANGED got
       [] Head(queue[s]) = Error ->
            cons' = [cons EXCEPT ![s] = "failed"] /\ CancelIfAlive(s) /\ got' = [got EXCEPT ![s] = << >>]
       [] OTHER ->
            got' = [got EXCEPT ![s] = Append(@, Head(queue[s]))] /\ UNCHANGED <<cons, cancelled, asked>>
  /\ UNCHANGED <<active, closed, id, pc, emitted, reason, late>>

\* The generator is closed, or its task cancelled, before the end.
Leave(s) ==
  /\ cons[s] = "reading"
  /\ cons' = [cons EXCEPT ![s] = "left"]
  /\ queue' = [queue EXCEPT ![s] = << >>] /\ got' = [got EXCEPT ![s] = << >>]
  /\ CancelIfAlive(s)
  /\ UNCHANGED <<active, closed, id, pc, emitted, reason, late>>

Cancel(i) ==
  /\ MarkCancelled(i)
  /\ UNCHANGED <<active, closed, id, pc, emitted, reason, queue, consumer, late>>

Close ==
  /\ ~closed /\ closed' = TRUE
  /\ UNCHANGED <<active, cancelled, id, pc, emitted, reason, queue, consumer, asked, late>>

Thread(s) ==
  \/ EnsureOpen(s) \/ EnterRequest(s) \/ BackendToken(s) \/ BackendEnds(s) \/ Raises(s)
  \/ Check(s) \/ PutToken(s) \/ ExitRequest(s) \/ PutFinal(s) \/ PutError(s) \/ PutEnd(s)
  \/ ThreadEnds(s)

Next ==
  \/ \E s \in Streams : Thread(s) \/ Receive(s) \/ Leave(s)
  \/ \E s \in Streams, i \in Ids : Open(s, i)
  \/ \E i \in Ids : Cancel(i)
  \/ Close

Spec == Init /\ [][Next]_vars

-----------------------------------------------------------------------------
(* Properties *)

Inside(s) == pc[s] \in {"next", "check", "put_token", "exit"}

TypeOK ==
  /\ active \subseteq Ids /\ cancelled \subseteq Ids /\ closed \in BOOLEAN
  /\ id \in [Streams -> Ids \cup {NoId}]
  /\ pc \in [Streams -> {"none", "start", "enter", "next", "check", "put_token", "exit",
                         "put_final", "put_error", "put_end", "ending", "dead"}]
  /\ emitted \in [Streams -> 0..MaxTokens]
  /\ reason \in [Streams -> {"complete", "cancelled", "error"}]
  /\ cons \in [Streams -> {"none", "reading", "done", "failed", "left"}]
  /\ queue \in [Streams -> Seq(Events)] /\ got \in [Streams -> Seq(Events)]
  /\ \A s \in Streams : Len(queue[s]) + Len(got[s]) <= MaxTokens + 2
  /\ asked \subseteq Streams /\ late \in [Streams -> 0..MaxTokens]

\* stats.active_requests: an id is active exactly while a stream with that id is
\* between _enter_request and _exit_request, however it ends and whichever stream
\* used the id before.
ActiveExact == active = {id[s] : s \in {x \in Streams : Inside(x)}}

\* A request ends as cancelled only if its id was cancelled after it was made: a
\* mark left by the end of an earlier request with the same id does not hit it.
NoStrayCancel == \A s \in Streams : reason[s] = "cancelled" => s \in asked

\* After an id is cancelled, its stream hands out at most the one token that had
\* passed the check already.
CancelStops == \A s \in Streams : late[s] <= 1

\* A consumer that reads to the end receives every token that was yielded, once and
\* in order, then one final event that counts them.
StreamComplete ==
  \A s \in Streams :
    cons[s] = "done" => got[s] = [i \in 1..emitted[s] |-> Token(i - 1)] \o <<Final(emitted[s])>>

\* After close() no request becomes active, also one that had passed _ensure_open.
ClosedAdmitsNothing == [][closed => active' \subseteq active]_vars

\* A consumer never waits on an empty queue for a thread that is gone, also when the
\* engine was closed before the thread entered or the backend raised.  (A thread takes
\* finitely many steps and waits for nobody: the stream therefore ends.)
NobodyWaits ==
  \A s \in Streams : cons[s] = "reading" /\ queue[s] = << >> => pc[s] \notin {"none", "ending", "dead"}

=============================================================================
