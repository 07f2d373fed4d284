------------------------- MODULE EngineFacadeProofs -------------------------
(***************************************************************************)
(* The bookkeeping of active and cancelled requests, and what a consumer    *)
(* receives, for every number of streams and ids and every max_tokens.      *)
(***************************************************************************)
EXTENDS EngineFacade, SequenceTheorems, TLAPS

\* A queue holds an end marker only when its thread has nothing more to put, and an
\* error only when nothing but the end marker is to follow; a consumer that took one
\* is as far.
Over == {"ending", "dead"}
Closing == Over \cup {"put_end"}

Holds(q, e) == \E i \in 1..Len(q) : q[i] = e

EndsMatch ==
  \A s \in Streams :
    /\ Holds(queue[s], End) \/ cons[s] = "done" => pc[s] \in Over
    /\ Holds(queue[s], Error) \/ cons[s] = "failed" => pc[s] \in Closing

\* A consumer still reading from a thread that is over will find the end marker.
EndComes == \A s \in Streams : cons[s] = "reading" /\ pc[s] \in Over => Holds(queue[s], End)

\* A stream has an id, a thread and a consumer from its call on.
CallStarts ==
  \A s \in Streams :
    /\ id[s] = NoId <=> cons[s] = "none"
    /\ id[s] = NoId <=> pc[s] = "none"

\* Of two streams with one id, one has been read to its end.
IdShared ==
  \A s, t \in Streams :
    s # t /\ id[s] = id[t] /\ id[s] # NoId =>
      cons[s] \in {"done", "failed"} \/ cons[t] \in {"done", "failed"}

\* A mark on the id of a stream that is inside was made for that stream.
MarksAsked == \A s \in Streams : Inside(s) /\ id[s] \in cancelled => s \in asked

\* A token put after the cancellation leaves the mark in place, and the next check
\* sees it.
MarksStay ==
  \A s \in Streams :
    late[s] > 0 => /\ late[s] = 1 /\ pc[s] # "put_token"
                   /\ pc[s] \in {"next", "check"} => id[s] \in cancelled
                   /\ pc[s] \notin {"none", "start", "enter"}

\* How many events there can be, by the place of the thread.
Puts(s) == IF pc[s] = "put_end" THEN 1 ELSE IF pc[s] \in Over THEN 2 ELSE 0
Fits(s) == /\ Len(queue[s]) + Len(got[s]) <= emitted[s] + Puts(s)
           /\ late[s] <= emitted[s]
           /\ pc[s] \in {"check", "put_token"} => emitted[s] < MaxTokens
Counted == \A s \in Streams : Fits(s)

FacadeInv == /\ TypeOK /\ EndsMatch /\ EndComes /\ CallStarts /\ IdShared
             /\ ActiveExact /\ MarksAsked /\ NoStrayCancel /\ MarksStay /\ Counted

-----------------------------------------------------------------------------
\* What appending one event does to a queue.
LEMMA AppendFacts ==
  ASSUME NEW q \in Seq(Events), NEW e \in Events
  PROVE  /\ Append(q, e) \in Seq(Events) /\ Len(Append(q, e)) = Len(q) + 1
         /\ \A x : Holds(Append(q, e), x) <=> Holds(q, x) \/ x = e
  <1>1. Append(q, e) \in Seq(Events) /\ Len(Append(q, e)) = Len(q) + 1
    OBVIOUS
  <1>2. ASSUME NEW x, Holds(Append(q, e), x) PROVE Holds(q, x) \/ x = e
    BY <1>1, <1>2 DEF Holds
  <1>3. ASSUME NEW x, Holds(q, x) PROVE Holds(Append(q, e), x)
    BY <1>3 DEF Holds
  <1>4. Holds(Append(q, e), e)
    <2>1. Append(q, e)[Len(q) + 1] = e /\ Len(q) + 1 \in 1..Len(Append(q, e))
      OBVIOUS
    <2>2. QED
      BY <2>1 DEF Holds
  <1>5. QED
    BY <1>1, <1>2, <1>3, <1>4

\* What taking the first event does to a queue.
LEMMA TailFacts ==
  ASSUME NEW q \in Seq(Events), q # << >>
  PROVE  /\ Head(q) \in Events /\ Tail(q) \in Seq(Events) /\ Len(Tail(q)) + 1 = Len(q)
         /\ \A x : Holds(q, x) <=> x = Head(q) \/ Holds(Tail(q), x)
  <1>1. Head(q) = q[1] /\ Head(q) \in Events /\ Tail(q) \in Seq(Events) /\ Len(Tail(q)) + 1 = Len(q)
    OBVIOUS
  <1>2. ASSUME NEW x, NEW i \in 1..Len(q), q[i] = x
        PROVE  x = Head(q) \/ Holds(Tail(q), x)
    <2>1. CASE i = 1
      BY <1>1, <1>2, <2>1
    <2>2. CASE i # 1
      <3>1. i - 1 \in 1..Len(Tail(q)) /\ Tail(q)[i - 1] = x
        BY <1>1, <1>2, <2>2
      <3>2. QED
        BY <3>1 DEF Holds
    <2>3. QED
      BY <2>1, <2>2
  <1>3. ASSUME NEW x, NEW i \in 1..Len(Tail(q)), Tail(q)[i] = x
        PROVE  Holds(q, x)
    <2>1. i + 1 \in 1..Len(q) /\ q[i + 1] = x
      BY <1>1, <1>3
    <2>2. QED
      BY <2>1 DEF Holds
  <1>4. Holds(q, Head(q))
    <2>1. 1 \in 1..Len(q)
      OBVIOUS
    <2>2. QED
      BY <1>1, <2>1 DEF Holds
  <1>5. QED
    BY <1>1, <1>2, <1>3, <1>4 DEF Holds

\* The event loop appends at most the given event to the queue of one stream.
LEMMA PutFacts ==
  ASSUME TypeOK, NEW s \in Streams, NEW e \in Events, Put(s, e)
  PROVE  /\ queue' \in [Streams -> Seq(Events)]
         /\ Len(queue'[s]) <= Len(queue[s]) + 1
         /\ \A x : Holds(queue'[s], x) => Holds(queue[s], x) \/ x = e
         /\ cons[s] = "reading" => Holds(queue'[s], e)
         /\ \A t \in Streams \ {s} : queue'[t] = queue[t]
  <1>1. queue[s] \in Seq(Events) /\ Len(queue[s]) \in Nat
    BY DEF TypeOK
  <1>2. CASE cons[s] = "reading"
    <2>1. queue' = [queue EXCEPT ![s] = Append(queue[s], e)]
      BY <1>2 DEF Put
    <2>2. QED
      BY <1>1, <1>2, <2>1, AppendFacts DEF TypeOK
  <1>3. CASE cons[s] # "reading"
    <2>1. queue' = [queue EXCEPT ![s] = << >>]
      BY <1>3 DEF Put
    <2>2. ~ \E x : Holds(<< >>, x)
      BY DEF Holds
    <2>3. << >> \in Seq(Events) /\ Len(<< >>) = 0
      OBVIOUS
    <2>4. QED
      BY <1>1, <1>3, <2>1, <2>2, <2>3 DEF TypeOK
  <1>4. QED
    BY <1>2, <1>3

\* The events of a stream, each in the set of events.
LEMMA EventsType ==
  /\ Error \in Events /\ End \in Events /\ Error # End
  /\ \A n \in 0..MaxTokens : Token(n) \in Events /\ Final(n) \in Events
  /\ \A n : Token(n) \notin {Error, End} /\ Final(n) \notin {Error, End}
  BY DEF Events, Error, End, Token, Final

\* A step after which the same streams are inside, under the same ids.
LEMMA ActiveSame ==
  ASSUME ActiveExact, active' = active, \A x \in Streams : id'[x] = id[x] \/ ~Inside(x),
         \A x \in Streams : Inside(x)' <=> Inside(x)
  PROVE  ActiveExact'
  <1>1. ASSUME NEW i
        PROVE  (\E x \in Streams : Inside(x)' /\ id'[x] = i)
                 <=> (\E x \in Streams : Inside(x) /\ id[x] = i)
    OBVIOUS
  <1>2. QED
    BY <1>1 DEF ActiveExact

-----------------------------------------------------------------------------
\* A step of a thread that puts nothing and leaves the engine's sets alone.
Moves == {<<"start", "enter">>, <<"start", "put_error">>, <<"next", "check">>, <<"next", "exit">>,
          <<"check", "exit">>, <<"check", "put_token">>, <<"put_token", "exit">>,
          <<"ending", "dead">>}

Quiet(s, to, r) ==
  /\ <<pc[s], to>> \in Moves
  /\ pc' = [pc EXCEPT ![s] = to] /\ reason' = [reason EXCEPT ![s] = r]
  /\ to = "check" => emitted[s] < MaxTokens
  /\ to = "put_token" => id[s] \notin cancelled
  /\ r \in {reason[s], "error"} \/ (r = "cancelled" /\ id[s] \in cancelled /\ Inside(s))
  /\ UNCHANGED <<active, cancelled, closed, id, emitted, queue, cons, got, asked, late>>

\* Such a step keeps the invariant.
LEMMA QuietInv ==
  ASSUME FacadeInv, NEW s \in Streams, NEW to, NEW r, Quiet(s, to, r)
  PROVE  FacadeInv'
  <1>1. /\ pc[s] \in {"start", "next", "check", "put_token", "ending"}
        /\ to \in {"enter", "put_error", "check", "exit", "put_token", "dead"}
        /\ to = "dead" <=> pc[s] = "ending"
        /\ to \in {"enter", "put_error"} <=> pc[s] = "start"
        /\ to \in {"check", "put_token"} => pc[s] \in {"next", "check"}
    BY DEF Quiet, Moves
  <1>2. /\ pc'[s] = to /\ \A t \in Streams \ {s} : pc'[t] = pc[t]
        /\ reason'[s] = r /\ \A t \in Streams \ {s} : reason'[t] = reason[t]
    BY DEF Quiet, FacadeInv, TypeOK
  <1>3. TypeOK'
    BY <1>1 DEF FacadeInv, TypeOK, Quiet
  <1>4. ASSUME NEW t \in Streams PROVE Fits(t)'
    <2>1. Fits(t) /\ Puts(t)' = Puts(t) /\ UNCHANGED <<emitted, queue, got, late>>
      BY <1>1, <1>2 DEF FacadeInv, Counted, Quiet, Puts, Over
    <2>2. pc'[t] \in {"check", "put_token"} => emitted[t] < MaxTokens
      BY <1>1, <1>2, <2>1 DEF Fits, Quiet, Moves
    <2>3. QED
      BY <2>1, <2>2 DEF Fits
  <1>5. EndsMatch' /\ EndComes'
    BY <1>1, <1>2 DEF FacadeInv, EndsMatch, EndComes, Over, Closing, Quiet
  <1>6. CallStarts' /\ IdShared'
    BY <1>1, <1>2 DEF FacadeInv, CallStarts, IdShared, Quiet
  <1>7. active' = active /\ id' = id /\ \A x \in Streams : Inside(x)' <=> Inside(x)
    BY <1>1, <1>2 DEF Quiet, Inside, Moves
  <1>8. ActiveExact'
    BY <1>7, ActiveSame DEF FacadeInv
  <1>9. MarksAsked'
    BY <1>7 DEF FacadeInv, MarksAsked, Quiet
  <1>10. NoStrayCancel'
    BY <1>2 DEF FacadeInv, NoStrayCancel, MarksAsked, Quiet
  <1>11. MarksStay'
    BY <1>1, <1>2 DEF FacadeInv, MarksStay, Quiet
  <1>12. QED
    BY <1>3, <1>4, <1>5, <1>6, <1>8, <1>9, <1>10, <1>11 DEF FacadeInv, Counted

\* _ensure_open, the backend's answers, the check and the end of the thread are such.
LEMMA QuietActions ==
  ASSUME FacadeInv, NEW s \in Streams,
         \/ EnsureOpen(s) \/ BackendToken(s) \/ BackendEnds(s) \/ Raises(s) \/ Check(s)
         \/ ThreadEnds(s)
  PROVE  FacadeInv'
  <1>1. reason' = reason => reason' = [reason EXCEPT ![s] = reason[s]]
    BY DEF FacadeInv, TypeOK
  <1>2. ASSUME EnsureOpen(s)
        PROVE  Quiet(s, "put_error", "error") \/ Quiet(s, "enter", reason[s])
    BY <1>1, <1>2 DEF EnsureOpen, Throw, Goto, Quiet, Moves, engine, consumer
  <1>3. ASSUME BackendToken(s)
        PROVE  Quiet(s, "check", reason[s])
    BY <1>1, <1>3 DEF BackendToken, Goto, Quiet, Moves, engine, consumer
  <1>4. ASSUME BackendEnds(s)
        PROVE  Quiet(s, "exit", reason[s])
    BY <1>1, <1>4 DEF BackendEnds, Goto, Quiet, Moves, engine, consumer
  <1>5. ASSUME Raises(s)
        PROVE  Quiet(s, "exit", "error")
    BY <1>5 DEF Raises, Throw, Goto, Quiet, Moves, engine, consumer
  <1>6. ASSUME Check(s)
        PROVE  \/ \E r \in {"cancelled", "error"} : Quiet(s, "exit", r)
               \/ Quiet(s, "exit", reason[s]) \/ Quiet(s, "put_token", reason[s])
    BY <1>1, <1>6 DEF Check, Goto, Quiet, Moves, Inside, engine, consumer
  <1>7. ASSUME ThreadEnds(s)
        PROVE  Quiet(s, "dead", reason[s])
    BY <1>1, <1>7 DEF ThreadEnds, Goto, Quiet, Moves, engine, consumer
  <1>8. QED
    BY <1>2, <1>3, <1>4, <1>5, <1>6, <1>7, QuietInv

\* _enter_request keeps the invariant: the mark it clears was made for no stream inside.
LEMMA EnterRequestInv ==
  ASSUME FacadeInv, NEW s \in Streams, EnterRequest(s)
  PROVE  FacadeInv'
  <1>1. id[s] \in Ids
    BY DEF CallStarts, TypeOK, FacadeInv, EnterRequest
  <1>2. active' \subseteq Ids /\ cancelled' \subseteq Ids
    BY <1>1 DEF TypeOK, FacadeInv, EnterRequest
  <1>3. /\ pc' = [pc EXCEPT ![s] = "put_error"] \/ pc' = [pc EXCEPT ![s] = "next"]
        /\ reason' = [reason EXCEPT ![s] = "error"] \/ reason' = reason
    BY DEF EnterRequest, Throw, Goto
  <1>4. TypeOK'
    BY <1>2, <1>3 DEF TypeOK, FacadeInv, EnterRequest, consumer
  <1>5. Counted'
    BY DEF Counted, Fits, Puts, Over, TypeOK, FacadeInv, EnterRequest, Throw, Goto, consumer
  <1>6. EndsMatch' /\ EndComes'
    BY DEF EndsMatch, EndComes, Over, Closing, TypeOK, FacadeInv, EnterRequest, Throw, Goto,
       engine, consumer
  <1>7. CallStarts' /\ IdShared'
    <2>1. /\ id' = id /\ cons' = cons /\ pc[s] = "enter" /\ pc'[s] \in {"put_error", "next"}
          /\ \A t \in Streams \ {s} : pc'[t] = pc[t]
      BY <1>3 DEF TypeOK, FacadeInv, EnterRequest, consumer
    <2>2. QED
      BY <2>1 DEF CallStarts, IdShared, FacadeInv
  <1>8. \A t \in Streams \ {s} : id[t] = id[s] => ~Inside(t)
    BY DEF FacadeInv, IdShared, EndsMatch, CallStarts, Inside, Over, Closing, EnterRequest
  <1>9. /\ id' = id
        /\ \/ active' = active /\ pc' = [pc EXCEPT ![s] = "put_error"]
           \/ active' = active \cup {id[s]} /\ pc' = [pc EXCEPT ![s] = "next"]
    BY DEF EnterRequest, Throw, Goto
  <1>10. ActiveExact'
    <2>1. CASE active' = active /\ pc' = [pc EXCEPT ![s] = "put_error"]
      <3>1. \A x \in Streams : Inside(x)' <=> Inside(x)
        BY <2>1 DEF Inside, EnterRequest
      <3>2. QED
        BY <1>9, <2>1, <3>1, ActiveSame DEF FacadeInv
    <2>2. CASE active' = active \cup {id[s]} /\ pc' = [pc EXCEPT ![s] = "next"]
      <3>1. \A x \in Streams : Inside(x)' <=> Inside(x) \/ x = s
        BY <2>2 DEF Inside, TypeOK, FacadeInv
      <3>2. QED
        BY <1>9, <2>2, <3>1 DEF ActiveExact, FacadeInv
    <2>3. QED
      BY <1>9, <2>1, <2>2
  <1>11. MarksAsked' /\ NoStrayCancel'
    BY <1>8 DEF MarksAsked, NoStrayCancel, Inside, TypeOK, FacadeInv, EnterRequest, Throw, Goto
  <1>12. MarksStay'
    BY <1>8 DEF MarksStay, Inside, TypeOK, FacadeInv, EnterRequest, Throw, Goto
  <1>13. QED
    BY <1>4, <1>5, <1>6, <1>7, <1>10, <1>11, <1>12 DEF FacadeInv

\* _exit_request keeps it: no other stream with that id is inside.
LEMMA ExitRequestInv ==
  ASSUME FacadeInv, NEW s \in Streams, ExitRequest(s)
  PROVE  FacadeInv'
  <1>1. TypeOK'
    BY FacadeAssumption DEF TypeOK, FacadeInv, ExitRequest, Goto, consumer
  <1>2. Counted'
    BY DEF Counted, Fits, Puts, Over, TypeOK, FacadeInv, ExitRequest, Goto, consumer
  <1>3. EndsMatch' /\ EndComes'
    BY DEF EndsMatch, EndComes, Over, Closing, FacadeInv, ExitRequest, Goto, consumer
  <1>4. CallStarts' /\ IdShared'
    BY FacadeAssumption DEF CallStarts, IdShared, FacadeInv, ExitRequest, Goto, consumer
  <1>5. \A t \in Streams \ {s} : id[t] = id[s] => ~Inside(t)
    BY DEF FacadeInv, IdShared, EndsMatch, CallStarts, Inside, Over, Closing, ExitRequest
  <1>6. \A x \in Streams : Inside(x)' <=> Inside(x) /\ x # s
    BY DEF Inside, TypeOK, FacadeInv, ExitRequest, Goto
  <1>7. active' = active \ {id[s]} /\ id' = id
    BY DEF ExitRequest
  <1>8. ActiveExact'
    BY <1>5, <1>6, <1>7 DEF ActiveExact, FacadeInv
  <1>9. MarksAsked' /\ NoStrayCancel'
    BY <1>5 DEF MarksAsked, NoStrayCancel, Inside, FacadeInv, ExitRequest, Goto
  <1>10. MarksStay'
    BY <1>5 DEF MarksStay, Inside, FacadeInv, ExitRequest, Goto
  <1>11. QED
    BY <1>1, <1>2, <1>3, <1>4, <1>8, <1>9, <1>10 DEF FacadeInv

-----------------------------------------------------------------------------
\* A step of a thread that puts one event: only the end marker ends it, only the end
\* marker follows an error.
Sending == {<<"put_token", "next">>, <<"put_final", "put_end">>, <<"put_error", "put_end">>,
            <<"put_end", "ending">>}

Sends(s, to, e, n, m) ==
  /\ <<pc[s], to>> \in Sending
  /\ e \in Events /\ Put(s, e)
  /\ e = End <=> to = "ending"
  /\ e = Error => to = "put_end"
  /\ pc' = [pc EXCEPT ![s] = to]
  /\ emitted' = [emitted EXCEPT ![s] = n] /\ late' = [late EXCEPT ![s] = m]
  /\ to # "next" => n = emitted[s] /\ m = late[s]
  /\ to = "next" => n = emitted[s] + 1 /\ (m = late[s] \/ (m = late[s] + 1 /\ id[s] \in cancelled))
  /\ UNCHANGED <<active, cancelled, closed, id, reason, cons, got, asked>>

\* There is room for every event that may still come.
LEMMA SumBound ==
  ASSUME NEW q \in Seq(Events), NEW g \in Seq(Events), NEW e \in 0..MaxTokens, NEW p \in 0..2,
         Len(q) + Len(g) <= e + p
  PROVE  Len(q) + Len(g) <= MaxTokens + 2
  BY FacadeAssumption

\* Such a step keeps the invariant.
LEMMA SendInv ==
  ASSUME FacadeInv, NEW s \in Streams, NEW to, NEW e, NEW n, NEW m, Sends(s, to, e, n, m)
  PROVE  FacadeInv'
  <1>1. /\ queue' \in [Streams -> Seq(Events)]
        /\ Len(queue'[s]) <= Len(queue[s]) + 1
        /\ \A x : Holds(queue'[s], x) => Holds(queue[s], x) \/ x = e
        /\ cons[s] = "reading" => Holds(queue'[s], e)
        /\ \A t \in Streams \ {s} : queue'[t] = queue[t]
    BY PutFacts DEF FacadeInv, Sends
  <1>2. /\ <<pc[s], to>> \in Sending
        /\ pc'[s] = to /\ emitted'[s] = n /\ late'[s] = m
        /\ \A t \in Streams \ {s} : pc'[t] = pc[t] /\ emitted'[t] = emitted[t] /\ late'[t] = late[t]
        /\ UNCHANGED <<active, cancelled, closed, id, reason, cons, got, asked>>
    BY DEF FacadeInv, TypeOK, Sends
  <1>3. /\ queue \in [Streams -> Seq(Events)] /\ got \in [Streams -> Seq(Events)]
        /\ emitted[s] \in Nat /\ late[s] \in Nat
    BY FacadeAssumption DEF FacadeInv, TypeOK
  <1>4. Fits(s) /\ (pc[s] = "put_token" => emitted[s] < MaxTokens)
    BY DEF FacadeInv, Counted, Fits
  <1>5. n + Puts(s)' = emitted[s] + Puts(s) + 1
    BY <1>2, <1>3 DEF Sending, Puts, Over, Sends
  <1>6. n \in 0..MaxTokens /\ m \in Nat /\ m <= n
    <2>1. emitted[s] \in 0..MaxTokens /\ late[s] <= emitted[s]
      BY <1>4 DEF Fits, FacadeInv, TypeOK
    <2>2. n \in {emitted[s], emitted[s] + 1} /\ n - emitted[s] >= m - late[s]
          /\ m \in {late[s], late[s] + 1}
      BY <1>3 DEF Sends
    <2>3. n = emitted[s] + 1 => pc[s] = "put_token"
      BY <1>3 DEF Sends, Sending
    <2>4. QED
      BY FacadeAssumption, <1>3, <1>4, <2>1, <2>2, <2>3
  <1>7. Fits(s)'
    <2>1. to \notin {"check", "put_token"}
      BY <1>2 DEF Sending
    <2>2. Puts(s) \in Nat /\ Puts(s)' \in Nat
      BY DEF Puts
    <2>3. Len(queue'[s]) + Len(got[s]) <= n + Puts(s)'
      BY <1>1, <1>3, <1>4, <1>5, <1>6, <2>2 DEF Fits
    <2>4. QED
      BY <1>2, <1>6, <2>1, <2>3 DEF Fits
  <1>8. ASSUME NEW t \in Streams \ {s} PROVE Fits(t)'
    <2>1. Fits(t) /\ Puts(t)' = Puts(t)
      BY <1>2 DEF FacadeInv, Counted, Puts
    <2>2. QED
      BY <1>1, <1>2, <2>1 DEF Fits
  <1>9. emitted' \in [Streams -> 0..MaxTokens] /\ late' \in [Streams -> 0..MaxTokens]
    BY FacadeAssumption, <1>6 DEF FacadeInv, TypeOK, Sends
  <1>10. ASSUME NEW t \in Streams PROVE Len(queue'[t]) + Len(got'[t]) <= MaxTokens + 2
    <2>1. Len(queue'[t]) + Len(got'[t]) <= emitted'[t] + Puts(t)'
      BY <1>7, <1>8 DEF Fits
    <2>2. queue'[t] \in Seq(Events) /\ got'[t] \in Seq(Events) /\ emitted'[t] \in 0..MaxTokens
      BY <1>1, <1>2, <1>3, <1>9
    <2>3. Puts(t)' \in 0..2
      BY DEF Puts
    <2>4. QED
      BY <2>1, <2>2, <2>3, SumBound
  <1>11. TypeOK'
    BY <1>1, <1>2, <1>9, <1>10 DEF FacadeInv, TypeOK, Sends, Sending
  <1>12. EndsMatch' /\ EndComes'
    BY <1>1, <1>2 DEF FacadeInv, EndsMatch, EndComes, Over, Closing, Sends, Sending
  <1>13. CallStarts' /\ IdShared'
    BY <1>2 DEF FacadeInv, CallStarts, IdShared, Sending
  <1>14. \A x \in Streams : Inside(x)' <=> Inside(x)
    BY <1>2 DEF Inside, Sending
  <1>15. ActiveExact'
    BY <1>2, <1>14, ActiveSame DEF FacadeInv
  <1>16. MarksAsked' /\ NoStrayCancel'
    BY <1>2, <1>14 DEF FacadeInv, MarksAsked, NoStrayCancel
  <1>17. MarksStay'
    <2>1. pc[s] = "put_token" => late[s] = 0
      BY <1>3 DEF FacadeInv, MarksStay
    <2>2. to = "next" => pc[s] = "put_token" /\ (m = 0 \/ (m = 1 /\ id[s] \in cancelled))
      BY <1>2, <2>1 DEF Sends, Sending
    <2>3. to # "next" => m = late[s] /\ to \notin {"check", "put_token", "none", "start", "enter"}
      BY <1>2 DEF Sends, Sending
    <2>4. QED
      BY <1>2, <2>2, <2>3 DEF FacadeInv, MarksStay
  <1>18. QED
    BY <1>7, <1>8, <1>11, <1>12, <1>13, <1>15, <1>16, <1>17 DEF FacadeInv, Counted

\* The four puts of a thread are such: a token, the final event, the error, the end.
LEMMA SendActions ==
  ASSUME FacadeInv, NEW s \in Streams,
         PutToken(s) \/ PutFinal(s) \/ PutError(s) \/ PutEnd(s)
  PROVE  FacadeInv'
  <1>1. /\ emitted[s] \in 0..MaxTokens
        /\ emitted' = emitted => emitted' = [emitted EXCEPT ![s] = emitted[s]]
        /\ late' = late => late' = [late EXCEPT ![s] = late[s]]
    BY DEF FacadeInv, TypeOK
  <1>2. ASSUME PutToken(s)
        PROVE  \E m \in {late[s], late[s] + 1} :
                 Sends(s, "next", Token(emitted[s]), emitted[s] + 1, m)
    BY <1>1, <1>2, EventsType DEF PutToken, Goto, Sends, Sending, engine, consumer
  <1>3. ASSUME PutFinal(s)
        PROVE  Sends(s, "put_end", Final(emitted[s]), emitted[s], late[s])
    BY <1>1, <1>3, EventsType DEF PutFinal, Goto, Sends, Sending, engine, consumer
  <1>4. ASSUME PutError(s)
        PROVE  Sends(s, "put_end", Error, emitted[s], late[s])
    BY <1>1, <1>4, EventsType DEF PutError, Goto, Sends, Sending, engine, consumer
  <1>5. ASSUME PutEnd(s)
        PROVE  Sends(s, "ending", End, emitted[s], late[s])
    BY <1>1, <1>5, EventsType DEF PutEnd, Goto, Sends, Sending, engine, consumer
  <1>6. QED
    BY <1>2, <1>3, <1>4, <1>5, SendInv

-----------------------------------------------------------------------------
\* A cancellation, of whatever id, is remembered for every stream it marks.
LEMMA MarkFacts ==
  ASSUME FacadeInv, UNCHANGED <<id, pc, reason, late>>,
         UNCHANGED <<cancelled, asked>> \/ \E i \in Ids : MarkCancelled(i)
  PROVE  /\ cancelled' \subseteq Ids /\ asked' \subseteq Streams
         /\ MarksAsked' /\ NoStrayCancel' /\ MarksStay'
  <1>1. /\ cancelled' \subseteq Ids /\ asked' \subseteq Streams
        /\ cancelled \subseteq cancelled' /\ asked \subseteq asked'
        /\ \A s \in Streams : id[s] \in cancelled' \ cancelled => s \in asked'
    BY DEF MarkCancelled, FacadeInv, TypeOK
  <1>2. QED
    BY <1>1 DEF FacadeInv, MarksAsked, NoStrayCancel, MarksStay, Inside

\* The consumer's finally clause is such a cancellation, or nothing.
LEMMA CancelIfAliveMarks ==
  ASSUME FacadeInv, NEW s \in Streams, cons[s] = "reading", CancelIfAlive(s)
  PROVE  UNCHANGED <<cancelled, asked>> \/ \E i \in Ids : MarkCancelled(i)
  <1>1. id[s] \in Ids
    BY DEF FacadeInv, TypeOK, CallStarts
  <1>2. QED
    BY <1>1 DEF CancelIfAlive

\* A call of generate_stream keeps the invariant, given an id that is free.
LEMMA OpenInv ==
  ASSUME FacadeInv, NEW s \in Streams, NEW i \in Ids, Open(s, i)
  PROVE  FacadeInv'
  <1>1. id[s] = NoId /\ pc[s] = "none"
    BY DEF Open, FacadeInv, CallStarts
  <1>2. TypeOK'
    BY DEF TypeOK, FacadeInv, Open, Goto, engine
  <1>3. Counted'
    BY <1>1 DEF Counted, Fits, Puts, Over, TypeOK, FacadeInv, Open, Goto
  <1>4. EndsMatch' /\ EndComes'
    BY <1>1 DEF EndsMatch, EndComes, Over, Closing, FacadeInv, Open, Goto
  <1>5. CallStarts'
    BY FacadeAssumption DEF CallStarts, TypeOK, FacadeInv, Open, Goto
  <1>6. IdShared'
    BY DEF IdShared, IdFree, FacadeInv, Open
  <1>7. /\ active' = active
        /\ \A x \in Streams : Inside(x)' <=> Inside(x)
        /\ \A x \in Streams : id'[x] = id[x] \/ ~Inside(x)
    BY <1>1 DEF Inside, Open, Goto, engine
  <1>8. ActiveExact'
    BY <1>7, ActiveSame DEF FacadeInv
  <1>9. MarksAsked' /\ NoStrayCancel' /\ MarksStay'
    BY <1>1 DEF MarksAsked, NoStrayCancel, MarksStay, Inside, FacadeInv, Open, Goto, engine
  <1>10. QED
    BY <1>2, <1>3, <1>4, <1>5, <1>6, <1>8, <1>9 DEF FacadeInv

\* Receiving an event keeps it: the consumer follows its thread.
LEMMA ReceiveInv ==
  ASSUME FacadeInv, NEW s \in Streams, Receive(s)
  PROVE  FacadeInv'
  <1> DEFINE item == Head(queue[s])
  <1>1. /\ queue[s] \in Seq(Events) /\ queue[s] # << >> /\ cons[s] = "reading"
        /\ queue' = [queue EXCEPT ![s] = Tail(queue[s])]
        /\ UNCHANGED <<active, closed, id, pc, emitted, reason, late>>
    BY DEF Receive, FacadeInv, TypeOK
  <1>2. /\ item \in Events /\ Tail(queue[s]) \in Seq(Events)
        /\ Len(Tail(queue[s])) + 1 = Len(queue[s])
        /\ \A x : Holds(queue[s], x) <=> x = item \/ Holds(Tail(queue[s]), x)
    BY <1>1, TailFacts
  <1>3. queue' \in [Streams -> Seq(Events)] /\ queue \in [Streams -> Seq(Events)]
    BY <1>1, <1>2 DEF FacadeInv, TypeOK
  <1>4. \/ /\ item = End /\ cons' = [cons EXCEPT ![s] = "done"] /\ got' = got
        \/ /\ item = Error /\ cons' = [cons EXCEPT ![s] = "failed"]
           /\ got' = [got EXCEPT ![s] = << >>]
        \/ /\ item \notin {End, Error} /\ cons' = cons
           /\ got' = [got EXCEPT ![s] = Append(got[s], item)]
    BY EventsType DEF Receive
  <1>5. UNCHANGED <<cancelled, asked>> \/ \E i \in Ids : MarkCancelled(i)
    BY <1>1, EventsType, CancelIfAliveMarks DEF Receive
  <1>6. /\ got' \in [Streams -> Seq(Events)] /\ got \in [Streams -> Seq(Events)]
        /\ Len(got'[s]) <= Len(got[s]) + 1
        /\ \A t \in Streams \ {s} : got'[t] = got[t]
    <2>1. got \in [Streams -> Seq(Events)]
      BY DEF FacadeInv, TypeOK
    <2>2. << >> \in Seq(Events) /\ Len(<< >>) = 0 /\ got[s] \in Seq(Events)
      BY <2>1
    <2>3. Append(got[s], item) \in Seq(Events) /\ Len(Append(got[s], item)) = Len(got[s]) + 1
      BY <2>2, <1>2
    <2>4. \E q \in {got[s], << >>, Append(got[s], item)} : got' = [got EXCEPT ![s] = q]
      BY <1>4, <2>1
    <2>5. PICK q \in {got[s], << >>, Append(got[s], item)} : got' = [got EXCEPT ![s] = q]
      BY <2>4
    <2>6. q \in Seq(Events) /\ got'[s] = q
      BY <2>1, <2>2, <2>3, <2>5
    <2>7. Len(q) <= Len(got[s]) + 1
      BY <2>2, <2>3
    <2>8. QED
      BY <2>1, <2>5, <2>6, <2>7
  <1>7. Fits(s)'
    <2>1. Fits(s) /\ Puts(s)' = Puts(s) /\ emitted' = emitted /\ late' = late /\ pc' = pc
      BY <1>1 DEF FacadeInv, Counted, Puts
    <2>2. queue'[s] = Tail(queue[s])
      BY <1>1, <1>3
    <2>3. Len(queue'[s]) + 1 = Len(queue[s])
      BY <1>2, <2>2
    <2>4. Puts(s) \in 0..2 /\ emitted \in [Streams -> 0..MaxTokens]
      BY DEF Puts, FacadeInv, TypeOK
    <2>5. QED
      BY <1>3, <1>6, <2>1, <2>3, <2>4 DEF Fits
  <1>8. Counted'
    BY <1>1, <1>3, <1>6, <1>7 DEF FacadeInv, Counted, Fits, Puts
  <1>9. ASSUME NEW t \in Streams PROVE Len(queue'[t]) + Len(got'[t]) <= MaxTokens + 2
    <2>1. Len(queue'[t]) + Len(got'[t]) <= emitted'[t] + Puts(t)'
      BY <1>8 DEF Counted, Fits
    <2>2. queue'[t] \in Seq(Events) /\ got'[t] \in Seq(Events) /\ emitted'[t] \in 0..MaxTokens
      BY <1>1, <1>3, <1>6 DEF FacadeInv, TypeOK
    <2>3. Puts(t)' \in 0..2
      BY DEF Puts
    <2>4. QED
      BY <2>1, <2>2, <2>3, SumBound
  <1>10. /\ cancelled' \subseteq Ids /\ asked' \subseteq Streams
        /\ MarksAsked' /\ NoStrayCancel' /\ MarksStay'
    BY <1>1, <1>5, MarkFacts
  <1>11. TypeOK'
    BY <1>1, <1>3, <1>4, <1>6, <1>9, <1>10 DEF FacadeInv, TypeOK
  <1>12. EndsMatch' /\ EndComes'
    BY <1>1, <1>2, <1>4 DEF FacadeInv, TypeOK, EndsMatch, EndComes
  <1>13. CallStarts' /\ IdShared'
    <2>1. /\ cons[s] = "reading" /\ cons'[s] \in {"reading", "done", "failed"}
          /\ \A t \in Streams \ {s} : cons'[t] = cons[t]
      BY <1>1, <1>4 DEF FacadeInv, TypeOK
    <2>2. QED
      BY <1>1, <2>1 DEF FacadeInv, CallStarts, IdShared
  <1>14. ActiveExact'
    BY <1>1 DEF FacadeInv, ActiveExact, Inside
  <1>15. QED
    BY <1>8, <1>10, <1>11, <1>12, <1>13, <1>14 DEF FacadeInv

\* So does leaving a stream.
LEMMA LeaveInv ==
  ASSUME FacadeInv, NEW s \in Streams, Leave(s)
  PROVE  FacadeInv'
  <1>1. /\ cons[s] = "reading" /\ cons' = [cons EXCEPT ![s] = "left"]
        /\ queue' = [queue EXCEPT ![s] = << >>] /\ got' = [got EXCEPT ![s] = << >>]
        /\ UNCHANGED <<active, closed, id, pc, emitted, reason, late>>
    BY DEF Leave
  <1>2. UNCHANGED <<cancelled, asked>> \/ \E i \in Ids : MarkCancelled(i)
    BY <1>1, CancelIfAliveMarks DEF Leave
  <1>3. /\ cancelled' \subseteq Ids /\ asked' \subseteq Streams
        /\ MarksAsked' /\ NoStrayCancel' /\ MarksStay'
    BY <1>1, <1>2, MarkFacts
  <1>4. << >> \in Seq(Events) /\ Len(<< >>) = 0 /\ \A x : ~Holds(<< >>, x)
    BY DEF Holds
  <1>5. /\ queue' \in [Streams -> Seq(Events)] /\ got' \in [Streams -> Seq(Events)]
        /\ queue \in [Streams -> Seq(Events)] /\ got \in [Streams -> Seq(Events)]
    BY <1>1, <1>4 DEF FacadeInv, TypeOK
  <1>6. ASSUME NEW t \in Streams PROVE Fits(t)'
    <2>1. Fits(t) /\ Puts(t)' = Puts(t) /\ Puts(t) \in 0..2
      BY <1>1 DEF FacadeInv, Counted, Puts
    <2>2. \/ queue'[t] = queue[t] /\ got'[t] = got[t]
          \/ queue'[t] = << >> /\ got'[t] = << >>
      BY <1>1, <1>5
    <2>3. Len(queue'[t]) + Len(got'[t]) <= Len(queue[t]) + Len(got[t])
      BY <1>4, <1>5, <2>2
    <2>4. emitted \in [Streams -> 0..MaxTokens]
      BY DEF FacadeInv, TypeOK
    <2>5. QED
      BY <1>1, <1>5, <2>1, <2>3, <2>4 DEF Fits
  <1>7. \A t \in Streams : Len(queue'[t]) + Len(got'[t]) <= MaxTokens + 2
    BY <1>1, <1>4, <1>5, FacadeAssumption DEF FacadeInv, TypeOK
  <1>8. TypeOK'
    BY <1>1, <1>3, <1>5, <1>7 DEF FacadeInv, TypeOK
  <1>9. EndsMatch' /\ EndComes'
    BY <1>1, <1>4 DEF FacadeInv, TypeOK, EndsMatch, EndComes
  <1>10. CallStarts' /\ IdShared'
    BY <1>1 DEF FacadeInv, CallStarts, IdShared
  <1>11. ActiveExact'
    BY <1>1 DEF FacadeInv, ActiveExact, Inside
  <1>12. QED
    BY <1>3, <1>6, <1>8, <1>9, <1>10, <1>11 DEF FacadeInv, Counted

\* Calls of cancel and close from anywhere, and stuttering, keep it.
LEMMA OutsideInv ==
  ASSUME FacadeInv, (\E i \in Ids : Cancel(i)) \/ Close \/ UNCHANGED vars
  PROVE  FacadeInv'
  <1>1. /\ UNCHANGED <<active, id, pc, emitted, reason, queue, cons, got, late>>
        /\ closed' \in BOOLEAN
    BY DEF Cancel, Close, vars, engine, consumer, FacadeInv, TypeOK
  <1>2. UNCHANGED <<cancelled, asked>> \/ \E i \in Ids : MarkCancelled(i)
    BY DEF Cancel, Close, vars, engine
  <1>3. /\ cancelled' \subseteq Ids /\ asked' \subseteq Streams
        /\ MarksAsked' /\ NoStrayCancel' /\ MarksStay'
    BY <1>1, <1>2, MarkFacts
  <1>4. TypeOK' /\ Counted'
    BY <1>1, <1>3 DEF FacadeInv, TypeOK, Counted, Fits, Puts
  <1>5. EndsMatch' /\ EndComes' /\ CallStarts' /\ IdShared' /\ ActiveExact'
    BY <1>1 DEF FacadeInv, EndsMatch, EndComes, CallStarts, IdShared, ActiveExact, Inside
  <1>6. QED
    BY <1>3, <1>4, <1>5 DEF FacadeInv

-----------------------------------------------------------------------------
\* The bookkeeping of InferenceEngine and of the async bridge holds in every
\* reachable state.
THEOREM FacadeSafety == Spec => []FacadeInv
  <1>1. Init => FacadeInv
    <2> SUFFICES ASSUME Init PROVE FacadeInv
      OBVIOUS
    <2>1. << >> \in Seq(Events) /\ Len(<< >>) = 0 /\ \A x : ~Holds(<< >>, x)
      BY DEF Holds
    <2>2. \A s \in Streams : Len(queue[s]) + Len(got[s]) = 0 /\ emitted[s] = 0 /\ late[s] = 0
      <3>1. 0 + 0 = 0
        OBVIOUS
      <3>2. QED
        BY <2>1, <3>1 DEF Init
    <2>3. TypeOK /\ Counted
      <3>1. \A s \in Streams : Puts(s) = 0 /\ pc[s] = "none"
        BY DEF Init, Puts, Over
      <3>2. Counted
        <4>1. 0 <= 0 + 0 /\ 0 <= 0
          OBVIOUS
        <4>2. QED
          BY <2>2, <3>1, <4>1, Zenon DEF Counted, Fits
      <3>3. 0 \in 0..MaxTokens /\ 0 <= MaxTokens + 2
        BY FacadeAssumption
      <3>4. TypeOK
        BY <2>1, <2>2, <3>3 DEF Init, TypeOK
      <3>5. QED
        BY <3>2, <3>4
    <2>4. EndsMatch /\ EndComes /\ CallStarts /\ IdShared
      BY <2>1 DEF Init, EndsMatch, EndComes, CallStarts, IdShared
    <2>5. ActiveExact /\ MarksAsked /\ NoStrayCancel /\ MarksStay
      BY DEF Init, ActiveExact, MarksAsked, NoStrayCancel, MarksStay, Inside
    <2>6. QED
      BY <2>3, <2>4, <2>5 DEF FacadeInv
  <1>2. FacadeInv /\ [Next]_vars => FacadeInv'
    <2> SUFFICES ASSUME FacadeInv, [Next]_vars
                 PROVE  FacadeInv'
      OBVIOUS
    <2>1. ASSUME NEW s \in Streams, Thread(s)
          PROVE  FacadeInv'
      BY <2>1, QuietActions, EnterRequestInv, ExitRequestInv, SendActions DEF Thread
    <2>2. ASSUME NEW s \in Streams, Receive(s) \/ Leave(s)
          PROVE  FacadeInv'
      BY <2>2, ReceiveInv, LeaveInv
    <2>3. ASSUME NEW s \in Streams, NEW i \in Ids, Open(s, i)
          PROVE  FacadeInv'
      BY <2>3, OpenInv
    <2>4. ASSUME (\E i \in Ids : Cancel(i)) \/ Close \/ UNCHANGED vars
          PROVE  FacadeInv'
      BY <2>4, OutsideInv
    <2>5. QED
      BY <2>1, <2>2, <2>3, <2>4 DEF Next
  <1>3. QED
    BY <1>1, <1>2, PTL DEF Spec

\* A stream yields at most max_tokens tokens, and its queue never holds more than its
\* tokens, the final event or the error, and the end marker.
THEOREM FacadeTypes == Spec => []TypeOK
  <1>1. FacadeInv => TypeOK
    BY DEF FacadeInv
  <1>2. QED
    BY <1>1, FacadeSafety, PTL

\* stats.active_requests counts exactly the streams between _enter_request and
\* _exit_request.
THEOREM ActiveIsExact == Spec => []ActiveExact
  <1>1. FacadeInv => ActiveExact
    BY DEF FacadeInv
  <1>2. QED
    BY <1>1, FacadeSafety, PTL

\* No request ends as cancelled because of a mark that was left for another one.
THEOREM CancelsOnlyItsOwn == Spec => []NoStrayCancel
  <1>1. FacadeInv => NoStrayCancel
    BY DEF FacadeInv
  <1>2. QED
    BY <1>1, FacadeSafety, PTL

\* A cancelled stream hands out at most one more token.
THEOREM CancelIsPrompt == Spec => []CancelStops
  <1>1. FacadeInv => CancelStops
    <2>1. ASSUME FacadeInv, NEW s \in Streams PROVE late[s] <= 1
      <3>1. late[s] \in Nat
        BY <2>1, FacadeAssumption DEF FacadeInv, TypeOK
      <3>2. late[s] > 0 => late[s] = 1
        BY <2>1 DEF FacadeInv, MarksStay
      <3>3. QED
        BY <3>1, <3>2
    <2>2. QED
      BY <2>1 DEF CancelStops
  <1>2. QED
    BY <1>1, FacadeSafety, PTL

\* A consumer with an empty queue has a thread that will still put something.
THEOREM ConsumersAreServed == Spec => []NobodyWaits
  <1>1. FacadeInv => NobodyWaits
    <2>1. ~ \E x : Holds(<< >>, x)
      BY DEF Holds
    <2>2. QED
      BY <2>1 DEF FacadeInv, NobodyWaits, EndComes, Over, CallStarts
  <1>2. QED
    BY <1>1, FacadeSafety, PTL

\* After close() no request becomes active.
THEOREM ClosedIsFinal == Spec => ClosedAdmitsNothing
  <1>1. [Next]_vars => [closed => active' \subseteq active]_vars
    BY DEF Next, Thread, EnsureOpen, EnterRequest, BackendToken, BackendEnds, Raises, Check,
       PutToken, ExitRequest, PutFinal, PutError, PutEnd, ThreadEnds, Receive, Leave, Open,
       Cancel, Close, engine
  <1>2. QED
    BY <1>1, PTL DEF Spec, ClosedAdmitsNothing

-----------------------------------------------------------------------------
\* The stream itself: what a consumer has received and what waits in its queue is what
\* its thread has put, in order.
Nth(s, i) == IF i <= emitted[s] THEN Token(i - 1)
             ELSE IF i = emitted[s] + 1 THEN IF reason[s] = "error" THEN Error ELSE Final(emitted[s])
             ELSE End

Received(s) == \A i \in 1..Len(got[s]) : got[s][i] = Nth(s, i) /\ got[s][i] # Error
Waiting(s) == \A i \in 1..Len(queue[s]) : queue[s][i] = Nth(s, Len(got[s]) + i)

StreamOK(s) ==
  /\ pc[s] = "put_final" => reason[s] # "error"
  /\ pc[s] = "put_error" => reason[s] = "error"
  /\ cons[s] = "none" => emitted[s] = 0 /\ queue[s] = << >> /\ got[s] = << >>
  /\ cons[s] = "reading" =>
       Len(got[s]) + Len(queue[s]) = emitted[s] + Puts(s) /\ Received(s) /\ Waiting(s)
  /\ cons[s] = "done" => Len(got[s]) = emitted[s] + 1 /\ Received(s)

StreamInv == FacadeInv /\ \A s \in Streams : StreamOK(s)

LEMMA StreamSizes ==
  ASSUME FacadeInv, NEW s \in Streams
  PROVE  /\ emitted[s] \in Nat /\ Puts(s) \in 0..2 /\ Puts(s) \in Nat
         /\ queue[s] \in Seq(Events) /\ got[s] \in Seq(Events)
         /\ Len(queue[s]) \in Nat /\ Len(got[s]) \in Nat
         /\ cons[s] = "none" <=> pc[s] = "none"
         /\ emitted \in [Streams -> Nat]
         /\ queue \in [Streams -> Seq(Events)] /\ got \in [Streams -> Seq(Events)]
  <1>1. /\ emitted[s] \in 0..MaxTokens /\ queue[s] \in Seq(Events) /\ got[s] \in Seq(Events)
        /\ queue \in [Streams -> Seq(Events)] /\ got \in [Streams -> Seq(Events)]
        /\ emitted \in [Streams -> 0..MaxTokens]
    BY DEF FacadeInv, TypeOK
  <1>2. cons[s] = "none" <=> pc[s] = "none"
    BY DEF FacadeInv, CallStarts
  <1>3. QED
    BY <1>1, <1>2, FacadeAssumption DEF Puts

\* A stream that a step does not touch.
LEMMA StreamSame ==
  ASSUME NEW t \in Streams, StreamOK(t), pc'[t] = pc[t], reason'[t] = reason[t],
         emitted'[t] = emitted[t], cons'[t] = cons[t], queue'[t] = queue[t], got'[t] = got[t]
  PROVE  StreamOK(t)'
  <1>1. Puts(t)' = Puts(t) /\ \A i : Nth(t, i)' = Nth(t, i)
    BY DEF Puts, Over, Nth
  <1>2. (Received(t)' <=> Received(t)) /\ (Waiting(t)' <=> Waiting(t))
    BY <1>1 DEF Received, Waiting
  <1>3. QED
    BY <1>1, <1>2 DEF StreamOK

\* A step of a thread that puts nothing.
LEMMA StreamMoves ==
  ASSUME StreamInv, NEW s \in Streams, NEW to, NEW r,
         pc[s] \notin {"none", "put_final", "put_error", "put_end", "dead"},
         pc[s] = "ending" => to = "dead" /\ r = reason[s],
         pc[s] # "ending" => to \notin Over \cup {"put_end"},
         to = "put_final" => r # "error",
         to = "put_error" => r = "error",
         pc' = [pc EXCEPT ![s] = to], reason' = [reason EXCEPT ![s] = r],
         UNCHANGED <<emitted, cons, queue, got>>
  PROVE  \A t \in Streams : StreamOK(t)'
  <1>0. /\ emitted \in [Streams -> Nat] /\ Puts(s) \in Nat
        /\ queue \in [Streams -> Seq(Events)] /\ got \in [Streams -> Seq(Events)]
        /\ Len(queue[s]) \in Nat /\ Len(got[s]) \in Nat
    BY StreamSizes DEF StreamInv
  <1>1. /\ pc'[s] = to /\ reason'[s] = r
        /\ \A t \in Streams \ {s} : pc'[t] = pc[t] /\ reason'[t] = reason[t]
    BY DEF StreamInv, FacadeInv, TypeOK
  <1>2. Puts(s)' = Puts(s) /\ (r # reason[s] => Puts(s) = 0)
    BY <1>1 DEF Puts, Over
  <1>3. cons[s] = "done" => pc[s] = "ending"
    BY DEF StreamInv, FacadeInv, EndsMatch, Over
  <1>4. StreamOK(s)'
    <2>1. cons[s] # "none"
      BY StreamSizes DEF StreamInv
    <2>2. CASE r = reason[s]
      <3>1. \A i : Nth(s, i)' = Nth(s, i)
        BY <1>1, <2>2 DEF Nth
      <3>2. (Received(s)' <=> Received(s)) /\ (Waiting(s)' <=> Waiting(s))
        BY <3>1 DEF Received, Waiting
      <3>3. QED
        BY <1>1, <1>2, <2>1, <2>2, <3>2 DEF StreamInv, StreamOK
    <2>3. CASE r # reason[s]
      <3>1. cons[s] # "done" /\ Puts(s) = 0
        BY <1>2, <1>3, <2>3
      <3>2. ASSUME cons[s] = "reading"
            PROVE  /\ Len(got[s]) + Len(queue[s]) = emitted[s] + Puts(s)'
                   /\ Received(s)' /\ Waiting(s)'
        <4> USE <1>0
        <4>1. Len(got[s]) + Len(queue[s]) = emitted[s] /\ Received(s) /\ Waiting(s)
          <5>1. Len(got[s]) + Len(queue[s]) = emitted[s] + Puts(s) /\ Received(s) /\ Waiting(s)
            BY <3>2 DEF StreamInv, StreamOK
          <5>2. QED
            BY <3>1, <5>1
        <4>2. /\ \A i \in 1..Len(got[s]) : i <= emitted[s]
              /\ \A i \in 1..Len(queue[s]) : Len(got[s]) + i <= emitted[s]
          BY <4>1
        <4>3. \A i : i <= emitted[s] => Nth(s, i)' = Nth(s, i)
          BY DEF Nth
        <4>4. Received(s)' /\ Waiting(s)'
          BY <4>1, <4>2, <4>3 DEF Received, Waiting
        <4>5. QED
          BY <1>2, <3>1, <4>1, <4>4
      <3>3. QED
        BY <1>1, <2>1, <3>1, <3>2 DEF StreamOK
    <2>4. QED
      BY <2>2, <2>3
  <1>5. \A t \in Streams \ {s} : StreamOK(t)'
    BY <1>1, StreamSame DEF StreamInv
  <1>6. QED
    BY <1>4, <1>5

\* A step of a thread that puts the next event of its stream.
LEMMA StreamPuts ==
  ASSUME StreamInv, NEW s \in Streams, NEW to, NEW e \in Events, NEW n, NEW k \in Nat,
         Put(s, e), pc' = [pc EXCEPT ![s] = to], emitted' = [emitted EXCEPT ![s] = n],
         UNCHANGED <<reason, cons, got>>,
         \/ pc[s] = "put_token" /\ to = "next" /\ n = emitted[s] + 1
         \/ pc[s] \in {"put_final", "put_error"} /\ to = "put_end" /\ n = emitted[s]
         \/ pc[s] = "put_end" /\ to = "ending" /\ n = emitted[s],
         k = emitted[s] + Puts(s) + 1, e = Nth(s, k)'
  PROVE  \A t \in Streams : StreamOK(t)'
  <1>1. /\ pc'[s] = to /\ emitted'[s] = n
        /\ \A t \in Streams \ {s} : pc'[t] = pc[t] /\ emitted'[t] = emitted[t]
    BY DEF StreamInv, FacadeInv, TypeOK
  <1>2. /\ \A t \in Streams \ {s} : queue'[t] = queue[t]
        /\ cons[s] = "reading" => queue'[s] = Append(queue[s], e)
    BY DEF Put, StreamInv, FacadeInv, TypeOK
  <1>3. cons[s] # "none" /\ cons[s] # "done"
    <2>1. pc[s] # "none" /\ pc[s] \notin Over
      BY DEF Over
    <2>2. QED
      BY <2>1 DEF StreamInv, FacadeInv, CallStarts, EndsMatch
  <1>4. n + Puts(s)' = emitted[s] + Puts(s) + 1
    BY <1>1, StreamSizes DEF Puts, Over, StreamInv
  <1>5. \A i \in Nat : i <= emitted[s] + Puts(s) => Nth(s, i)' = Nth(s, i)
    <2> SUFFICES ASSUME NEW i \in Nat, i <= emitted[s] + Puts(s)
                 PROVE  Nth(s, i)' = Nth(s, i)
      OBVIOUS
    <2>1. CASE n = emitted[s]
      BY <1>1, <2>1 DEF Nth
    <2>2. CASE n = emitted[s] + 1 /\ pc[s] = "put_token"
      <3>1. i <= emitted[s] /\ i <= n
        BY <2>2, StreamSizes DEF Puts, Over, StreamInv
      <3>2. QED
        BY <1>1, <3>1 DEF Nth
    <2>3. QED
      BY <2>1, <2>2
  <1>6. ASSUME cons[s] = "reading"
        PROVE  /\ Len(got[s]) + Len(queue'[s]) = n + Puts(s)'
               /\ Received(s)' /\ Waiting(s)'
    <2>1. /\ Len(got[s]) + Len(queue[s]) = emitted[s] + Puts(s) /\ Received(s) /\ Waiting(s)
      BY <1>6 DEF StreamInv, StreamOK
    <2>2. /\ emitted \in [Streams -> Nat] /\ Puts(s) \in Nat
          /\ queue \in [Streams -> Seq(Events)] /\ got \in [Streams -> Seq(Events)]
          /\ Len(queue[s]) \in Nat /\ Len(got[s]) \in Nat
      BY StreamSizes DEF StreamInv
    <2>3. Len(queue'[s]) = Len(queue[s]) + 1 /\ queue'[s][Len(queue[s]) + 1] = e
          /\ \A i \in 1..Len(queue[s]) : queue'[s][i] = queue[s][i]
      <3>1. ASSUME NEW q \in Seq(Events)
            PROVE  /\ Len(Append(q, e)) = Len(q) + 1 /\ Append(q, e)[Len(q) + 1] = e
                   /\ \A i \in 1..Len(q) : Append(q, e)[i] = q[i]
        OBVIOUS
      <3>2. queue[s] \in Seq(Events) /\ queue'[s] = Append(queue[s], e)
        BY <1>2, <1>6, <2>2
      <3>3. QED
        BY <3>1, <3>2
    <2>4. Received(s)'
      <3>1. \A i \in 1..Len(got[s]) : i \in Nat /\ i <= emitted[s] + Puts(s)
        BY <2>1, <2>2
      <3>2. QED
        BY <1>5, <2>1, <3>1 DEF Received
    <2>5. Waiting(s)'
      <3> SUFFICES ASSUME NEW i \in 1..Len(queue'[s])
                   PROVE  queue'[s][i] = Nth(s, Len(got[s]) + i)'
        BY DEF Waiting
      <3>1. CASE i \in 1..Len(queue[s])
        <4>1. Len(got[s]) + i \in Nat /\ Len(got[s]) + i <= emitted[s] + Puts(s)
          BY <2>1, <2>2, <3>1
        <4>2. QED
          BY <1>5, <2>1, <2>3, <3>1, <4>1 DEF Waiting
      <3>2. CASE i = Len(queue[s]) + 1
        <4>1. Len(got[s]) + i = k
          BY <2>1, <2>2, <3>2
        <4>2. QED
          BY <2>3, <3>2, <4>1
      <3>3. QED
        BY <2>2, <2>3, <3>1, <3>2
    <2>6. QED
      BY <1>4, <2>1, <2>2, <2>3, <2>4, <2>5
  <1>7. StreamOK(s)'
    <2>1. to \notin {"put_final", "put_error"}
      OBVIOUS
    <2>2. QED
      BY <1>1, <1>3, <1>6, <2>1 DEF StreamOK
  <1>8. \A t \in Streams \ {s} : StreamOK(t)'
    BY <1>1, <1>2, StreamSame DEF StreamInv
  <1>9. QED
    BY <1>7, <1>8

\* Every step of a thread is one of the two.
LEMMA StreamThread ==
  ASSUME StreamInv, NEW s \in Streams, Thread(s)
  PROVE  \A t \in Streams : StreamOK(t)'
  <1>1. reason = [reason EXCEPT ![s] = reason[s]] /\ emitted = [emitted EXCEPT ![s] = emitted[s]]
    BY DEF StreamInv, FacadeInv, TypeOK
  <1>2. emitted[s] \in 0..MaxTokens /\ emitted[s] \in Nat
    BY FacadeAssumption DEF StreamInv, FacadeInv, TypeOK
  <1>3. CASE EnsureOpen(s)
    BY <1>1, <1>3, StreamMoves DEF EnsureOpen, Throw, Goto, Over, consumer
  <1>4. CASE EnterRequest(s)
    BY <1>1, <1>4, StreamMoves DEF EnterRequest, Throw, Goto, Over, consumer
  <1>5. CASE BackendToken(s) \/ BackendEnds(s)
    BY <1>1, <1>5, StreamMoves DEF BackendToken, BackendEnds, Goto, Over, consumer
  <1>6. CASE Raises(s)
    BY <1>6, StreamMoves DEF Raises, Throw, Goto, Over, consumer
  <1>7. CASE Check(s)
    BY <1>1, <1>7, StreamMoves DEF Check, Goto, Over, consumer
  <1>8. CASE ExitRequest(s)
    BY <1>1, <1>8, StreamMoves DEF ExitRequest, Goto, Over, consumer
  <1>9. CASE ThreadEnds(s)
    BY <1>1, <1>9, StreamMoves DEF ThreadEnds, Goto, Over, consumer
  <1>10. CASE PutToken(s)
    <2>1. pc[s] = "put_token" /\ Put(s, Token(emitted[s])) /\ pc' = [pc EXCEPT ![s] = "next"]
          /\ emitted' = [emitted EXCEPT ![s] = emitted[s] + 1] /\ UNCHANGED <<reason, cons, got>>
      BY <1>10 DEF PutToken, Goto, consumer
    <2>2. Puts(s) = 0 /\ emitted'[s] = emitted[s] + 1
      BY <2>1 DEF Puts, Over, StreamInv, FacadeInv, TypeOK
    <2>3. \A k \in Nat : k = emitted[s] + Puts(s) + 1 => Nth(s, k)' = Token(emitted[s])
      BY <1>2, <2>1, <2>2 DEF Nth
    <2>4. emitted[s] + Puts(s) + 1 \in Nat
      BY <1>2, <2>2
    <2>5. QED
      BY <1>2, <2>1, <2>3, <2>4, EventsType, StreamPuts
  <1>11. CASE PutFinal(s)
    <2>1. pc[s] = "put_final" /\ Put(s, Final(emitted[s])) /\ pc' = [pc EXCEPT ![s] = "put_end"]
          /\ emitted' = [emitted EXCEPT ![s] = emitted[s]] /\ UNCHANGED <<reason, cons, got, emitted>>
      BY <1>1, <1>11 DEF PutFinal, Goto, consumer
    <2>2. Puts(s) = 0 /\ reason[s] # "error"
      BY <2>1 DEF Puts, Over, StreamInv, StreamOK
    <2>3. \A k \in Nat : k = emitted[s] + Puts(s) + 1 => Nth(s, k)' = Final(emitted[s])
      BY <1>2, <2>1, <2>2 DEF Nth
    <2>4. emitted[s] + Puts(s) + 1 \in Nat
      BY <1>2, <2>2
    <2>5. QED
      BY <1>2, <2>1, <2>3, <2>4, EventsType, StreamPuts
  <1>12. CASE PutError(s)
    <2>1. pc[s] = "put_error" /\ Put(s, Error) /\ pc' = [pc EXCEPT ![s] = "put_end"]
          /\ emitted' = [emitted EXCEPT ![s] = emitted[s]] /\ UNCHANGED <<reason, cons, got, emitted>>
      BY <1>1, <1>12 DEF PutError, Goto, consumer
    <2>2. Puts(s) = 0 /\ reason[s] = "error"
      BY <2>1 DEF Puts, Over, StreamInv, StreamOK
    <2>3. \A k \in Nat : k = emitted[s] + Puts(s) + 1 => Nth(s, k)' = Error
      BY <1>2, <2>1, <2>2 DEF Nth
    <2>4. emitted[s] + Puts(s) + 1 \in Nat
      BY <1>2, <2>2
    <2>5. QED
      BY <1>2, <2>1, <2>3, <2>4, EventsType, StreamPuts
  <1>13. CASE PutEnd(s)
    <2>1. pc[s] = "put_end" /\ Put(s, End) /\ pc' = [pc EXCEPT ![s] = "ending"]
          /\ emitted' = [emitted EXCEPT ![s] = emitted[s]] /\ UNCHANGED <<reason, cons, got, emitted>>
      BY <1>1, <1>13 DEF PutEnd, Goto, consumer
    <2>2. Puts(s) = 1
      BY <2>1 DEF Puts
    <2>3. \A k \in Nat : k = emitted[s] + Puts(s) + 1 => Nth(s, k)' = End
      BY <1>2, <2>1, <2>2 DEF Nth
    <2>4. emitted[s] + Puts(s) + 1 \in Nat
      BY <1>2, <2>2
    <2>5. QED
      BY <1>2, <2>1, <2>3, <2>4, EventsType, StreamPuts
  <1>14. QED
    BY <1>3, <1>4, <1>5, <1>6, <1>7, <1>8, <1>9, <1>10, <1>11, <1>12, <1>13 DEF Thread

\* The consumer takes the next event; the end marker comes after the final one.
LEMMA StreamReceive ==
  ASSUME StreamInv, NEW s \in Streams, Receive(s)
  PROVE  \A t \in Streams : StreamOK(t)'
  <1>1. /\ cons[s] = "reading" /\ queue[s] # << >>
        /\ queue' = [queue EXCEPT ![s] = Tail(queue[s])]
        /\ UNCHANGED <<pc, emitted, reason>>
    BY DEF Receive
  <1>2. /\ emitted[s] \in Nat /\ Puts(s) \in 0..2 /\ queue[s] \in Seq(Events)
        /\ got[s] \in Seq(Events) /\ Len(queue[s]) \in Nat /\ Len(got[s]) \in Nat
        /\ queue \in [Streams -> Seq(Events)] /\ got \in [Streams -> Seq(Events)]
        /\ emitted \in [Streams -> Nat]
    BY StreamSizes DEF StreamInv
  <1>3. Len(got[s]) + Len(queue[s]) = emitted[s] + Puts(s) /\ Received(s) /\ Waiting(s)
    BY <1>1 DEF StreamInv, StreamOK
  <1>4. /\ 1 \in 1..Len(queue[s]) /\ Head(queue[s]) = queue[s][1] /\ Head(queue[s]) \in Events
        /\ Len(Tail(queue[s])) = Len(queue[s]) - 1
        /\ \A i \in 1..Len(queue[s]) - 1 : Tail(queue[s])[i] = queue[s][i + 1]
    BY <1>1, <1>2
  <1>5. Head(queue[s]) = Nth(s, Len(got[s]) + 1)
    BY <1>3, <1>4 DEF Waiting
  <1>6. queue'[s] = Tail(queue[s]) /\ \A t \in Streams \ {s} : queue'[t] = queue[t]
    BY <1>1 DEF StreamInv, FacadeInv, TypeOK
  <1>7. \A i : Nth(s, i)' = Nth(s, i)
    BY <1>1 DEF Nth
  <1>8. Puts(s)' = Puts(s)
    BY <1>1 DEF Puts
  <1>9. pc[s] \notin {"none"} /\ StreamOK(s)
    BY <1>1 DEF StreamInv, FacadeInv, CallStarts
  <1>10. CASE Head(queue[s]) = End
    <2>1. cons' = [cons EXCEPT ![s] = "done"] /\ got' = got
      BY <1>10, EventsType DEF Receive
    <2>2. cons'[s] = "done" /\ \A t \in Streams \ {s} : cons'[t] = cons[t]
      BY <2>1 DEF StreamInv, FacadeInv, TypeOK
    <2>3. Len(got[s]) + 1 > emitted[s] + 1
      <3>1. \A i \in Nat : Nth(s, i) = End => i > emitted[s] /\ i # emitted[s] + 1
        BY <1>2, EventsType DEF Nth, End, Error, Token, Final
      <3>2. QED
        BY <1>2, <1>5, <1>10, <3>1
    <2>4. Len(got[s]) = emitted[s] + 1
      <3>1. Len(got[s]) + 1 <= emitted[s] + Puts(s)
        BY <1>2, <1>3, <1>4
      <3>2. QED
        BY <1>2, <2>3, <3>1
    <2>5. StreamOK(s)'
      BY <1>1, <1>3, <1>7, <1>9, <2>1, <2>2, <2>4 DEF StreamOK, Received
    <2>6. \A t \in Streams \ {s} : StreamOK(t)'
      BY <1>1, <1>6, <2>1, <2>2, StreamSame DEF StreamInv
    <2>7. QED
      BY <2>5, <2>6
  <1>11. CASE Head(queue[s]) = Error
    <2>1. cons' = [cons EXCEPT ![s] = "failed"] /\ got' = [got EXCEPT ![s] = << >>]
      BY <1>11, EventsType DEF Receive
    <2>2. /\ cons'[s] = "failed"
          /\ \A t \in Streams \ {s} : cons'[t] = cons[t] /\ got'[t] = got[t]
      BY <2>1 DEF StreamInv, FacadeInv, TypeOK
    <2>3. StreamOK(s)'
      BY <1>1, <1>9, <2>2 DEF StreamOK
    <2>4. \A t \in Streams \ {s} : StreamOK(t)'
      BY <1>1, <1>6, <2>2, StreamSame DEF StreamInv
    <2>5. QED
      BY <2>3, <2>4
  <1>12. CASE Head(queue[s]) \notin {End, Error}
    <2>1. cons' = cons /\ got' = [got EXCEPT ![s] = Append(got[s], Head(queue[s]))]
      BY <1>12 DEF Receive
    <2>2. /\ got'[s] = Append(got[s], Head(queue[s]))
          /\ \A t \in Streams \ {s} : got'[t] = got[t]
      BY <2>1 DEF StreamInv, FacadeInv, TypeOK
    <2>3. /\ Len(got'[s]) = Len(got[s]) + 1 /\ got'[s][Len(got[s]) + 1] = Head(queue[s])
          /\ \A i \in 1..Len(got[s]) : got'[s][i] = got[s][i]
      BY <1>2, <1>4, <2>2
    <2>4. Received(s)'
      <3> SUFFICES ASSUME NEW i \in 1..Len(got'[s])
                   PROVE  got'[s][i] = Nth(s, i) /\ got'[s][i] # Error
        BY <1>7 DEF Received
      <3>1. i \in 1..Len(got[s]) \/ i = Len(got[s]) + 1
        BY <1>2, <2>3
      <3>2. QED
        BY <1>3, <1>5, <1>12, <2>3, <3>1 DEF Received
    <2>5. Waiting(s)'
      <3> SUFFICES ASSUME NEW i \in 1..Len(queue[s]) - 1
                   PROVE  Tail(queue[s])[i] = Nth(s, Len(got[s]) + 1 + i)
        BY <1>4, <1>6, <1>7, <2>3 DEF Waiting
      <3>1. i + 1 \in 1..Len(queue[s]) /\ Len(got[s]) + (i + 1) = Len(got[s]) + 1 + i
        BY <1>2
      <3>2. QED
        BY <1>3, <1>4, <3>1 DEF Waiting
    <2>6. Len(got'[s]) + Len(queue'[s]) = emitted[s] + Puts(s)
      <3>1. queue' \in [Streams -> Seq(Events)] /\ got' \in [Streams -> Seq(Events)]
        BY <1>1, <1>2, <1>4, <2>1
      <3>2. Len(queue'[s]) = Len(queue[s]) - 1
        BY <1>4, <1>6
      <3>3. QED
        BY <1>2, <1>3, <2>3, <3>1, <3>2
    <2>7. StreamOK(s)'
      BY <1>1, <1>8, <1>9, <2>1, <2>4, <2>5, <2>6 DEF StreamOK
    <2>8. \A t \in Streams \ {s} : StreamOK(t)'
      BY <1>1, <1>6, <2>1, <2>2, StreamSame DEF StreamInv
    <2>9. QED
      BY <2>7, <2>8
  <1>13. QED
    BY <1>10, <1>11, <1>12

\* Calls from outside.
LEMMA StreamOutside ==
  ASSUME StreamInv,
         \/ \E s \in Streams : Leave(s)
         \/ \E s \in Streams, i \in Ids : Open(s, i)
         \/ \E i \in Ids : Cancel(i)
         \/ Close \/ UNCHANGED vars
  PROVE  \A t \in Streams : StreamOK(t)'
  <1>1. ASSUME NEW s \in Streams, Leave(s)
        PROVE  \A t \in Streams : StreamOK(t)'
    <2>1. /\ UNCHANGED <<pc, emitted, reason>> /\ cons'[s] = "left"
          /\ \A t \in Streams \ {s} : cons'[t] = cons[t] /\ queue'[t] = queue[t] /\ got'[t] = got[t]
      BY <1>1 DEF Leave, StreamInv, FacadeInv, TypeOK
    <2>2. StreamOK(s)'
      BY <2>1 DEF StreamInv, StreamOK
    <2>3. \A t \in Streams \ {s} : StreamOK(t)'
      BY <2>1, StreamSame DEF StreamInv
    <2>4. QED
      BY <2>2, <2>3
  <1>2. ASSUME NEW s \in Streams, NEW i \in Ids, Open(s, i)
        PROVE  \A t \in Streams : StreamOK(t)'
    <2>1. /\ UNCHANGED <<emitted, reason, queue, got>> /\ cons[s] = "none"
          /\ cons'[s] = "reading" /\ pc'[s] = "start"
          /\ \A t \in Streams \ {s} : cons'[t] = cons[t] /\ pc'[t] = pc[t]
      BY <1>2 DEF Open, Goto, StreamInv, FacadeInv, TypeOK
    <2>2. emitted[s] = 0 /\ queue[s] = << >> /\ got[s] = << >>
      BY <2>1 DEF StreamInv, StreamOK
    <2>3. Puts(s)' = 0
      BY <2>1 DEF Puts, Over
    <2>4. Len(<< >>) = 0 /\ 0 + 0 = 0 /\ 1..0 = {}
      OBVIOUS
    <2>5. Received(s)' /\ Waiting(s)'
      BY <2>1, <2>2, <2>4 DEF Received, Waiting
    <2>6. StreamOK(s)'
      BY <2>1, <2>2, <2>3, <2>4, <2>5 DEF StreamOK
    <2>7. \A t \in Streams \ {s} : StreamOK(t)'
      BY <2>1, StreamSame DEF StreamInv
    <2>8. QED
      BY <2>6, <2>7
  <1>3. ASSUME UNCHANGED <<pc, emitted, reason, queue, cons, got>>
        PROVE  \A t \in Streams : StreamOK(t)'
    BY <1>3, StreamSame DEF StreamInv
  <1>4. ASSUME (\E i \in Ids : Cancel(i)) \/ Close \/ UNCHANGED vars
        PROVE  UNCHANGED <<pc, emitted, reason, queue, cons, got>>
    BY <1>4 DEF Cancel, Close, vars, consumer
  <1>5. QED
    BY <1>1, <1>2, <1>3, <1>4

\* A consumer that reads to the end receives every token that was yielded, once and in
\* order, and one final event that counts them.
THEOREM StreamsAreComplete == Spec => []StreamComplete
  <1>1. Init => \A s \in Streams : StreamOK(s)
    BY DEF Init, StreamOK
  <1>2. StreamInv /\ [Next]_vars => (\A s \in Streams : StreamOK(s))'
    <2> SUFFICES ASSUME StreamInv, [Next]_vars
                 PROVE  \A t \in Streams : StreamOK(t)'
      OBVIOUS
    <2>1. ASSUME NEW s \in Streams, Thread(s) \/ Receive(s)
          PROVE  \A t \in Streams : StreamOK(t)'
      BY <2>1, StreamThread, StreamReceive
    <2>2. QED
      BY <2>1, StreamOutside DEF Next
  <1>3. StreamInv => StreamComplete
    <2> SUFFICES ASSUME StreamInv, NEW s \in Streams, cons[s] = "done"
                 PROVE  got[s] = [i \in 1..emitted[s] |-> Token(i - 1)] \o <<Final(emitted[s])>>
      BY DEF StreamComplete
    <2> DEFINE n == emitted[s]
               toks == [i \in 1..n |-> Token(i - 1)]
    <2>1. n \in 0..MaxTokens /\ n \in Nat /\ got[s] \in Seq(Events)
      BY FacadeAssumption DEF StreamInv, FacadeInv, TypeOK
    <2>2. Len(got[s]) = n + 1 /\ \A i \in 1..n + 1 : got[s][i] = Nth(s, i) /\ got[s][i] # Error
      <3>1. Len(got[s]) = n + 1 /\ Received(s)
        BY DEF StreamInv, StreamOK
      <3>2. QED
        BY <3>1 DEF Received
    <2>3. \A i \in 1..n : got[s][i] = Token(i - 1)
      BY <2>1, <2>2 DEF Nth
    <2>4. got[s][n + 1] = Final(n)
      <3>1. n + 1 \in 1..n + 1 /\ ~(n + 1 <= n)
        BY <2>1
      <3>2. QED
        BY <2>2, <3>1 DEF Nth
    <2>5. toks \in Seq(Events) /\ Len(toks) = n /\ Final(n) \in Events
      <3>1. \A i \in 1..n : Token(i - 1) \in Events
        <4>1. \A i \in 1..n : i - 1 \in 0..MaxTokens
          BY <2>1, FacadeAssumption
        <4>2. QED
          BY <4>1, EventsType
      <3>2. QED
        BY <2>1, <3>1, EventsType
    <2>6. /\ toks \o <<Final(n)>> \in Seq(Events) /\ Len(toks \o <<Final(n)>>) = n + 1
          /\ (toks \o <<Final(n)>>)[n + 1] = Final(n)
          /\ \A i \in 1..n : (toks \o <<Final(n)>>)[i] = Token(i - 1)
      BY <2>1, <2>5
    <2> HIDE DEF n, toks
    <2>7. got[s] = toks \o <<Final(n)>>
      <3> DEFINE whole == toks \o <<Final(n)>>
      <3>1. whole \in Seq(Events) /\ Len(whole) = Len(got[s])
        BY <2>2, <2>6
      <3>2. \A i \in 1..Len(got[s]) : got[s][i] = whole[i]
        <4>1. \A i \in 1..n + 1 : i \in 1..n \/ i = n + 1
          BY <2>1
        <4>2. QED
          BY <2>2, <2>3, <2>4, <2>6, <4>1
      <3> HIDE DEF whole
      <3>3. got[s] = whole
        BY <2>1, <3>1, <3>2, SeqEqual
      <3>4. QED
        BY <3>3 DEF whole
    <2>8. QED
      BY <2>7 DEF n, toks
  <1>4. QED
    BY <1>1, <1>2, <1>3, FacadeSafety, PTL DEF Spec, StreamInv

=============================================================================
