------------------------------ MODULE ShmRing ------------------------------
(***************************************************************************)
(* The shared-memory ring of runtime/shm_broadcast.py: ShmWriter (rank 0)  *)
(* and one ShmReader per worker rank, each in a process of its own, one    *)
(* action per load or store of shared memory.                              *)
(*                                                                         *)
(* The module docstring argues from x86-TSO, so TSO is what is modelled:   *)
(* a store enters the FIFO store buffer of its process and reaches memory  *)
(* later; a load sees the newest store of its own buffer, else memory.     *)
(*                                                                         *)
(* A slot has the cells of its metadata, 0 (the written flag) and one per  *)
(* reader, and two cells for the chunk: Header (the length prefix) and     *)
(* Body.  A message writes its number in both, so a torn read shows.       *)
(***************************************************************************)
EXTENDS Integers, Sequences, SequencesExt

CONSTANTS NReaders,  \* n_reader
          NSlots,    \* max_chunks
          MaxSends,  \* bound: enqueue calls
          MaxBuffer, \* bound: stores in the writer's store buffer
          Timeouts   \* whether callers pass a timeout

ASSUME RingAssumption ==
  /\ NReaders \in Nat \ {0} /\ NSlots \in Nat \ {0}
  /\ MaxSends \in Nat /\ MaxBuffer \in Nat \ {0} /\ Timeouts \in BOOLEAN

Readers == 1..NReaders
Slots == 0..NSlots - 1
Header == NReaders + 1
Body == NReaders + 2

VARIABLES mem,    \* slot -> cell -> value
          wbuf,   \* the writer's store buffer
          rbuf,   \* per reader, slots whose read flag it set, not in memory yet
          w,      \* the writer: pc, idx, msg, and what it has loaded
          rd,     \* per reader: pc, idx, and what it has loaded
          log,    \* messages that got a slot
          got     \* per reader, what dequeue returned: <<header, body>>

vars == <<mem, wbuf, rbuf, w, rd, log, got>>

Init ==
  /\ mem = [s \in Slots |-> [c \in 0..NReaders + 2 |-> 0]]
  /\ wbuf = << >> /\ rbuf = [r \in Readers |-> << >>]
  /\ w = [pc |-> "idle", idx |-> 0, msg |-> 0, written |-> 0, count |-> 0, k |-> 1]
  /\ rd = [r \in Readers |-> [pc |-> "idle", idx |-> 0, written |-> 0, header |-> 0]]
  /\ log = << >> /\ got = [r \in Readers |-> << >>]

(***************************************************************************)
(* The store buffers.                                                      *)
(***************************************************************************)
WriterLoad(c) ==
  LET mine == {i \in DOMAIN wbuf : wbuf[i].slot = w.idx /\ wbuf[i].cell = c}
  IN IF mine = {} THEN mem[w.idx][c] ELSE wbuf[Max(mine)].val

WriterStore(c, v) ==
  /\ Len(wbuf) < MaxBuffer
  /\ wbuf' = Append(wbuf, [slot |-> w.idx, cell |-> c, val |-> v])

FlushWriter ==
  /\ wbuf # << >>
  /\ mem' = [mem EXCEPT ![Head(wbuf).slot][Head(wbuf).cell] = Head(wbuf).val]
  /\ wbuf' = Tail(wbuf)
  /\ UNCHANGED <<rbuf, w, rd, log, got>>

FlushReader(r) ==
  /\ rbuf[r] # << >>
  /\ mem' = [mem EXCEPT ![Head(rbuf[r])][r] = 1]
  /\ rbuf' = [rbuf EXCEPT ![r] = Tail(@)]
  /\ UNCHANGED <<wbuf, w, rd, log, got>>

(***************************************************************************)
(* ShmWriter.enqueue and _acquire_write.                                   *)
(***************************************************************************)
Enqueue ==
  /\ w.pc = "idle" /\ w.msg < MaxSends
  /\ w' = [w EXCEPT !.pc = "written", !.msg = @ + 1]
  /\ UNCHANGED <<mem, wbuf, rbuf, rd, log, got>>

LoadWritten ==
  /\ w.pc = "written"
  /\ w' = [w EXCEPT !.pc = "count", !.written = WriterLoad(0), !.count = 0, !.k = 1]
  /\ UNCHANGED <<mem, wbuf, rbuf, rd, log, got>>

\* Mutant: the sum stops one reader short.
CountFlagShort ==
  /\ w.pc = "count" /\ w.k <= NReaders
  /\ w' = [w EXCEPT !.count = IF w.k < NReaders THEN @ + WriterLoad(w.k) ELSE @, !.k = @ + 1]
  /\ UNCHANGED <<mem, wbuf, rbuf, rd, log, got>>

CountFlag ==
  /\ w.pc = "count" /\ w.k <= NReaders
  /\ w' = [w EXCEPT !.count = @ + WriterLoad(w.k), !.k = @ + 1]
  /\ UNCHANGED <<mem, wbuf, rbuf, rd, log, got>>

Counted == w.pc = "count" /\ w.k > NReaders

\* "Slot still being read by some reader": poll again, or give up.
SlotBusy ==
  /\ Counted /\ w.written = 1 /\ w.count # NReaders
  /\ \/ w' = [w EXCEPT !.pc = "written"]
     \/ Timeouts /\ w' = [w EXCEPT !.pc = "idle"]
  /\ UNCHANGED <<mem, wbuf, rbuf, rd, log, got>>

\* Mutant: one reader is enough to reuse the slot.
ClearWrittenEarly ==
  /\ Counted /\ (w.written = 0 \/ w.count > 0)
  /\ WriterStore(0, 0)
  /\ log' = Append(log, w.msg)
  /\ w' = [w EXCEPT !.pc = "header"]
  /\ UNCHANGED <<mem, rbuf, rd, got>>

\* "Slot is free": from here on the message is sent.
ClearWritten ==
  /\ Counted /\ (w.written = 0 \/ w.count = NReaders)
  /\ WriterStore(0, 0)
  /\ log' = Append(log, w.msg)
  /\ w' = [w EXCEPT !.pc = "header"]
  /\ UNCHANGED <<mem, rbuf, rd, got>>

WriteHeader ==
  /\ w.pc = "header" /\ WriterStore(Header, w.msg)
  /\ w' = [w EXCEPT !.pc = "body"]
  /\ UNCHANGED <<mem, rbuf, rd, log, got>>

WriteBody ==
  /\ w.pc = "body" /\ WriterStore(Body, w.msg)
  /\ w' = [w EXCEPT !.pc = "reset", !.k = 1]
  /\ UNCHANGED <<mem, rbuf, rd, log, got>>

\* Mutant: the read flags of the last round stay set.
ResetNothing ==
  /\ w.pc = "reset" /\ w.k <= NReaders
  /\ w' = [w EXCEPT !.k = @ + 1]
  /\ UNCHANGED <<mem, wbuf, rbuf, rd, log, got>>

ResetFlag ==
  /\ w.pc = "reset" /\ w.k <= NReaders
  /\ WriterStore(w.k, 0)
  /\ w' = [w EXCEPT !.k = @ + 1]
  /\ UNCHANGED <<mem, rbuf, rd, log, got>>

\* Mutant: the slot index does not wrap.
PublishNoWrap ==
  /\ w.pc = "reset" /\ w.k > NReaders
  /\ WriterStore(0, 1)
  /\ w' = [w EXCEPT !.pc = "idle", !.idx = @ + 1]
  /\ UNCHANGED <<mem, rbuf, rd, log, got>>

Publish ==
  /\ w.pc = "reset" /\ w.k > NReaders
  /\ WriterStore(0, 1)
  /\ w' = [w EXCEPT !.pc = "idle", !.idx = (@ + 1) % NSlots]
  /\ UNCHANGED <<mem, rbuf, rd, log, got>>

(***************************************************************************)
(* ShmReader.dequeue of reader r.                                          *)
(***************************************************************************)
Goto(r, pc) == rd' = [rd EXCEPT ![r].pc = pc]

Dequeue(r) ==
  /\ rd[r].pc = "idle" /\ Goto(r, "written")
  /\ UNCHANGED <<mem, wbuf, rbuf, w, log, got>>

ReadWritten(r) ==
  /\ rd[r].pc = "written"
  /\ rd' = [rd EXCEPT ![r].pc = "flag", ![r].written = mem[rd[r].idx][0]]
  /\ UNCHANGED <<mem, wbuf, rbuf, w, log, got>>

AlreadyRead(r) == rd[r].idx \in Range(rbuf[r]) \/ mem[rd[r].idx][r] = 1

\* Nothing to read yet: poll again, or give up.
SlotEmpty(r) ==
  /\ rd[r].pc = "flag" /\ (rd[r].written = 0 \/ AlreadyRead(r))
  /\ Goto(r, "written") \/ (Timeouts /\ Goto(r, "idle"))
  /\ UNCHANGED <<mem, wbuf, rbuf, w, log, got>>

SlotReady(r) ==
  /\ rd[r].pc = "flag" /\ rd[r].written = 1 /\ ~AlreadyRead(r)
  /\ Goto(r, "header")
  /\ UNCHANGED <<mem, wbuf, rbuf, w, log, got>>

ReadHeader(r) ==
  /\ rd[r].pc = "header"
  /\ rd' = [rd EXCEPT ![r].pc = "body", ![r].header = mem[rd[r].idx][Header]]
  /\ UNCHANGED <<mem, wbuf, rbuf, w, log, got>>

\* Copies the body; the payload is returned once the read flag is set.
ReadBody(r) ==
  /\ rd[r].pc = "body"
  /\ got' = [got EXCEPT ![r] = Append(@, <<rd[r].header, mem[rd[r].idx][Body]>>)]
  /\ Goto(r, "mark")
  /\ UNCHANGED <<mem, wbuf, rbuf, w, log>>

MarkRead(r) ==
  /\ rd[r].pc = "mark"
  /\ rbuf' = [rbuf EXCEPT ![r] = Append(@, rd[r].idx)]
  /\ rd' = [rd EXCEPT ![r].pc = "idle", ![r].idx = (@ + 1) % NSlots]
  /\ UNCHANGED <<mem, wbuf, w, log, got>>

WriterStep ==
  \/ LoadWritten \/ CountFlag \/ SlotBusy \/ ClearWritten
  \/ WriteHeader \/ WriteBody \/ ResetFlag \/ Publish

ReaderStep(r) ==
  \/ Dequeue(r) \/ ReadWritten(r) \/ SlotEmpty(r) \/ SlotReady(r)
  \/ ReadHeader(r) \/ ReadBody(r) \/ MarkRead(r)

Next ==
  \/ Enqueue \/ WriterStep \/ FlushWriter
  \/ \E r \in Readers : ReaderStep(r) \/ FlushReader(r)

Spec == Init /\ [][Next]_vars

\* A process runs on, a store buffer drains, and a worker rank keeps asking for the
\* next command; only the writer's calls are up to the server.
FairSpec ==
  /\ Spec /\ WF_vars(WriterStep) /\ WF_vars(FlushWriter)
  /\ \A r \in Readers : WF_vars(ReaderStep(r)) /\ WF_vars(FlushReader(r))

-----------------------------------------------------------------------------
(* Properties *)

TypeOK ==
  /\ mem \in [Slots -> [0..NReaders + 2 -> 0..MaxSends + 1]]
  /\ \A st \in Range(wbuf) : st.slot \in Slots /\ st.cell \in 0..NReaders + 2
  /\ Len(wbuf) <= MaxBuffer
  /\ \A r \in Readers : rbuf[r] \in Seq(Slots) /\ Len(rbuf[r]) <= NSlots
  /\ w.idx \in Slots /\ w.msg \in 0..MaxSends /\ w.count \in 0..NReaders
  /\ \A r \in Readers : rd[r].idx \in Slots /\ rd[r].written \in 0..1

Log == INSTANCE BroadcastLog WITH
         Slots <- NSlots, log <- [i \in DOMAIN log |-> <<log[i], log[i]>>]

\* Every dequeue returns the next message, whole, and the writer never takes a slot
\* that a reader has yet to read: the ring implements the broadcast log.
LogSpec == Log!Spec

\* A message that got a slot reaches every reader.
AllDelivered ==
  \A r \in Readers, n \in 1..MaxSends : (Len(log) >= n) ~> (Len(got[r]) >= n)

\* "The writer waits until a slot is free": the wait ends.
EnqueueReturns == (w.pc # "idle") ~> (w.pc = "idle")

=============================================================================
