---------------------------- MODULE ShmRingProofs ----------------------------
(***************************************************************************)
(* The ring implements the broadcast log under x86-TSO, for any number of  *)
(* readers and slots, any length of the writer's store buffer and any      *)
(* number of messages.                                                     *)
(*                                                                         *)
(* The writer issues the same NReaders + 4 stores for every message, so    *)
(* its state is a position in one stream of stores: Issued of them are     *)
(* issued, Flushed of them are in memory and the buffer holds the rest.    *)
(* A reader is where its messages done and its marks in memory say.        *)
(***************************************************************************)
EXTENDS ShmRing, SequenceTheorems, TLAPS

-----------------------------------------------------------------------------
\* The inductive invariant.
\* The stores of a message, in the order the writer issues them: clear, header, body,
\* one reset per reader, publish.  Base(k) stores come before those of message k.
Stores == NReaders + 4
Base(k) == (k - 1) * Stores
SlotOf(k) == (k - 1) % NSlots

StoreOf(k, j) ==
  [slot |-> SlotOf(k),
   cell |-> IF j = 0 \/ j = NReaders + 3 THEN 0
            ELSE IF j = 1 THEN Header ELSE IF j = 2 THEN Body ELSE j - 2,
   val  |-> IF j \in 1..2 THEN log[k] ELSE IF j = NReaders + 3 THEN 1 ELSE 0]

\* How many stores the writer has issued, and how many of them are in memory.
Sent == Len(log)
Sending == w.pc \in {"header", "body", "reset"}
Issued == IF w.pc = "header" THEN Base(Sent) + 1
          ELSE IF w.pc = "body" THEN Base(Sent) + 2
          ELSE IF w.pc = "reset" THEN Base(Sent) + 2 + w.k
          ELSE Base(Sent + 1)
Flushed == Issued - Len(wbuf)

\* How many messages reader r has marked read, and how many marks are in memory.
Done(r) == IF rd[r].pc = "mark" THEN Len(got[r]) - 1 ELSE Len(got[r])
Marked(r) == Done(r) - Len(rbuf[r])

\* The messages whose slots the memory stands for: the last NSlots, or, before so many
\* are sent, the first NSlots.
Window(k) == 1 <= k /\ Sent < k + NSlots /\ (k <= Sent \/ k <= NSlots)

WriterType ==
  [pc : {"idle", "written", "count", "header", "body", "reset"}, idx : Slots,
   msg : 0..MaxSends, written : 0..MaxSends + 1, count : 0..NReaders, k : 1..NReaders + 1]
ReaderType ==
  [pc : {"idle", "written", "flag", "header", "body", "mark"},
   idx : Slots, written : 0..1, header : 0..MaxSends + 1]
StoreType == [slot : Slots, cell : 0..NReaders + 2, val : 0..MaxSends + 1]

RingType ==
  /\ mem \in [Slots -> [0..NReaders + 2 -> 0..MaxSends + 1]]
  /\ wbuf \in Seq(StoreType)
  /\ Len(wbuf) <= MaxBuffer
  /\ rbuf \in [Readers -> Seq(Slots)]
  /\ w \in WriterType
  /\ rd \in [Readers -> ReaderType]
  /\ log \in Seq(0..MaxSends)
  /\ got \in [Readers -> Seq((0..MaxSends + 1) \X (0..MaxSends + 1))]
  /\ \A s \in Slots, c \in 0..NReaders : mem[s][c] \in 0..1

WriterOK ==
  /\ w.idx = (IF Sending THEN Sent - 1 ELSE Sent) % NSlots
  /\ Sending => Sent >= 1 /\ log[Sent] = w.msg
  /\ w.pc = "count" =>
       /\ w.count <= w.k - 1
       /\ w.written = 0 => Sent < NSlots
       /\ Sent >= NSlots /\ w.count = w.k - 1
            => \A r \in 1..w.k - 1 : Marked(r) + NSlots > Sent

BufferOK ==
  /\ Len(wbuf) <= Issued
  /\ \A k \in 1..Sent, j \in 0..NReaders + 3 :
       Flushed <= Base(k) + j /\ Base(k) + j < Issued
         => wbuf[(Base(k) + j) - Flushed + 1] = StoreOf(k, j)

ReaderOK(r) ==
  /\ rd[r].pc = "mark" => Len(got[r]) >= 1
  /\ rd[r].idx = Done(r) % NSlots
  /\ Marked(r) >= 0 /\ Sent <= Marked(r) + NSlots
  /\ \A i \in 1..Len(rbuf[r]) : rbuf[r][i] = SlotOf(Marked(r) + i)
  /\ Len(got[r]) >= 1 => Flushed >= Base(Len(got[r])) + 3 + r
  /\ rd[r].pc \in {"header", "body"} => Flushed >= Base(Done(r) + 1) + 3 + r
  /\ rd[r].pc = "body" => rd[r].header = log[Done(r) + 1]
  /\ rd[r].pc = "flag" /\ rd[r].written = 1
       => Done(r) + 1 > NSlots \/ Flushed >= Base(Done(r) + 2)

MemOKAt(k) ==
  /\ Flushed >= Base(k) + 2 => mem[SlotOf(k)][Header] = log[k]
  /\ Flushed >= Base(k) + 3 => mem[SlotOf(k)][Body] = log[k]
  /\ \A r \in Readers :
       mem[SlotOf(k)][r] = IF Flushed >= Base(k) + 3 + r
                           THEN IF Marked(r) >= k THEN 1 ELSE 0
                           ELSE IF k > NSlots THEN 1 ELSE 0
  /\ k <= NSlots /\ Flushed < Base(k + 1) => mem[SlotOf(k)][0] = 0
  /\ Flushed >= Base(k + 1) => mem[SlotOf(k)][0] = 1

MemOK == \A k \in Nat : Window(k) => MemOKAt(k)

RingInv ==
  /\ RingType /\ WriterOK /\ BufferOK /\ MemOK
  /\ \A r \in Readers : ReaderOK(r)

-----------------------------------------------------------------------------
\* Arithmetic of stores and slots.

LEMMA Sizes ==
  /\ NReaders \in Nat /\ NReaders >= 1 /\ NSlots \in Nat /\ NSlots >= 1
  /\ MaxSends \in Nat /\ MaxBuffer \in Nat /\ Stores \in Nat /\ Stores = NReaders + 4
  /\ Header = NReaders + 1 /\ Body = NReaders + 2
  /\ Readers = 1..NReaders /\ Slots = 0..NSlots - 1
  BY RingAssumption DEF Stores, Header, Body, Readers, Slots

LEMMA BaseNext ==
  ASSUME NEW k \in Nat, k >= 1
  PROVE  Base(k) \in Nat /\ Base(k + 1) = Base(k) + Stores /\ Base(k + 1) \in Nat
  <1>1. k - 1 \in Nat
    OBVIOUS
  <1>2. (k - 1) * Stores \in Nat /\ (k - 1 + 1) * Stores = (k - 1) * Stores + Stores
    BY <1>1, Sizes
  <1>3. QED
    BY <1>1, <1>2, Sizes DEF Base

LEMMA BaseOrder ==
  ASSUME NEW j \in Nat, NEW k \in Nat, 1 <= j, j < k
  PROVE  Base(j + 1) <= Base(k)
  <1>1. PICK d \in Nat : k - 1 = j + d
    <2>1. k - 1 - j \in Nat /\ k - 1 = j + (k - 1 - j)
      OBVIOUS
    <2>2. QED
      BY <2>1
  <1>2. (j + d) * Stores = j * Stores + d * Stores /\ d * Stores \in Nat /\ j * Stores \in Nat
    BY <1>1, Sizes
  <1>3. QED
    BY <1>1, <1>2, Sizes DEF Base

LEMMA BaseMonotone ==
  ASSUME NEW j \in Nat, NEW k \in Nat, 1 <= j, j <= k
  PROVE  Base(j) \in Nat /\ Base(k) \in Nat /\ Base(j) <= Base(k)
  <1>1. Base(j) \in Nat /\ Base(k) \in Nat /\ Base(j + 1) = Base(j) + Stores
    BY BaseNext
  <1>2. CASE j = k
    BY <1>1, <1>2
  <1>3. CASE j < k
    BY <1>1, <1>3, BaseOrder, Sizes
  <1>4. QED
    BY <1>2, <1>3

LEMMA Division ==
  ASSUME NEW n \in Nat, NEW d \in Nat, d >= 1
  PROVE  \E q \in Nat, j \in 0..d - 1 : n = q * d + j
  <1>1. n \div d \in Nat /\ n % d \in 0..d - 1 /\ n = (n \div d) * d + (n % d)
    OBVIOUS
  <1>2. QED
    BY <1>1

\* Every position of the stream is a store of one message, ...
LEMMA Position ==
  ASSUME NEW n \in Nat
  PROVE  \E k \in Nat, j \in 0..NReaders + 3 : k >= 1 /\ n = Base(k) + j
  <1>1. PICK q \in Nat, j \in 0..Stores - 1 : n = q * Stores + j
    <2>1. Stores \in Nat /\ Stores >= 1
      BY Sizes
    <2>2. QED
      BY <2>1, Division
  <1>2. q + 1 \in Nat /\ q + 1 >= 1 /\ Base(q + 1) = q * Stores
    BY <1>1, Sizes DEF Base
  <1>3. j \in 0..NReaders + 3
    BY <1>1, Sizes
  <1>4. QED
    BY <1>1, <1>2, <1>3

\* ... and of one only.
LEMMA PositionOnce ==
  ASSUME NEW k \in Nat, k >= 1, NEW i \in 0..NReaders + 3,
         NEW l \in Nat, l >= 1, NEW j \in 0..NReaders + 3, Base(k) + i = Base(l) + j
  PROVE  k = l /\ i = j
  <1>1. Base(k) \in Nat /\ Base(k + 1) = Base(k) + Stores
        /\ Base(l) \in Nat /\ Base(l + 1) = Base(l) + Stores
    BY BaseNext
  <1>2. ~(k < l)
    BY <1>1, BaseOrder, Sizes
  <1>3. ~(l < k)
    BY <1>1, BaseOrder, Sizes
  <1>4. QED
    BY <1>1, <1>2, <1>3

LEMMA BelowBase ==
  ASSUME NEW k \in Nat, NEW l \in Nat, k >= 1, l >= 1, NEW j \in Nat, Base(k) + j < Base(l + 1)
  PROVE  k <= l
  <1>1. Base(k) \in Nat /\ Base(l + 1) \in Nat
    BY BaseNext
  <1>2. ~(l < k)
    BY <1>1, BaseOrder
  <1>3. QED
    BY <1>2

LEMMA SlotType ==
  ASSUME NEW k \in Nat, k >= 1
  PROVE  SlotOf(k) \in Slots
  BY Sizes DEF SlotOf

\* The slot after that of message k is that of the next one.
LEMMA NextSlot ==
  ASSUME NEW k \in Nat
  PROVE  k % NSlots = SlotOf(k + 1) /\ ((k % NSlots) + 1) % NSlots = (k + 1) % NSlots
         /\ k % NSlots \in Slots
  <1>1. k + 1 - 1 = k
    OBVIOUS
  <1> DEFINE q == k \div NSlots
             o == k % NSlots
  <1>2. q \in Nat /\ o \in 0..NSlots - 1 /\ k = q * NSlots + o
    BY Sizes
  <1>3. (o + 1) % NSlots = (k + 1) % NSlots
    <2> HIDE DEF q, o
    <2>1. k + 1 = q * NSlots + (o + 1)
      BY <1>2, Sizes
    <2>2. (q * NSlots + (o + 1)) % NSlots = (o + 1) % NSlots
      BY <1>2, Sizes
    <2>3. QED
      BY <2>1, <2>2
  <1>4. QED
    BY <1>1, <1>2, <1>3, Sizes DEF SlotOf

LEMMA Residue ==
  ASSUME NEW q \in Nat, NEW o \in 0..NSlots - 1
  PROVE  (q * NSlots + o) % NSlots = o
  BY Sizes

\* The ring wraps.
LEMMA SameSlot ==
  ASSUME NEW k \in Nat, k >= 1
  PROVE  SlotOf(k + NSlots) = SlotOf(k)
  <1> DEFINE n == k - 1
             q == n \div NSlots
             o == n % NSlots
  <1>1. q \in Nat /\ o \in 0..NSlots - 1 /\ n = q * NSlots + o /\ n \in Nat
    BY Sizes
  <1> DEFINE m == k + NSlots - 1
  <1>2. SlotOf(k) = o /\ SlotOf(k + NSlots) = m % NSlots /\ m = n + NSlots
    BY Sizes DEF SlotOf
  <1> HIDE DEF m
  <1> HIDE DEF n, q, o
  <1>3. q + 1 \in Nat /\ m = (q + 1) * NSlots + o
    BY <1>1, <1>2, Sizes
  <1>4. QED
    BY <1>1, <1>2, <1>3, Residue

\* Fewer than NSlots messages apart, slots differ.
LEMMA SlotsApart ==
  ASSUME NEW j \in Nat, NEW k \in Nat, 1 <= j, 1 <= k, j < k + NSlots, k < j + NSlots,
         SlotOf(j) = SlotOf(k)
  PROVE  j = k
  <1>1. \A a, b \in Nat : a <= b /\ b < a + NSlots /\ a % NSlots = b % NSlots => a = b
    <2> SUFFICES ASSUME NEW a \in Nat, NEW b \in Nat, a <= b, b < a + NSlots,
                        a % NSlots = b % NSlots
                 PROVE  a = b
      OBVIOUS
    <2> DEFINE p == a \div NSlots
               q == b \div NSlots
               o == a % NSlots
    <2>1. p \in Nat /\ q \in Nat /\ o \in Nat /\ a = p * NSlots + o /\ b = q * NSlots + o
      BY Sizes
    <2> HIDE DEF p, q, o
    <2>2. ~(q < p)
      <3>1. SUFFICES ASSUME q < p PROVE FALSE
        OBVIOUS
      <3>2. PICK d \in Nat : p = q + 1 + d
        <4>1. p - q - 1 \in Nat /\ p = q + 1 + (p - q - 1)
          BY <2>1, <3>1
        <4>2. QED
          BY <4>1
      <3>3. p * NSlots = q * NSlots + NSlots + d * NSlots /\ d * NSlots \in Nat
        BY <2>1, <3>2, Sizes
      <3>4. QED
        BY <2>1, <3>3, Sizes
    <2>3. ~(p < q)
      <3>1. SUFFICES ASSUME p < q PROVE FALSE
        OBVIOUS
      <3>2. PICK d \in Nat : q = p + 1 + d
        <4>1. q - p - 1 \in Nat /\ q = p + 1 + (q - p - 1)
          BY <2>1, <3>1
        <4>2. QED
          BY <4>1
      <3>3. q * NSlots = p * NSlots + NSlots + d * NSlots /\ d * NSlots \in Nat /\ p * NSlots \in Nat
        BY <2>1, <3>2, Sizes
      <3>4. QED
        BY <2>1, <3>3, Sizes
    <2>4. QED
      BY <2>1, <2>2, <2>3
  <1> DEFINE a == j - 1
             b == k - 1
  <1>2. /\ a \in Nat /\ b \in Nat /\ j = a + 1 /\ k = b + 1
        /\ a < b + NSlots /\ b < a + NSlots /\ a % NSlots = b % NSlots
    BY Sizes DEF SlotOf
  <1> HIDE DEF a, b
  <1>3. a <= b => a = b
    BY <1>1, <1>2
  <1>4. b <= a => a = b
    BY <1>1, <1>2
  <1>5. QED
    BY <1>2, <1>3, <1>4

-----------------------------------------------------------------------------
\* What the invariant says of the counters.

LEMMA Counters ==
  ASSUME RingInv
  PROVE  /\ Sent \in Nat /\ Issued \in Nat /\ Flushed \in Nat /\ Len(wbuf) \in Nat
         /\ Issued = Flushed + Len(wbuf) /\ Issued <= Base(Sent + 1)
         /\ Base(Sent + 1) \in Nat
         /\ Sending => Sent >= 1 /\ Base(Sent) < Issued
         /\ ~Sending => Issued = Base(Sent + 1)
  <1>1. /\ Sent \in Nat /\ Len(wbuf) \in Nat /\ w.k \in Nat /\ w.k <= NReaders + 1
        /\ Len(wbuf) <= Issued
    <2>1. log \in Seq(0..MaxSends) /\ w.k \in 1..NReaders + 1 /\ Len(wbuf) <= Issued
          /\ wbuf \in Seq(StoreType)
      BY DEF RingInv, RingType, BufferOK, WriterType
    <2>2. Sent \in Nat /\ Len(wbuf) \in Nat
      BY <2>1 DEF Sent
    <2>3. QED
      BY <2>1, <2>2, Sizes
  <1>2. Base(Sent + 1) \in Nat
    <2>1. Sent + 1 \in Nat /\ Sent + 1 >= 1
      BY <1>1
    <2>2. QED
      BY <2>1, BaseNext
  <1>3. Sending => /\ Sent >= 1 /\ Base(Sent) \in Nat /\ Base(Sent + 1) = Base(Sent) + Stores
    <2>1. Sending => Sent >= 1
      BY DEF RingInv, WriterOK
    <2>2. QED
      BY <1>1, <2>1, BaseNext
  <1>4. Sending => Base(Sent) < Issued /\ Issued <= Base(Sent + 1) /\ Issued \in Nat
    <2>1. Stores = NReaders + 4 /\ NReaders \in Nat /\ w.k \in 1..NReaders + 1
      BY Sizes DEF RingInv, RingType, WriterType
    <2>2. ASSUME Sending
          PROVE  Base(Sent) \in Nat /\ Base(Sent + 1) = Base(Sent) + NReaders + 4
      BY <1>3, <2>1, <2>2
    <2>3. CASE w.pc = "header"
      <3>1. Issued = Base(Sent) + 1 /\ Sending
        BY <2>3 DEF Sending, Issued
      <3>2. QED
        BY <2>1, <2>2, <3>1
    <2>4. CASE w.pc = "body"
      <3>1. Issued = Base(Sent) + 2 /\ Sending
        BY <2>4 DEF Sending, Issued
      <3>2. QED
        BY <2>1, <2>2, <3>1
    <2>5. CASE w.pc = "reset"
      <3>1. Issued = Base(Sent) + 2 + w.k /\ Sending
        BY <2>5 DEF Sending, Issued
      <3>2. QED
        BY <2>1, <2>2, <3>1
    <2>6. QED
      BY <2>3, <2>4, <2>5 DEF Sending
  <1>5. ~Sending => Issued = Base(Sent + 1)
    BY DEF Sending, Issued
  <1>6. QED
    BY <1>1, <1>2, <1>3, <1>4, <1>5 DEF Flushed

LEMMA ReaderCounters ==
  ASSUME RingInv, NEW r \in Readers
  PROVE  /\ Len(got[r]) \in Nat /\ Done(r) \in Nat /\ Marked(r) \in Nat /\ Len(rbuf[r]) \in Nat
         /\ Done(r) = Marked(r) + Len(rbuf[r]) /\ Done(r) <= Len(got[r])
         /\ Len(got[r]) <= Sent /\ Sent <= Marked(r) + NSlots
         /\ rd[r].pc \in {"header", "body"} => Done(r) + 1 <= Sent /\ Done(r) = Len(got[r])
         /\ r \in Nat /\ r >= 1 /\ r <= NReaders
         /\ Len(got[r]) >= 1 => Flushed >= Base(Len(got[r])) + 3 + r
         /\ rd[r].pc \in {"header", "body"} => Flushed >= Base(Done(r) + 1) + 3 + r
  <1>1. /\ Len(got[r]) \in Nat /\ Len(rbuf[r]) \in Nat /\ r \in Nat /\ r >= 1 /\ r <= NReaders
    <2>1. /\ got[r] \in Seq((0..MaxSends + 1) \X (0..MaxSends + 1))
          /\ rbuf[r] \in Seq(Slots)
      BY DEF RingInv, RingType
    <2>2. QED
      BY <2>1, Sizes
  <1>2. ReaderOK(r)
    BY DEF RingInv
  <1>3. Done(r) \in Nat /\ Done(r) <= Len(got[r])
    BY <1>1, <1>2 DEF ReaderOK, Done
  <1>4. Marked(r) \in Nat /\ Done(r) = Marked(r) + Len(rbuf[r]) /\ Sent <= Marked(r) + NSlots
    BY <1>1, <1>2, <1>3 DEF ReaderOK, Marked
  <1>5. ASSUME NEW k \in Nat, k >= 1, Flushed >= Base(k) + 3 + r
        PROVE  k <= Sent
    <2>1. Base(k) \in Nat
      BY <1>5, BaseNext
    <2>2. Base(k) + 3 + r <= Base(Sent + 1) /\ Sent \in Nat /\ Base(Sent + 1) \in Nat
      BY <1>1, <1>5, <2>1, Counters
    <2>3. CASE Sent + 1 <= k
      <3>1. Base(Sent + 1) <= Base(k)
        BY <1>5, <2>2, <2>3, BaseMonotone
      <3>2. QED
        BY <1>1, <2>1, <2>2, <3>1
    <2>4. QED
      BY <1>5, <2>2, <2>3
  <1>6. Len(got[r]) >= 1 => Flushed >= Base(Len(got[r])) + 3 + r
    BY <1>2 DEF ReaderOK
  <1>7. rd[r].pc \in {"header", "body"} => Flushed >= Base(Done(r) + 1) + 3 + r
    BY <1>2 DEF ReaderOK
  <1>8. Len(got[r]) <= Sent
    BY <1>1, <1>5, <1>6, Counters
  <1>9. rd[r].pc \in {"header", "body"} => Done(r) + 1 <= Sent /\ Done(r) = Len(got[r])
    BY <1>3, <1>5, <1>7 DEF Done
  <1>10. QED
    BY <1>1, <1>3, <1>4, <1>6, <1>7, <1>8, <1>9

\* A message a reader has marked was reset for it before.
LEMMA MarkedWasReset ==
  ASSUME RingInv, NEW r \in Readers, NEW k \in Nat, 1 <= k, k <= Len(got[r])
  PROVE  Flushed >= Base(k) + 3 + r
  <1> DEFINE g == Len(got[r])
  <1>1. g \in Nat /\ g >= 1 /\ Flushed >= Base(g) + 3 + r /\ r \in Nat /\ k <= g
    BY ReaderCounters
  <1> HIDE DEF g
  <1>2. CASE k = g
    BY <1>1, <1>2
  <1>3. CASE k < g
    <2>1. Base(k + 1) <= Base(g)
      BY <1>1, <1>3, BaseOrder
    <2>2. Base(k + 1) = Base(k) + Stores /\ Base(k) \in Nat
      BY BaseNext
    <2>3. Base(g) \in Nat /\ Flushed \in Nat
      BY <1>1, BaseNext, Counters
    <2>4. QED
      BY <1>1, <2>1, <2>2, <2>3, Sizes
  <1>4. QED
    BY <1>1, <1>2, <1>3

\* The store buffer holds the stream from Flushed on.
LEMMA Buffered ==
  ASSUME RingInv, NEW i \in 1..Len(wbuf)
  PROVE  \E k \in 1..Sent, j \in 0..NReaders + 3 :
           Base(k) \in Nat /\ Flushed + i - 1 = Base(k) + j /\ wbuf[i] = StoreOf(k, j)
  <1>1. Flushed + i - 1 \in Nat /\ Flushed + i - 1 < Issued
    BY Counters
  <1>2. PICK k \in Nat, j \in 0..NReaders + 3 : k >= 1 /\ Flushed + i - 1 = Base(k) + j
    BY <1>1, Position
  <1>3. j \in Nat /\ Base(k) \in Nat
    BY <1>2, BaseNext, Sizes
  <1>4. k <= Sent
    <2>1. Base(k) + j < Base(Sent + 1)
      BY <1>1, <1>2, Counters
    <2>2. CASE Sent >= 1
      BY <1>2, <1>3, <2>1, <2>2, BelowBase, Counters
    <2>3. CASE Sent = 0
      <3>1. Base(Sent + 1) = 0
        BY <2>3, Sizes DEF Base
      <3>2. QED
        BY <1>3, <2>1, <3>1
    <2>4. QED
      BY <2>2, <2>3, Counters
  <1>5. wbuf[(Base(k) + j) - Flushed + 1] = StoreOf(k, j)
    <2>1. Flushed <= Base(k) + j /\ Base(k) + j < Issued /\ k \in 1..Sent
      BY <1>1, <1>2, <1>3, <1>4, Counters
    <2>2. QED
      BY <2>1 DEF RingInv, BufferOK
  <1>6. (Base(k) + j) - Flushed + 1 = i
    <2>1. Flushed \in Nat /\ i \in Nat
      BY Counters
    <2>2. QED
      BY <1>2, <1>3, <2>1
  <1>7. Flushed + i - 1 = Base(k) + j /\ wbuf[i] = StoreOf(k, j)
    BY <1>2, <1>5, <1>6
  <1>8. k \in 1..Sent
    BY <1>2, <1>4, Counters
  <1>9. QED
    BY <1>3, <1>7, <1>8

\* The slot the writer is about to take, and the message whose slot it was.
LEMMA NextMessage ==
  ASSUME RingInv, ~Sending
  PROVE  /\ w.idx = SlotOf(Sent + 1)
         /\ \A k \in 1..Sent : SlotOf(k) = w.idx /\ Sent < k + NSlots => k + NSlots = Sent + 1
         /\ Sent >= NSlots => /\ Sent + 1 - NSlots \in 1..Sent /\ Window(Sent + 1 - NSlots)
                              /\ SlotOf(Sent + 1 - NSlots) = w.idx
  <1>1. w.idx = SlotOf(Sent + 1)
    BY NextSlot, Counters DEF RingInv, WriterOK
  <1>2. ASSUME NEW k \in 1..Sent, SlotOf(k) = w.idx, Sent < k + NSlots
        PROVE  k + NSlots = Sent + 1
    <2>1. SlotOf(k) = SlotOf(Sent + 1) /\ Sent \in Nat
      BY <1>1, <1>2, Counters
    <2>2. k # Sent + 1
      BY <2>1
    <2>3. ~(Sent + 1 < k + NSlots)
      BY <2>1, <2>2, SlotsApart, Sizes
    <2>4. QED
      BY <1>2, <2>1, <2>3, Sizes
  <1>3. ASSUME Sent >= NSlots
        PROVE  /\ Sent + 1 - NSlots \in 1..Sent /\ Window(Sent + 1 - NSlots)
               /\ SlotOf(Sent + 1 - NSlots) = w.idx
    <2> DEFINE k == Sent + 1 - NSlots
    <2>1. k \in 1..Sent /\ k + NSlots = Sent + 1
      BY <1>3, Counters, Sizes
    <2>2. SlotOf(k) = SlotOf(k + NSlots)
      BY <2>1, SameSlot
    <2>3. QED
      BY <1>1, <2>1, <2>2, Counters DEF Window
  <1>4. QED
    BY <1>1, <1>2, <1>3

LEMMA MaxIs ==
  ASSUME NEW S \in SUBSET Int, NEW m \in S, \A y \in S : m >= y
  PROVE  Max(S) = m
  <1>1. \A x \in S : (\A y \in S : x >= y) => x = m
    OBVIOUS
  <1>2. QED
    BY <1>1 DEF Max

\* What the buffer holds, from message k on, for the slot of message k.
LEMMA OwnStores ==
  ASSUME RingInv, ~Sending, NEW i \in 1..Len(wbuf), wbuf[i].slot = w.idx
  PROVE  LET k == Sent + 1 - NSlots
         IN  /\ Sent >= NSlots
             /\ Flushed + i - 1 >= Base(k)
                  => \E j \in 0..NReaders + 3 : /\ Flushed + i - 1 = Base(k) + j
                                                /\ wbuf[i] = StoreOf(k, j)
  <1> DEFINE k == Sent + 1 - NSlots
  <1>1. PICK l \in 1..Sent, j \in 0..NReaders + 3 :
          Base(l) \in Nat /\ Flushed + i - 1 = Base(l) + j /\ wbuf[i] = StoreOf(l, j)
    BY Buffered
  <1>2. SlotOf(l) = w.idx
    BY <1>1 DEF StoreOf
  <1>3. Sent < l + NSlots => l = k
    <2>1. Sent < l + NSlots => l + NSlots = Sent + 1
      BY <1>2, NextMessage
    <2>2. QED
      BY <2>1, Counters, Sizes
  <1>4. Sent >= NSlots
    <2>1. CASE Sent < NSlots
      <3>1. Sent < l + NSlots
        BY <2>1, Counters, Sizes
      <3>2. l = k /\ k <= 0
        BY <1>3, <2>1, <3>1, Counters, Sizes
      <3>3. QED
        BY <3>2
    <2>2. QED
      BY <2>1, Counters, Sizes
  <1>5. k \in Nat /\ k >= 1 /\ l \in Nat /\ l >= 1 /\ Sent \in Nat /\ k + NSlots = Sent + 1
    <2>1. Sent \in Nat /\ NSlots \in Nat
      BY Counters, Sizes
    <2>2. QED
      BY <1>4, <2>1
  <1>6. ASSUME Flushed + i - 1 >= Base(k)
        PROVE  l = k
    <2>1. ~(l < k)
      <3>1. SUFFICES ASSUME l < k PROVE FALSE
        OBVIOUS
      <3>2. Base(l + 1) <= Base(k) /\ Base(l + 1) = Base(l) + Stores
        BY <1>5, <3>1, BaseOrder, BaseNext
      <3>3. Base(k) \in Nat
        BY <1>5, BaseNext
      <3> HIDE DEF k
      <3>4. QED
        BY <1>1, <1>6, <3>2, <3>3, Sizes
    <2>2. QED
      BY <1>3, <1>5, <2>1, Sizes
  <1> HIDE DEF k
  <1>7. Flushed + i - 1 >= Base(k)
          => \E x \in 0..NReaders + 3 : Flushed + i - 1 = Base(k) + x /\ wbuf[i] = StoreOf(k, x)
    BY <1>1, <1>6
  <1>8. QED
    BY <1>4, <1>7 DEF k

\* The loads of _acquire_write: the written flag of a slot the writer used before is
\* set, and a read flag that is set was set for the last message of the slot.
LEMMA WriterSees ==
  ASSUME RingInv, ~Sending
  PROVE  /\ WriterLoad(0) \in 0..1
         /\ WriterLoad(0) = 0 => Sent < NSlots
         /\ \A r \in Readers : /\ WriterLoad(r) \in 0..1
                               /\ WriterLoad(r) = 1 /\ Sent >= NSlots => Marked(r) + NSlots > Sent
  <1> DEFINE mine(c) == {i \in DOMAIN wbuf : wbuf[i].slot = w.idx /\ wbuf[i].cell = c}
             k == Sent + 1 - NSlots
  <1>1. DOMAIN wbuf = 1..Len(wbuf) /\ Len(wbuf) \in Nat /\ w.idx \in Slots
    BY DEF RingInv, RingType, WriterType
  <1>2. \A c \in 0..NReaders : mem[w.idx][c] \in 0..1
    BY <1>1 DEF RingInv, RingType
  <1>3. \A c : WriterLoad(c) = IF mine(c) = {} THEN mem[w.idx][c] ELSE wbuf[Max(mine(c))].val
    BY DEF WriterLoad
  <1>4. CASE Sent < NSlots
    <2>1. \A c : mine(c) = {}
      BY <1>1, <1>4, OwnStores, Counters, Sizes
    <2>2. \A c \in 0..NReaders : WriterLoad(c) \in 0..1
      BY <1>2, <1>3, <2>1
    <2>3. 0 \in 0..NReaders /\ \A r \in Readers : r \in 0..NReaders
      BY Sizes
    <2>4. QED
      BY <1>4, <2>2, <2>3, Counters, Sizes
  <1>5. CASE Sent >= NSlots
    <2>1. k \in 1..Sent /\ k \in Nat /\ k >= 1 /\ Window(k) /\ SlotOf(k) = w.idx
          /\ k + NSlots = Sent + 1
      BY <1>5, NextMessage, Counters, Sizes
    <2>2. /\ Base(k) \in Nat /\ Base(k + 1) = Base(k) + Stores
          /\ Base(k + 1) <= Issued /\ Flushed \in Nat /\ Issued = Flushed + Len(wbuf)
      <3>1. Base(k + 1) <= Base(Sent + 1)
        BY <2>1, BaseMonotone, Counters
      <3>2. QED
        BY <2>1, <3>1, BaseNext, Counters
    <2>3. MemOKAt(k)
      BY <2>1 DEF RingInv, MemOK
    <2>4. \A i \in 1..Len(wbuf) : wbuf[i].slot = w.idx /\ Flushed + i - 1 >= Base(k)
            => \E x \in 0..NReaders + 3 : Flushed + i - 1 = Base(k) + x /\ wbuf[i] = StoreOf(k, x)
      BY OwnStores
    <2> HIDE DEF k
    \* The store of message k to cell c is the last one, in the buffer or in memory.
    <2>5. ASSUME NEW j \in 2..NReaders + 3, NEW c \in 0..NReaders, StoreOf(k, j).cell = c,
                 StoreOf(k, j).slot = SlotOf(k)
          PROVE  IF Flushed <= Base(k) + j THEN WriterLoad(c) = StoreOf(k, j).val
                 ELSE WriterLoad(c) = mem[w.idx][c]
      <3>1. \A i \in mine(c) : Flushed + i - 1 >= Base(k) + j => Flushed + i - 1 = Base(k) + j
        <4> SUFFICES ASSUME NEW i \in mine(c), Flushed + i - 1 >= Base(k) + j
                     PROVE  Flushed + i - 1 = Base(k) + j
          OBVIOUS
        <4>1. i \in 1..Len(wbuf) /\ wbuf[i].slot = w.idx /\ wbuf[i].cell = c
              /\ Flushed + i - 1 >= Base(k)
          BY <1>1, <2>2, Sizes
        <4>2. PICK x \in 0..NReaders + 3 : Flushed + i - 1 = Base(k) + x /\ wbuf[i] = StoreOf(k, x)
          BY <2>4, <4>1
        <4>3. x >= j /\ x \in Nat /\ j \in Nat /\ j >= 2
          BY <2>2, <4>1, <4>2, Sizes
        <4>4. x = j
          <5>1. StoreOf(k, x).cell = StoreOf(k, j).cell /\ StoreOf(k, j).cell = c
            BY <2>5, <4>1, <4>2
          <5>2. \A y \in 2..NReaders + 3 :
                  StoreOf(k, y).cell = IF y = NReaders + 3 THEN 0
                                       ELSE IF y = 2 THEN NReaders + 2 ELSE y - 2
            BY Sizes DEF StoreOf
          <5>3. x \in 2..NReaders + 3 /\ j \in 2..NReaders + 3 /\ x \in Nat /\ j \in Nat
            BY <4>3, Sizes
          <5>4. QED
            BY <5>1, <5>2, <5>3, Sizes
        <4>5. QED
          BY <4>2, <4>4
      <3>2. CASE Flushed <= Base(k) + j
        <4> DEFINE m == (Base(k) + j) - Flushed + 1
        <4>1. m \in 1..Len(wbuf) /\ Flushed + m - 1 = Base(k) + j
          BY <2>2, <3>2, Sizes
        <4>2. wbuf[m] = StoreOf(k, j)
          <5>1. j \in 0..NReaders + 3 /\ Base(k) + j < Issued
            BY <2>2, Sizes
          <5>2. QED
            BY <2>1, <3>2, <5>1 DEF RingInv, BufferOK
        <4>3. m \in mine(c)
          BY <1>1, <2>1, <2>5, <4>1, <4>2
        <4>4. ASSUME NEW y \in mine(c)
              PROVE  m >= y
          <5>1. y \in 1..Len(wbuf) /\ y \in Nat
            BY <1>1
          <5>2. Flushed + y - 1 >= Base(k) + j => Flushed + y - 1 = Base(k) + j
            BY <3>1
          <5>3. j \in Nat /\ m \in Nat
            BY <1>1, <4>1, Sizes
          <5> HIDE DEF m
          <5>4. QED
            BY <2>2, <4>1, <5>1, <5>2, <5>3
        <4>5. mine(c) \in SUBSET Int
          BY <1>1
        <4> HIDE DEF m, mine
        <4>6. Max(mine(c)) = m
          BY <4>3, <4>4, <4>5, MaxIs
        <4>7. QED
          BY <1>3, <3>2, <4>2, <4>3, <4>6
      <3>3. CASE Flushed > Base(k) + j
        <4>1. mine(c) = {}
          <5> SUFFICES ASSUME NEW i \in mine(c) PROVE FALSE
            OBVIOUS
          <5>1. i \in Nat /\ i >= 1 /\ j \in Nat /\ Base(k) \in Nat /\ Flushed \in Nat
            BY <1>1, <2>2, Sizes
          <5>2. Flushed + i - 1 >= Base(k) + j => Flushed + i - 1 = Base(k) + j
            BY <3>1
          <5>3. QED
            BY <3>3, <5>1, <5>2
        <4>2. ~(Flushed <= Base(k) + j)
          BY <2>2, <3>3, Sizes
        <4> HIDE DEF mine
        <4>3. QED
          BY <1>3, <4>1, <4>2
      <3>4. QED
        BY <2>2, <3>2, <3>3, Sizes
    <2>6. WriterLoad(0) = 1
      <3>1. StoreOf(k, NReaders + 3).cell = 0 /\ StoreOf(k, NReaders + 3).slot = SlotOf(k)
            /\ StoreOf(k, NReaders + 3).val = 1
            /\ NReaders + 3 \in 2..NReaders + 3 /\ 0 \in 0..NReaders
        BY Sizes DEF StoreOf
      <3>2. IF Flushed <= Base(k) + (NReaders + 3) THEN WriterLoad(0) = 1
            ELSE WriterLoad(0) = mem[w.idx][0]
        BY <2>5, <3>1
      <3>3. Flushed > Base(k) + (NReaders + 3) => mem[w.idx][0] = 1
        <4>1. Flushed > Base(k) + (NReaders + 3) => Flushed >= Base(k + 1)
          BY <2>2, Sizes
        <4>2. Flushed >= Base(k + 1) => mem[w.idx][0] = 1
          BY <2>1, <2>3 DEF MemOKAt
        <4>3. QED
          BY <4>1, <4>2
      <3>4. QED
        BY <2>2, <3>2, <3>3, Sizes
    <2>7. ASSUME NEW r \in Readers
          PROVE  WriterLoad(r) \in 0..1 /\ (WriterLoad(r) = 1 => Marked(r) >= k)
      <3>1. StoreOf(k, r + 2).cell = r /\ StoreOf(k, r + 2).slot = SlotOf(k)
            /\ StoreOf(k, r + 2).val = 0
            /\ r + 2 \in 2..NReaders + 3 /\ r \in 0..NReaders /\ r \in Nat
        BY Sizes DEF StoreOf
      <3>2. IF Flushed <= Base(k) + (r + 2) THEN WriterLoad(r) = 0
            ELSE WriterLoad(r) = mem[w.idx][r]
        BY <2>5, <3>1
      <3>3. Flushed > Base(k) + (r + 2) => mem[w.idx][r] = IF Marked(r) >= k THEN 1 ELSE 0
        BY <2>1, <2>2, <2>3, <3>1 DEF MemOKAt
      <3>4. QED
        BY <2>2, <3>1, <3>2, <3>3
    <2>8. \A r \in Readers : Marked(r) \in Nat
      BY ReaderCounters
    <2>9. \A r \in Readers : Marked(r) >= k => Marked(r) + NSlots > Sent
      <3>1. Sent \in Nat /\ NSlots \in Nat /\ k \in Nat /\ k + NSlots = Sent + 1
        BY <2>1, Counters, Sizes
      <3>2. QED
        BY <2>8, <3>1
    <2>10. QED
      BY <2>6, <2>7, <2>9
  <1>6. QED
    BY <1>4, <1>5, Counters, Sizes

-----------------------------------------------------------------------------
\* What steps of one process leave to the others.

\* Readers only lean on what is in memory: more of it, and more messages sent, do
\* them no harm as long as the writer stays within NSlots of their marks.
LEMMA ReaderFrame ==
  ASSUME RingInv, NEW r \in Readers,
         rd'[r] = rd[r], rbuf'[r] = rbuf[r], got'[r] = got[r],
         Flushed' \in Nat, Flushed' >= Flushed,
         \A k \in 1..Sent : log'[k] = log[k], Sent' <= Marked(r) + NSlots
  PROVE  ReaderOK(r)' /\ Marked(r)' = Marked(r) /\ Done(r)' = Done(r)
  <1>1. Done(r)' = Done(r) /\ Marked(r)' = Marked(r)
    BY DEF Done, Marked
  <1>2. /\ Done(r) \in Nat /\ Marked(r) \in Nat /\ Len(got[r]) \in Nat /\ r \in Nat
        /\ rd[r].pc \in {"header", "body"} => Done(r) + 1 <= Sent
        /\ Flushed \in Nat /\ Sent \in Nat
    BY ReaderCounters, Counters
  <1>3. ReaderOK(r)
    BY DEF RingInv
  <1>4. /\ Len(got[r]) >= 1 => Base(Len(got[r])) \in Nat
        /\ Base(Done(r) + 1) \in Nat /\ Base(Done(r) + 2) \in Nat
    <2>1. \A n \in Nat : n >= 1 => Base(n) \in Nat
      BY BaseNext
    <2>2. Done(r) + 1 \in Nat /\ Done(r) + 2 \in Nat
      BY <1>2
    <2>3. Done(r) + 1 >= 1 /\ Done(r) + 2 >= 1
      BY <1>2
    <2>4. QED
      BY <1>2, <2>1, <2>2, <2>3
  <1>5. /\ Len(got[r]) >= 1 => Flushed' >= Base(Len(got[r])) + 3 + r
        /\ rd[r].pc \in {"header", "body"} => Flushed' >= Base(Done(r) + 1) + 3 + r
        /\ rd[r].pc = "flag" /\ rd[r].written = 1
             => Done(r) + 1 > NSlots \/ Flushed' >= Base(Done(r) + 2)
    BY <1>2, <1>3, <1>4 DEF ReaderOK
  <1>6. rd[r].pc = "body" => rd[r].header = log'[Done(r) + 1]
    BY <1>2, <1>3 DEF ReaderOK
  <1>7. ReaderOK(r)'
    BY <1>1, <1>2, <1>3, <1>5, <1>6 DEF ReaderOK, SlotOf
  <1>8. QED
    BY <1>1, <1>7

\* Steps that leave memory, messages and marks alone.
LEMMA MemFrame ==
  ASSUME RingInv, mem' = mem, log' = log, Flushed' = Flushed,
         \A r \in Readers : Marked(r)' = Marked(r)
  PROVE  MemOK'
  <1>1. Sent' = Sent
    BY DEF Sent
  <1>2. \A k \in Nat : Window(k)' => MemOKAt(k)
    BY <1>1 DEF RingInv, MemOK, Window
  <1>3. \A k \in Nat : MemOKAt(k) => MemOKAt(k)'
    BY DEF MemOKAt
  <1>4. QED
    BY <1>2, <1>3 DEF MemOK

\* The writer issues store j of message k, the next one of the stream.
Issues(k, j) ==
  /\ Issued = Base(k) + j /\ Issued' = Issued + 1
  /\ wbuf' = Append(wbuf, StoreOf(k, j)')
  /\ Sent' \in Nat /\ Sent' >= Sent
  /\ \A i \in 1..Sent : log'[i] = log[i]

LEMMA BufferGrows ==
  ASSUME RingInv, NEW l \in Nat, l >= 1, NEW i \in Nat, i <= NReaders + 3, Issues(l, i)
  PROVE  BufferOK' /\ Flushed' = Flushed
  <1>1. /\ Flushed \in Nat /\ Sent \in Nat /\ Len(wbuf) \in Nat /\ Issued \in Nat
        /\ Issued = Flushed + Len(wbuf) /\ Issued <= Base(Sent + 1)
        /\ Base(Sent + 1) \in Nat /\ Base(l) \in Nat
    BY Counters, BaseNext
  <1>2. /\ Len(wbuf') = Len(wbuf) + 1 /\ wbuf'[Len(wbuf) + 1] = StoreOf(l, i)'
        /\ \A x \in 1..Len(wbuf) : wbuf'[x] = wbuf[x]
    BY DEF RingInv, RingType, Issues
  <1>3. Flushed' = Flushed /\ Len(wbuf') <= Issued'
    <2>1. Issued' = Issued + 1
      BY DEF Issues
    <2>2. Issued' - Len(wbuf') = Issued - Len(wbuf) /\ Len(wbuf') <= Issued'
      BY <1>1, <1>2, <2>1
    <2>3. QED
      BY <2>2 DEF Flushed
  <1>4. ASSUME NEW k \in Nat, k >= 1, NEW j \in Nat, j <= NReaders + 3,
               Flushed <= Base(k) + j, Base(k) + j < Issued + 1
        PROVE  wbuf'[(Base(k) + j) - Flushed + 1] = StoreOf(k, j)'
    <2>1. Base(k) \in Nat /\ NReaders \in Nat
      BY <1>4, BaseNext, Sizes
    <2>2. \/ Base(k) + j < Issued /\ (Base(k) + j) - Flushed + 1 \in 1..Len(wbuf)
          \/ Base(k) + j = Issued /\ (Base(k) + j) - Flushed + 1 = Len(wbuf) + 1
      <3>1. Base(k) + j < Issued \/ Base(k) + j = Issued
        BY <1>1, <1>4, <2>1
      <3>2. Base(k) + j < Issued => (Base(k) + j) - Flushed + 1 \in 1..Len(wbuf)
        <4>1. /\ Flushed \in Nat /\ Len(wbuf) \in Nat /\ Issued = Flushed + Len(wbuf)
              /\ Flushed <= Base(k) + j
          BY <1>1, <1>4
        <4>2. QED
          BY <2>1, <4>1
      <3>3. Base(k) + j = Issued => (Base(k) + j) - Flushed + 1 = Len(wbuf) + 1
        <4>1. Issued - Flushed + 1 = Len(wbuf) + 1
          BY <1>1
        <4>2. QED
          BY <4>1, Zenon
      <3>4. QED
        BY <3>1, <3>2, <3>3
    <2>3. CASE Base(k) + j < Issued /\ (Base(k) + j) - Flushed + 1 \in 1..Len(wbuf)
      <3>1. k <= Sent
        <4>1. Sent + 1 <= k => Base(Sent + 1) <= Base(k)
          BY <1>1, <1>4, BaseMonotone
        <4>2. QED
          BY <1>1, <1>4, <2>1, <2>3, <4>1
      <3>2. k \in 1..Sent /\ j \in 0..NReaders + 3
        BY <1>1, <1>4, <2>1, <3>1
      <3>3. wbuf[(Base(k) + j) - Flushed + 1] = StoreOf(k, j)
        BY <1>4, <2>3, <3>2 DEF RingInv, BufferOK
      <3>4. StoreOf(k, j)' = StoreOf(k, j)
        BY <3>2 DEF StoreOf, Issues
      <3>5. QED
        BY <1>2, <2>3, <3>3, <3>4
    <2>4. CASE Base(k) + j = Issued /\ (Base(k) + j) - Flushed + 1 = Len(wbuf) + 1
      <3>1. Base(k) + j = Base(l) + i
        BY <2>4 DEF Issues
      <3>2. k = l /\ j = i
        BY <1>4, <2>1, <3>1, PositionOnce
      <3>3. QED
        BY <1>2, <2>4, <3>2
    <2>5. QED
      BY <2>2, <2>3, <2>4
  <1>5. Sent' \in Nat /\ Issued' = Issued + 1 /\ NReaders \in Nat
    BY Sizes DEF Issues
  <1>6. \A k \in 1..Sent', j \in 0..NReaders + 3 :
          Flushed' <= Base(k) + j /\ Base(k) + j < Issued'
            => wbuf'[(Base(k) + j) - Flushed' + 1] = StoreOf(k, j)'
    <2>1. \A k \in 1..Sent', j \in 0..NReaders + 3 :
            k \in Nat /\ k >= 1 /\ j \in Nat /\ j <= NReaders + 3
      BY <1>5
    <2>2. QED
      BY <1>3, <1>4, <1>5, <2>1
  <1>7. QED
    BY <1>3, <1>6 DEF BufferOK, Base, Stores

-----------------------------------------------------------------------------
\* The writer.

LEMMA WriterWaits ==
  ASSUME RingInv, Enqueue \/ LoadWritten \/ CountFlag \/ SlotBusy
  PROVE  RingInv'
  <1>1. UNCHANGED <<mem, wbuf, rbuf, rd, log, got>> /\ ~Sending /\ ~Sending'
    <2>1. w \in WriterType
      BY DEF RingInv, RingType
    <2>2. CASE Enqueue
      BY <2>1, <2>2 DEF Enqueue, Sending, WriterType
    <2>3. CASE LoadWritten
      BY <2>1, <2>3 DEF LoadWritten, Sending, WriterType
    <2>4. CASE CountFlag
      BY <2>1, <2>4 DEF CountFlag, Sending, WriterType
    <2>5. CASE SlotBusy
      BY <2>1, <2>5 DEF SlotBusy, Counted, Sending, WriterType
    <2>6. QED
      BY <2>2, <2>3, <2>4, <2>5
  <1>0. w' \in WriterType /\ w'.idx = w.idx
    <2>1. w \in WriterType
      BY DEF RingInv, RingType
    <2>2. CASE Enqueue
      <3>1. w.msg + 1 \in 0..MaxSends
        <4>1. w.msg \in 0..MaxSends /\ w.msg < MaxSends
          BY <2>1, <2>2 DEF Enqueue, WriterType
        <4>2. QED
          BY <4>1, Sizes
      <3>2. QED
        BY <2>1, <2>2, <3>1 DEF Enqueue, WriterType
    <2>3. CASE LoadWritten
      <3>1. WriterLoad(0) \in 0..MaxSends + 1 /\ 0 \in 0..NReaders /\ 1 \in 1..NReaders + 1
        BY <1>1, WriterSees, Sizes
      <3>2. QED
        BY <2>1, <2>3, <3>1 DEF LoadWritten, WriterType
    <2>4. CASE CountFlag
      <3>1. /\ w.pc = "count" /\ w.k <= NReaders /\ w.count <= w.k - 1
            /\ w' = [w EXCEPT !.count = @ + WriterLoad(w.k), !.k = @ + 1]
        BY <2>4 DEF CountFlag, RingInv, WriterOK
      <3>2. w.k \in Readers /\ w.k \in Nat /\ w.count \in Nat
        BY <2>1, <3>1, Sizes DEF WriterType
      <3>3. WriterLoad(w.k) \in 0..1
        BY <1>1, <3>2, WriterSees
      <3>4. w.count + WriterLoad(w.k) \in 0..NReaders /\ w.k + 1 \in 1..NReaders + 1
        <4>1. w.k >= 1 /\ NReaders \in Nat
          BY <3>2, Sizes
        <4>2. QED
          BY <3>1, <3>2, <3>3, <4>1
      <3>5. QED
        BY <2>1, <3>1, <3>4 DEF WriterType
    <2>5. CASE SlotBusy
      BY <2>1, <2>5 DEF SlotBusy, WriterType
    <2>6. QED
      BY <2>2, <2>3, <2>4, <2>5
  <1>2. Issued' = Issued /\ Flushed' = Flushed /\ Sent' = Sent
    BY <1>1 DEF Issued, Flushed, Sent, Sending
  <1>3. \A r \in Readers : ReaderOK(r)' /\ Marked(r)' = Marked(r)
    BY <1>1, <1>2, ReaderFrame, ReaderCounters, Counters
  <1>4. RingType'
    BY <1>0, <1>1 DEF RingInv, RingType
  <1>5. BufferOK'
    BY <1>1, <1>2 DEF RingInv, BufferOK, StoreOf
  <1>6. MemOK'
    BY <1>1, <1>2, <1>3, MemFrame
  <1>7. WriterOK'
    <2>1. w'.idx = (IF Sending' THEN Sent' - 1 ELSE Sent') % NSlots
      BY <1>0, <1>1, <1>2 DEF RingInv, WriterOK
    <2>2. ASSUME w'.pc = "count"
          PROVE  /\ w'.count <= w'.k - 1
                 /\ w'.written = 0 => Sent < NSlots
                 /\ Sent >= NSlots /\ w'.count = w'.k - 1
                      => \A r \in 1..w'.k - 1 : Marked(r) + NSlots > Sent
      <3>1. w \in WriterType
        BY DEF RingInv, RingType
      <3>2. CASE LoadWritten
        <4>1. w'.written = WriterLoad(0) /\ w'.count = 0 /\ w'.k = 1
          BY <3>1, <3>2 DEF LoadWritten, WriterType
        <4>2. WriterLoad(0) = 0 => Sent < NSlots
          BY <1>1, WriterSees
        <4>3. QED
          BY <4>1, <4>2
      <3>3. CASE CountFlag
        <4>1. /\ w.pc = "count" /\ w.k <= NReaders /\ w'.written = w.written
              /\ w'.count = w.count + WriterLoad(w.k) /\ w'.k = w.k + 1
          BY <3>1, <3>3 DEF CountFlag, WriterType
        <4>2. /\ w.count <= w.k - 1 /\ (w.written = 0 => Sent < NSlots)
              /\ Sent >= NSlots /\ w.count = w.k - 1
                   => \A r \in 1..w.k - 1 : Marked(r) + NSlots > Sent
          BY <4>1 DEF RingInv, WriterOK
        <4>3. w.k \in Readers /\ w.k \in Nat /\ w.k >= 1 /\ w.count \in Nat
          BY <3>1, <4>1, Sizes DEF WriterType
        <4>4. /\ WriterLoad(w.k) \in 0..1
              /\ WriterLoad(w.k) = 1 /\ Sent >= NSlots => Marked(w.k) + NSlots > Sent
          BY <1>1, <4>3, WriterSees
        <4>5. w'.count <= w'.k - 1
          BY <4>1, <4>2, <4>3, <4>4
        <4>6. ASSUME Sent >= NSlots, w'.count = w'.k - 1, NEW r \in 1..w'.k - 1
              PROVE  Marked(r) + NSlots > Sent
          <5>1. WriterLoad(w.k) = 1 /\ w.count = w.k - 1
            BY <4>1, <4>2, <4>3, <4>4, <4>6
          <5>2. r \in 1..w.k - 1 \/ r = w.k
            BY <4>1, <4>3
          <5>3. QED
            BY <4>2, <4>4, <4>6, <5>1, <5>2
        <4>7. QED
          BY <4>1, <4>2, <4>5, <4>6
      <3>4. ~Enqueue /\ ~SlotBusy
        <4>1. ~Enqueue
          BY <2>2, <3>1 DEF Enqueue, WriterType
        <4>2. ~SlotBusy
          BY <2>2, <3>1 DEF SlotBusy, WriterType
        <4>3. QED
          BY <4>1, <4>2
      <3>5. QED
        BY <3>2, <3>3, <3>4
    <2>3. \A r \in 1..w'.k - 1 : w'.k - 1 <= NReaders => Marked(r)' = Marked(r)
      <3>1. w'.k - 1 \in Nat
        BY <1>0, Sizes DEF WriterType
      <3>2. \A r \in 1..w'.k - 1 : w'.k - 1 <= NReaders => r \in Readers
        BY <3>1, Sizes
      <3>3. QED
        BY <1>3, <3>2
    <2>4. w'.k - 1 <= NReaders
      BY <1>0, Sizes DEF WriterType
    <2>5. QED
      BY <1>1, <1>2, <2>1, <2>2, <2>3, <2>4 DEF WriterOK
  <1>8. QED
    BY <1>3, <1>4, <1>5, <1>6, <1>7 DEF RingInv

LEMMA WriterTyped ==
  ASSUME RingInv
  PROVE  /\ w \in WriterType /\ wbuf \in Seq(StoreType) /\ log \in Seq(0..MaxSends)
         /\ w.idx \in Slots /\ w.msg \in 0..MaxSends /\ w.count \in Nat
         /\ w.k \in Nat /\ w.k >= 1 /\ w.k <= NReaders + 1
  <1>1. w \in WriterType /\ wbuf \in Seq(StoreType) /\ log \in Seq(0..MaxSends)
    BY DEF RingInv, RingType
  <1>2. /\ w.idx \in Slots /\ w.msg \in 0..MaxSends
        /\ w.count \in 0..NReaders /\ w.k \in 1..NReaders + 1
    BY <1>1 DEF WriterType
  <1>3. QED
    BY <1>1, <1>2, Sizes

LEMMA StoreShapes ==
  ASSUME NEW k
  PROVE  /\ StoreOf(k, 0) = [slot |-> SlotOf(k), cell |-> 0, val |-> 0]
         /\ StoreOf(k, 1) = [slot |-> SlotOf(k), cell |-> Header, val |-> log[k]]
         /\ StoreOf(k, 2) = [slot |-> SlotOf(k), cell |-> Body, val |-> log[k]]
         /\ \A r \in Readers : StoreOf(k, r + 2) = [slot |-> SlotOf(k), cell |-> r, val |-> 0]
         /\ StoreOf(k, NReaders + 3) = [slot |-> SlotOf(k), cell |-> 0, val |-> 1]
  <1>1. /\ 0 \notin 1..2 /\ 1 \in 1..2 /\ 2 \in 1..2 /\ 0 # NReaders + 3
        /\ 1 # NReaders + 3 /\ 2 # NReaders + 3 /\ NReaders + 3 \notin 1..2
    BY Sizes
  <1>2. ASSUME NEW r \in Readers
        PROVE  /\ r + 2 \notin 1..2 /\ r + 2 # NReaders + 3 /\ (r + 2) - 2 = r
               /\ r + 2 # 0 /\ r + 2 # 1 /\ r + 2 # 2
    BY Sizes
  <1>3. \A r \in Readers : StoreOf(k, r + 2) = [slot |-> SlotOf(k), cell |-> r, val |-> 0]
    BY <1>2 DEF StoreOf
  <1>4. /\ StoreOf(k, 0) = [slot |-> SlotOf(k), cell |-> 0, val |-> 0]
        /\ StoreOf(k, NReaders + 3) = [slot |-> SlotOf(k), cell |-> 0, val |-> 1]
    BY <1>1 DEF StoreOf
  <1>5. /\ StoreOf(k, 1) = [slot |-> SlotOf(k), cell |-> Header, val |-> log[k]]
        /\ StoreOf(k, 2) = [slot |-> SlotOf(k), cell |-> Body, val |-> log[k]]
    BY <1>1 DEF StoreOf
  <1>6. QED
    BY <1>3, <1>4, <1>5

LEMMA StoreSame ==
  ASSUME log' = log, NEW k, NEW j
  PROVE  StoreOf(k, j)' = StoreOf(k, j)
  BY DEF StoreOf, SlotOf

\* What a store of the message being sent leaves to show: the writer's own part.
LEMMA Stored ==
  ASSUME RingInv, NEW n \in Nat, n = Sent, n >= 1,
         NEW j \in Nat, j <= NReaders + 3, Issues(n, j),
         UNCHANGED <<mem, rbuf, rd, log, got>>, w' \in WriterType, WriterOK',
         Len(wbuf') <= MaxBuffer
  PROVE  RingInv'
  <1>1. BufferOK' /\ Flushed' = Flushed
    BY BufferGrows, Counters
  <1>2. Sent' = Sent /\ Flushed \in Nat /\ Sent \in Nat /\ Sent \in 1..Sent
    <2>1. Sent' = Sent
      BY DEF Sent
    <2>2. Sent \in Nat /\ Flushed \in Nat
      BY Counters
    <2>3. QED
      BY <2>1, <2>2
  <1>3. \A r \in Readers : ReaderOK(r)' /\ Marked(r)' = Marked(r)
    <2> TAKE r \in Readers
    <2>1. Sent' <= Marked(r) + NSlots
      BY <1>2, ReaderCounters
    <2>2. QED
      BY <1>1, <1>2, <2>1, ReaderFrame
  <1>4. wbuf' \in Seq(StoreType)
    <2>1. StoreOf(n, j)' = StoreOf(n, j)
      BY StoreSame
    <2>2. StoreOf(n, j) \in StoreType
      <3>1. SlotOf(n) \in Slots
        BY SlotType
      <3>2. log[n] \in 0..MaxSends
        <4>1. log \in Seq(0..MaxSends) /\ n \in 1..Len(log)
          BY <1>2, WriterTyped DEF Sent
        <4>2. QED
          BY <4>1, ElementOfSeq
      <3>3. /\ 0 \in 0..NReaders + 2 /\ Header \in 0..NReaders + 2 /\ Body \in 0..NReaders + 2
            /\ j # 0 /\ j # 1 /\ j # 2 /\ j # NReaders + 3 => j - 2 \in 0..NReaders + 2
            /\ 0 \in 0..MaxSends + 1 /\ 1 \in 0..MaxSends + 1
            /\ log[n] \in 0..MaxSends + 1
        BY <3>2, Sizes
      <3>4. QED
        BY <3>1, <3>3 DEF StoreOf, StoreType, Header, Body
    <2>3. QED
      BY <2>1, <2>2, WriterTyped DEF Issues
  <1>5. RingType'
    BY <1>4 DEF RingInv, RingType
  <1>6. MemOK'
    BY <1>1, <1>3, MemFrame
  <1>7. QED
    BY <1>1, <1>3, <1>5, <1>6 DEF RingInv

\* The slot and the message the writer is on while it sends.
LEMMA Current ==
  ASSUME RingInv, Sending
  PROVE  /\ Sent \in Nat /\ Sent >= 1 /\ w.idx = SlotOf(Sent) /\ w.msg = log[Sent]
         /\ (w.idx + 1) % NSlots = Sent % NSlots
         /\ Base(Sent) \in Nat /\ Base(Sent + 1) = Base(Sent) + Stores
  <1>1. Sent \in Nat /\ Sent >= 1 /\ w.idx = (Sent - 1) % NSlots /\ w.msg = log[Sent]
    BY Counters DEF RingInv, WriterOK
  <1>2. PICK n \in Nat : Sent = n + 1
    <2>1. Sent - 1 \in Nat /\ Sent = (Sent - 1) + 1
      BY <1>1
    <2>2. QED
      BY <2>1
  <1>3. n + 1 - 1 = n
    BY <1>2
  <1>4. w.idx = n % NSlots /\ w.idx = SlotOf(Sent)
    BY <1>1, <1>2, <1>3 DEF SlotOf
  <1>5. (w.idx + 1) % NSlots = Sent % NSlots
    BY <1>2, <1>4, NextSlot
  <1>6. QED
    BY <1>1, <1>4, <1>5, BaseNext

LEMMA HeaderKeeps ==
  ASSUME RingInv, WriteHeader
  PROVE  RingInv'
  <1>0. PICK n \in Nat : n = Sent
    BY Counters
  <1>1. /\ w.pc = "header" /\ Len(wbuf) < MaxBuffer
        /\ wbuf' = Append(wbuf, [slot |-> w.idx, cell |-> Header, val |-> w.msg])
        /\ w' = [w EXCEPT !.pc = "body"] /\ UNCHANGED <<mem, rbuf, rd, log, got>>
    BY DEF WriteHeader, WriterStore
  <1>2. Sending /\ w' \in WriterType /\ w'.pc = "body" /\ w'.idx = w.idx /\ w'.msg = w.msg
    BY <1>1, WriterTyped DEF Sending, WriterType
  <1>3. Sent' = Sent /\ Sending'
    BY <1>1, <1>2 DEF Sent, Sending
  <1>4. StoreOf(n, 1)' = [slot |-> w.idx, cell |-> Header, val |-> w.msg]
    BY <1>0, <1>1, <1>2, Current, StoreShapes, StoreSame
  <1>5. Issues(n, 1)
    <2>1. Issued = Base(Sent) + 1 /\ Issued' = Base(Sent) + 2
      BY <1>1, <1>2, <1>3 DEF Issued, Base, Stores
    <2>2. Issued' = Issued + 1
      BY <1>2, <2>1, Current
    <2>3. QED
      BY <1>0, <1>1, <1>2, <1>3, <1>4, <2>1, <2>2, Current DEF Issues
  <1>6. WriterOK'
    BY <1>1, <1>2, <1>3, Current DEF RingInv, WriterOK
  <1>7. Len(wbuf') <= MaxBuffer
    BY <1>1, WriterTyped, Sizes
  <1>8. QED
    <2>1. 1 <= NReaders + 3 /\ 2 <= NReaders + 3 /\ 1 \in Nat /\ 2 \in Nat
      BY Sizes
    <2>2. QED
      BY <1>0, <1>1, <1>2, <1>5, <1>6, <1>7, <2>1, Current, Stored

LEMMA BodyKeeps ==
  ASSUME RingInv, WriteBody
  PROVE  RingInv'
  <1>0. PICK n \in Nat : n = Sent
    BY Counters
  <1>1. /\ w.pc = "body" /\ Len(wbuf) < MaxBuffer
        /\ wbuf' = Append(wbuf, [slot |-> w.idx, cell |-> Body, val |-> w.msg])
        /\ w' = [w EXCEPT !.pc = "reset", !.k = 1] /\ UNCHANGED <<mem, rbuf, rd, log, got>>
    BY DEF WriteBody, WriterStore
  <1>2. Sending /\ w' \in WriterType /\ w'.pc = "reset" /\ w'.idx = w.idx /\ w'.msg = w.msg /\ w'.k = 1
    <2>1. 1 \in 1..NReaders + 1
      BY Sizes
    <2>2. QED
      BY <1>1, <2>1, WriterTyped DEF Sending, WriterType
  <1>3. Sent' = Sent /\ Sending'
    BY <1>1, <1>2 DEF Sent, Sending
  <1>4. StoreOf(n, 2)' = [slot |-> w.idx, cell |-> Body, val |-> w.msg]
    BY <1>0, <1>1, <1>2, Current, StoreShapes, StoreSame
  <1>5. Issues(n, 2)
    <2>1. Issued = Base(Sent) + 2 /\ Issued' = Base(Sent) + 2 + 1
      BY <1>1, <1>2, <1>3 DEF Issued, Base, Stores
    <2>2. Issued' = Issued + 1
      BY <1>2, <2>1, Current
    <2>3. QED
      BY <1>0, <1>1, <1>2, <1>3, <1>4, <2>1, <2>2, Current DEF Issues
  <1>6. WriterOK'
    BY <1>1, <1>2, <1>3, Current DEF RingInv, WriterOK
  <1>7. Len(wbuf') <= MaxBuffer
    BY <1>1, WriterTyped, Sizes
  <1>8. QED
    <2>1. 1 <= NReaders + 3 /\ 2 <= NReaders + 3 /\ 1 \in Nat /\ 2 \in Nat
      BY Sizes
    <2>2. QED
      BY <1>0, <1>1, <1>2, <1>5, <1>6, <1>7, <2>1, Current, Stored

LEMMA ResetKeeps ==
  ASSUME RingInv, ResetFlag
  PROVE  RingInv'
  <1>0. PICK n \in Nat : n = Sent
    BY Counters
  <1>1. /\ w.pc = "reset" /\ w.k <= NReaders /\ Len(wbuf) < MaxBuffer
        /\ wbuf' = Append(wbuf, [slot |-> w.idx, cell |-> w.k, val |-> 0])
        /\ w' = [w EXCEPT !.k = @ + 1] /\ UNCHANGED <<mem, rbuf, rd, log, got>>
    BY DEF ResetFlag, WriterStore
  <1>2. /\ Sending /\ w' \in WriterType /\ w'.pc = "reset" /\ w'.idx = w.idx /\ w'.msg = w.msg
        /\ w.k \in Nat /\ w.k >= 1 /\ w'.k = w.k + 1
    <2>1. Sending /\ w.k \in Nat /\ w.k >= 1
      <3>1. w.k \in Nat /\ w.k >= 1
        BY WriterTyped
      <3>2. QED
        BY <1>1, <3>1 DEF Sending
    <2>2. w.k + 1 \in 1..NReaders + 1
      <3>1. NReaders \in Nat
        BY Sizes
      <3>2. QED
        BY <1>1, <2>1, <3>1
    <2>3. QED
      BY <1>1, <2>1, <2>2, WriterTyped DEF WriterType
  <1>3. Sent' = Sent /\ Sending'
    BY <1>1, <1>2 DEF Sent, Sending
  <1>4. PICK j \in Nat : j = w.k + 2
    BY <1>2
  <1>5. StoreOf(n, j)' = [slot |-> w.idx, cell |-> w.k, val |-> 0]
    <2>1. w.k \in Readers
      BY <1>1, <1>2, Sizes
    <2>2. StoreOf(n, w.k + 2) = [slot |-> w.idx, cell |-> w.k, val |-> 0]
      BY <1>0, <1>2, <2>1, Current, StoreShapes
    <2>3. QED
      BY <1>1, <1>4, <2>2, StoreSame
  <1>6. Issues(n, j)
    <2>1. Issued = Base(Sent) + 2 + w.k /\ Issued' = Base(Sent) + 2 + w'.k
      BY <1>1, <1>2, <1>3 DEF Issued, Base, Stores
    <2>2. Issued' = Issued + 1 /\ Issued = Base(Sent) + j
      BY <1>2, <1>4, <2>1, Current
    <2>3. QED
      BY <1>0, <1>1, <1>2, <1>3, <1>5, <2>2, Current DEF Issues
  <1>7. WriterOK'
    BY <1>1, <1>2, <1>3, Current DEF RingInv, WriterOK
  <1>8. Len(wbuf') <= MaxBuffer
    BY <1>1, WriterTyped, Sizes
  <1>9. j <= NReaders + 3
    <2>1. w.k <= NReaders /\ w.k \in Nat /\ NReaders \in Nat
      BY <1>1, <1>2, Sizes
    <2>2. QED
      BY <1>4, <2>1
  <1>10. QED
    BY <1>0, <1>1, <1>2, <1>4, <1>6, <1>7, <1>8, <1>9, Current, Stored

LEMMA PublishKeeps ==
  ASSUME RingInv, Publish
  PROVE  RingInv'
  <1>0. PICK n \in Nat : n = Sent
    BY Counters
  <1>1. /\ w.pc = "reset" /\ w.k > NReaders /\ Len(wbuf) < MaxBuffer
        /\ wbuf' = Append(wbuf, [slot |-> w.idx, cell |-> 0, val |-> 1])
        /\ w' = [w EXCEPT !.pc = "idle", !.idx = (@ + 1) % NSlots]
        /\ UNCHANGED <<mem, rbuf, rd, log, got>>
    BY DEF Publish, WriterStore
  <1>2. Sending /\ w.k = NReaders + 1
    <2>1. w.k \in Nat /\ w.k <= NReaders + 1 /\ NReaders \in Nat
      BY WriterTyped, Sizes
    <2>2. QED
      BY <1>1, <2>1 DEF Sending
  <1>3. w'.pc = "idle" /\ w'.idx = Sent % NSlots /\ w' \in WriterType
    <2>1. (w.idx + 1) % NSlots = Sent % NSlots /\ Sent % NSlots \in Slots
      BY <1>2, Current, NextSlot
    <2>2. QED
      BY <1>1, <2>1, WriterTyped DEF WriterType
  <1>4. Sent' = Sent /\ ~Sending'
    BY <1>1, <1>3 DEF Sent, Sending
  <1>5. PICK j \in Nat : j = NReaders + 3
    BY Sizes
  <1>6. StoreOf(n, j)' = [slot |-> w.idx, cell |-> 0, val |-> 1]
    BY <1>0, <1>1, <1>2, <1>5, Current, StoreShapes, StoreSame
  <1>7. Issues(n, j)
    <2>1. Issued = Base(Sent) + 2 + w.k /\ Issued' = Base(Sent + 1)
      BY <1>1, <1>3, <1>4 DEF Issued, Base, Stores
    <2>2. Issued' = Issued + 1 /\ Issued = Base(Sent) + j
      BY <1>2, <1>5, <2>1, Current, Sizes
    <2>3. QED
      BY <1>0, <1>1, <1>2, <1>4, <1>6, <2>2, Current DEF Issues
  <1>8. WriterOK'
    BY <1>3, <1>4 DEF WriterOK
  <1>9. Len(wbuf') <= MaxBuffer
    BY <1>1, WriterTyped, Sizes
  <1>10. j <= NReaders + 3
    BY <1>5, Sizes
  <1>11. QED
    BY <1>0, <1>1, <1>2, <1>3, <1>5, <1>7, <1>8, <1>9, <1>10, Current, Stored

LEMMA ClearKeeps ==
  ASSUME RingInv, ClearWritten
  PROVE  RingInv'
  <1>1. /\ w.pc = "count" /\ w.k > NReaders /\ (w.written = 0 \/ w.count = NReaders)
        /\ Len(wbuf) < MaxBuffer
        /\ wbuf' = Append(wbuf, [slot |-> w.idx, cell |-> 0, val |-> 0])
        /\ log' = Append(log, w.msg)
        /\ w' = [w EXCEPT !.pc = "header"] /\ UNCHANGED <<mem, rbuf, rd, got>>
    BY DEF ClearWritten, Counted, WriterStore
  <1>2. PICK n \in Nat : n = Sent + 1
    BY Counters
  <1>3. /\ ~Sending /\ Sending' /\ Sent \in Nat /\ n >= 1 /\ Sent = n - 1
        /\ w' \in WriterType /\ w'.pc = "header" /\ w'.idx = w.idx /\ w'.msg = w.msg
        /\ w.k = NReaders + 1
    <2>1. w' \in WriterType /\ w'.pc = "header" /\ w'.idx = w.idx /\ w'.msg = w.msg
      BY <1>1, WriterTyped DEF WriterType
    <2>2. ~Sending /\ Sending'
      BY <1>1, <2>1 DEF Sending
    <2>3. Sent \in Nat /\ n >= 1 /\ Sent = n - 1
      BY <1>2, Counters
    <2>4. w.k = NReaders + 1
      <3>1. w.k \in Nat /\ w.k <= NReaders + 1 /\ NReaders \in Nat
        BY WriterTyped, Sizes
      <3>2. QED
        BY <1>1, <3>1
    <2>5. QED
      BY <2>1, <2>2, <2>3, <2>4
  <1>4. /\ Sent' = n /\ \A i \in 1..Sent : log'[i] = log[i]
        /\ log'[n] = w.msg /\ log' \in Seq(0..MaxSends)
    BY <1>1, <1>2, WriterTyped DEF Sent
  \* The slot is free: every reader has marked the message before.
  <1>5. \A r \in Readers : Marked(r) \in Nat /\ n <= Marked(r) + NSlots
    <2> TAKE r \in Readers
    <2>1. Marked(r) \in Nat /\ NSlots \in Nat
      BY ReaderCounters, Sizes
    <2>2. CASE Sent < NSlots
      BY <1>2, <1>3, <2>1, <2>2
    <2>3. CASE Sent >= NSlots
      <3>1. /\ w.written = 0 => Sent < NSlots
            /\ Sent >= NSlots /\ w.count = w.k - 1
                 => \A s \in 1..w.k - 1 : Marked(s) + NSlots > Sent
        BY <1>1 DEF RingInv, WriterOK
      <3>2. w.k - 1 = NReaders /\ r \in 1..NReaders
        BY <1>3, Sizes
      <3>3. w.count = NReaders
        BY <1>1, <1>3, <2>1, <2>3, <3>1
      <3>4. Marked(r) + NSlots > Sent
        BY <2>3, <3>1, <3>2, <3>3
      <3>5. QED
        BY <1>2, <1>3, <2>1, <3>4
    <2>4. QED
      BY <1>3, <2>1, <2>2, <2>3
  <1>6. Issues(n, 0) /\ StoreOf(n, 0)' = [slot |-> w.idx, cell |-> 0, val |-> 0]
    <2>1. StoreOf(n, 0)' = [slot |-> w.idx, cell |-> 0, val |-> 0]
      <3>1. SlotOf(n) = w.idx
        BY <1>2, <1>3, NextMessage
      <3>2. 0 \notin 1..2 /\ 0 # NReaders + 3
        BY Sizes
      <3>3. QED
        BY <3>1, <3>2 DEF StoreOf, SlotOf
    <2>2. Base(n) \in Nat /\ Issued = Base(n)
      BY <1>2, <1>3, BaseNext DEF Issued, Sending
    <2>3. Issued' = Base(n) + 1
      BY <1>3, <1>4 DEF Issued, Base, Stores
    <2>4. Issued = Base(n) + 0 /\ Issued' = Issued + 1 /\ Sent' \in Nat /\ Sent' >= Sent
      BY <1>2, <1>3, <1>4, <2>2, <2>3
    <2>5. wbuf' = Append(wbuf, StoreOf(n, 0)')
      BY <1>1, <2>1
    <2>6. QED
      BY <1>4, <2>1, <2>4, <2>5 DEF Issues
  <1>7. BufferOK' /\ Flushed' = Flushed
    <2>1. 0 <= NReaders + 3
      BY Sizes
    <2>2. QED
      BY <1>3, <1>6, <2>1, BufferGrows
  <1>8. Flushed \in Nat /\ Flushed <= Base(n) /\ Base(n) \in Nat
    BY <1>2, <1>3, Counters
  <1>9. \A r \in Readers : ReaderOK(r)' /\ Marked(r)' = Marked(r)
    <2> TAKE r \in Readers
    <2>1. rd'[r] = rd[r] /\ rbuf'[r] = rbuf[r] /\ got'[r] = got[r]
      BY <1>1
    <2>2. Flushed' \in Nat /\ Flushed' >= Flushed /\ Sent' <= Marked(r) + NSlots
      BY <1>4, <1>5, <1>7, <1>8
    <2>3. QED
      BY <1>4, <2>1, <2>2, ReaderFrame
  <1>10. RingType'
    <2>1. [slot |-> w.idx, cell |-> 0, val |-> 0] \in StoreType
      <3>1. w.idx \in Slots /\ 0 \in 0..NReaders + 2 /\ 0 \in 0..MaxSends + 1
        BY WriterTyped, Sizes
      <3>2. QED
        BY <3>1 DEF StoreType
    <2>2. wbuf' \in Seq(StoreType) /\ Len(wbuf') <= MaxBuffer
      BY <1>1, <2>1, WriterTyped, Sizes
    <2>3. QED
      BY <1>1, <1>3, <1>4, <2>2 DEF RingInv, RingType
  <1>11. WriterOK'
    <2>1. w'.idx = (n - 1) % NSlots
      BY <1>2, <1>3, NextMessage DEF SlotOf
    <2>2. QED
      BY <1>3, <1>4, <2>1 DEF WriterOK
  <1>12. MemOK'
    <2>1. SUFFICES ASSUME NEW k \in Nat, Window(k)'
                   PROVE  MemOKAt(k)'
      BY DEF MemOK
    <2>2. 1 <= k /\ n < k + NSlots /\ (k <= n \/ k <= NSlots)
      BY <1>4, <2>1 DEF Window
    <2>3. CASE Window(k)
      <3>1. MemOKAt(k)
        BY <2>3 DEF RingInv, MemOK
      <3>2. k <= Sent => log'[k] = log[k]
        BY <1>3, <1>4, <2>2
      <3>3. ~(k <= Sent) => Flushed <= Base(k) /\ Base(k) \in Nat
        <4>1. ~(k <= Sent) => n <= k
          BY <1>3
        <4>2. n <= k => Base(n) <= Base(k) /\ Base(k) \in Nat
          BY <1>3, BaseMonotone
        <4>3. QED
          BY <1>8, <4>1, <4>2
      <3>4. /\ Flushed >= Base(k) + 2 => log'[k] = log[k]
            /\ Flushed >= Base(k) + 3 => log'[k] = log[k]
        BY <1>8, <3>2, <3>3
      <3>5. QED
        BY <1>1, <1>7, <1>9, <3>1, <3>4 DEF MemOKAt, SlotOf, Base, Stores
    <2>4. CASE ~Window(k)
      <3>1. k = n /\ k > NSlots
        BY <1>2, <1>3, <2>2, <2>4, Sizes DEF Window
      <3>2. PICK p \in Nat : p + NSlots = n /\ p >= 1 /\ p <= Sent
        <4>1. n - NSlots \in Nat /\ (n - NSlots) + NSlots = n /\ n - NSlots >= 1
              /\ n - NSlots <= Sent
          BY <1>2, <1>3, <3>1, Sizes
        <4>2. QED
          BY <4>1
      <3>3. Window(p) /\ SlotOf(p) = SlotOf(k)
        <4>1. SlotOf(p + NSlots) = SlotOf(p)
          BY <3>2, SameSlot
        <4>2. Sent < p + NSlots
          BY <1>3, <3>2
        <4>3. QED
          BY <3>1, <3>2, <4>1, <4>2 DEF Window
      <3>4. ASSUME NEW r \in Readers
            PROVE  mem[SlotOf(k)][r] = 1 /\ Flushed < Base(k) + 3 + r
        <4>1. Marked(r) >= p
          BY <1>5, <3>2, Sizes
        <4>2. Flushed >= Base(p) + 3 + r
          BY <3>2, <4>1, MarkedWasReset, ReaderCounters
        <4>3. mem[SlotOf(p)][r] = 1
          BY <3>2, <3>3, <4>1, <4>2 DEF RingInv, MemOK, MemOKAt
        <4>4. QED
          BY <1>8, <3>1, <3>3, <4>3, Sizes
      <3>5. Base(k + 1) = Base(k) + Stores /\ Flushed <= Base(k) /\ Base(k) \in Nat
        BY <1>3, <1>8, <3>1, BaseNext
      <3>6. /\ ~(Flushed >= Base(k) + 2) /\ ~(Flushed >= Base(k) + 3)
            /\ ~(Flushed >= Base(k + 1)) /\ ~(k <= NSlots)
            /\ \A r \in Readers : ~(Flushed >= Base(k) + 3 + r)
        BY <1>8, <3>1, <3>4, <3>5, Sizes
      <3>7. QED
        BY <1>1, <1>7, <3>1, <3>4, <3>6 DEF MemOKAt, SlotOf, Base, Stores
    <2>5. QED
      BY <2>3, <2>4
  <1>13. QED
    BY <1>7, <1>9, <1>10, <1>11, <1>12 DEF RingInv

-----------------------------------------------------------------------------
\* The store buffers drain.

Writes(s, c, v) == mem' = [mem EXCEPT ![s][c] = v]

LEMMA CellWritten ==
  ASSUME RingInv, NEW s \in Slots, NEW c \in 0..NReaders + 2, NEW v, Writes(s, c, v),
         NEW t \in Slots, NEW d \in 0..NReaders + 2
  PROVE  mem'[t][d] = IF t = s /\ d = c THEN v ELSE mem[t][d]
  <1>1. mem \in [Slots -> [0..NReaders + 2 -> 0..MaxSends + 1]]
    BY DEF RingInv, RingType
  <1>2. mem'[t] = IF t = s THEN [mem[s] EXCEPT ![c] = v] ELSE mem[t]
    BY <1>1 DEF Writes
  <1>3. [mem[s] EXCEPT ![c] = v][d] = IF d = c THEN v ELSE mem[s][d]
    BY <1>1
  <1>4. QED
    BY <1>2, <1>3

\* One more store of the stream reaches memory.
Flushes(k, j) ==
  /\ Flushed = Base(k) + j
  /\ mem' = [mem EXCEPT ![StoreOf(k, j).slot][StoreOf(k, j).cell] = StoreOf(k, j).val]
  /\ wbuf' = Tail(wbuf) /\ wbuf # << >>
  /\ UNCHANGED <<rbuf, w, rd, log, got>>

LEMMA FlushIs ==
  ASSUME RingInv, FlushWriter
  PROVE  \E k \in Nat, j \in Nat : /\ k >= 1 /\ k <= Sent /\ j <= NReaders + 3
                                   /\ Base(k) \in Nat /\ Flushes(k, j)
  <1>1. /\ wbuf # << >> /\ wbuf' = Tail(wbuf) /\ UNCHANGED <<rbuf, w, rd, log, got>>
        /\ mem' = [mem EXCEPT ![Head(wbuf).slot][Head(wbuf).cell] = Head(wbuf).val]
    BY DEF FlushWriter
  <1>2. 1 \in 1..Len(wbuf) /\ Head(wbuf) = wbuf[1]
    BY <1>1, WriterTyped
  <1>3. PICK k \in 1..Sent, j \in 0..NReaders + 3 :
          Base(k) \in Nat /\ Flushed + 1 - 1 = Base(k) + j /\ wbuf[1] = StoreOf(k, j)
    BY <1>2, Buffered
  <1>4. k \in Nat /\ k >= 1 /\ k <= Sent /\ j \in Nat /\ j <= NReaders + 3
    BY Sizes, Counters
  <1>5. Flushed = Base(k) + j
    <2>1. Flushed + 1 - 1 = Flushed
      BY Counters
    <2>2. QED
      BY <1>3, <2>1
  <1>6. QED
    BY <1>1, <1>2, <1>3, <1>4, <1>5 DEF Flushes

LEMMA FlushFrame ==
  ASSUME RingInv, NEW k \in Nat, k >= 1, k <= Sent, NEW j \in Nat, j <= NReaders + 3,
         Flushes(k, j)
  PROVE  /\ Flushed' = Flushed + 1 /\ Sent' = Sent /\ BufferOK' /\ WriterOK'
         /\ \A r \in Readers : ReaderOK(r)' /\ Marked(r)' = Marked(r)
         /\ wbuf' \in Seq(StoreType) /\ Len(wbuf') <= MaxBuffer
  <1>1. UNCHANGED <<rbuf, w, rd, log, got>>
    BY DEF Flushes
  <1>2. Sent' = Sent /\ Issued' = Issued
    BY <1>1 DEF Sent, Issued, Base, Stores
  <1>3. /\ wbuf' \in Seq(StoreType) /\ Len(wbuf) = Len(wbuf') + 1 /\ Len(wbuf') \in Nat
        /\ \A i \in 1..Len(wbuf') : wbuf'[i] = wbuf[i + 1]
    BY WriterTyped DEF Flushes
  <1>4. /\ Flushed \in Nat /\ Issued \in Nat /\ Issued = Flushed + Len(wbuf) /\ Sent \in Nat
        /\ Len(wbuf) <= MaxBuffer /\ MaxBuffer \in Nat
    BY Counters, Sizes DEF RingInv, RingType
  <1>5. Flushed' = Flushed + 1 /\ Len(wbuf') <= Issued /\ Len(wbuf') <= MaxBuffer
    <2>1. Issued - Len(wbuf') = Flushed + 1 /\ Len(wbuf') <= Issued /\ Len(wbuf') <= MaxBuffer
      BY <1>3, <1>4
    <2>2. QED
      BY <1>2, <2>1 DEF Flushed
  <1>6. \A r \in Readers : ReaderOK(r)' /\ Marked(r)' = Marked(r)
    <2> TAKE r \in Readers
    <2>1. rd'[r] = rd[r] /\ rbuf'[r] = rbuf[r] /\ got'[r] = got[r]
          /\ \A i \in 1..Sent : log'[i] = log[i]
      BY <1>1
    <2>2. Flushed' \in Nat /\ Flushed' >= Flushed /\ Sent' <= Marked(r) + NSlots
      BY <1>2, <1>4, <1>5, ReaderCounters
    <2>3. QED
      BY <2>1, <2>2, ReaderFrame
  <1>7. BufferOK'
    <2>1. ASSUME NEW m \in 1..Sent, NEW i \in 0..NReaders + 3,
                 Flushed + 1 <= Base(m) + i, Base(m) + i < Issued
          PROVE  wbuf'[(Base(m) + i) - (Flushed + 1) + 1] = StoreOf(m, i)
      <3>1. Base(m) \in Nat /\ i \in Nat /\ m \in Nat
        <4>1. i \in Nat /\ m \in Nat /\ m >= 1
          BY <1>4, Sizes
        <4>2. QED
          BY <4>1, BaseNext
      <3>2. Flushed <= Base(m) + i
        BY <1>4, <2>1, <3>1
      <3>3. wbuf[(Base(m) + i) - Flushed + 1] = StoreOf(m, i)
        BY <2>1, <3>2 DEF RingInv, BufferOK
      <3>4. (Base(m) + i) - (Flushed + 1) + 1 \in 1..Len(wbuf')
        <4>1. /\ Flushed \in Nat /\ Len(wbuf') \in Nat /\ Issued = Flushed + Len(wbuf') + 1
              /\ Flushed + 1 <= Base(m) + i /\ Base(m) + i < Issued
          BY <1>3, <1>4, <2>1
        <4>2. QED
          BY <3>1, <4>1
      <3>5. (Base(m) + i) - (Flushed + 1) + 1 + 1 = (Base(m) + i) - Flushed + 1
        BY <1>4, <3>1
      <3>6. QED
        BY <1>3, <3>3, <3>4, <3>5
    <2>2. \A m, i : StoreOf(m, i)' = StoreOf(m, i)
      BY <1>1 DEF StoreOf, SlotOf
    <2>3. QED
      BY <1>2, <1>5, <2>1, <2>2 DEF BufferOK, Base, Stores
  <1>8. WriterOK'
    <2>1. \A r \in 1..w.k - 1 : r \in Readers
      BY WriterTyped, Sizes
    <2>2. WriterOK
      BY DEF RingInv
    <2>3. QED
      BY <1>1, <1>2, <1>6, <2>1, <2>2 DEF WriterOK, Sending
  <1>9. QED
    BY <1>2, <1>3, <1>5, <1>6, <1>7, <1>8

\* What a store does to the slot of its message: the threshold it passes is its own.
LEMMA FlushOwn ==
  ASSUME RingInv, NEW k \in Nat, k >= 1, k <= Sent, NEW j \in Nat, j <= NReaders + 3,
         Flushes(k, j), Window(k)
  PROVE  MemOKAt(k)'
  <1> DEFINE F == Flushed
             B == Base(k)
             s == SlotOf(k)
             C(d) == mem'[s][d]
  <1>1. /\ B \in Nat /\ F = B + j /\ Base(k + 1) = B + Stores /\ Flushed' = F + 1 /\ s \in Slots
        /\ log' = log /\ \A r \in Readers : Marked(r)' = Marked(r)
    BY BaseNext, FlushFrame, SlotType DEF Flushes
  <1>2. MemOKAt(k)
    BY DEF RingInv, MemOK
  <1>3. ASSUME NEW c \in 0..NReaders + 2, NEW v,
               StoreOf(k, j) = [slot |-> s, cell |-> c, val |-> v]
        PROVE  \A d \in 0..NReaders + 2 : C(d) = IF d = c THEN v ELSE mem[s][d]
    <2>1. Writes(s, c, v)
      BY <1>3 DEF Flushes, Writes
    <2>2. s \in Slots
      BY <1>1
    <2> HIDE DEF s
    <2>3. \A d \in 0..NReaders + 2 : mem'[s][d] = IF d = c THEN v ELSE mem[s][d]
      BY <2>1, <2>2, CellWritten
    <2>4. QED
      BY <2>3
  <1>4. /\ 0 \in 0..NReaders + 2 /\ Header \in 0..NReaders + 2 /\ Body \in 0..NReaders + 2
        /\ Header # 0 /\ Body # 0 /\ Header # Body /\ NReaders \in Nat /\ NReaders >= 1
        /\ \A r \in Readers : /\ r \in Nat /\ r >= 1 /\ r <= NReaders /\ r # 0 /\ r # Header /\ r # Body
                              /\ r \in 0..NReaders + 2
    BY Sizes
  <1>5. /\ F >= B + 2 => mem[s][Header] = log[k]
        /\ F >= B + 3 => mem[s][Body] = log[k]
        /\ \A r \in Readers :
             mem[s][r] = IF F >= B + 3 + r THEN IF Marked(r) >= k THEN 1 ELSE 0
                         ELSE IF k > NSlots THEN 1 ELSE 0
        /\ k <= NSlots /\ F < B + Stores => mem[s][0] = 0
    BY <1>1, <1>2 DEF MemOKAt
  <1>6. SUFFICES /\ F + 1 >= B + 2 => C(Header) = log[k]
                 /\ F + 1 >= B + 3 => C(Body) = log[k]
                 /\ \A r \in Readers :
                      C(r) = IF F + 1 >= B + 3 + r THEN IF Marked(r) >= k THEN 1 ELSE 0
                             ELSE IF k > NSlots THEN 1 ELSE 0
                 /\ k <= NSlots /\ F + 1 < B + Stores => C(0) = 0
                 /\ F + 1 >= B + Stores => C(0) = 1
    BY <1>1 DEF MemOKAt, SlotOf, Base, Stores
  <1>7. Stores = NReaders + 4
    BY Sizes
  <1>8. j = 0 \/ j = 1 \/ j = 2 \/ (\E q \in Readers : j = q + 2) \/ j = NReaders + 3
    <2>1. j > 2 /\ j < NReaders + 3 => j - 2 \in Readers /\ j = (j - 2) + 2
      BY Sizes
    <2>2. j = 0 \/ j = 1 \/ j = 2 \/ (j > 2 /\ j < NReaders + 3) \/ j = NReaders + 3
      BY <1>4
    <2>3. QED
      BY <2>1, <2>2
  <1> HIDE DEF F, B, s, C
  <1>9. CASE j = 0
    <2>1. \A d \in 0..NReaders + 2 : C(d) = IF d = 0 THEN 0 ELSE mem[s][d]
      BY <1>3, <1>4, <1>9, StoreShapes DEF s
    <2>2. F = B
      BY <1>1, <1>9
    <2>3. \A r \in Readers : C(r) = mem[s][r] /\ ~(F + 1 >= B + 3 + r) /\ ~(F >= B + 3 + r)
      BY <1>1, <1>4, <2>1, <2>2
    <2>4. C(0) = 0 /\ ~(F + 1 >= B + 2) /\ ~(F + 1 >= B + 3) /\ ~(F + 1 >= B + Stores)
      BY <1>1, <1>4, <1>7, <2>1, <2>2
    <2>5. QED
      BY <1>5, <2>3, <2>4
  <1>10. CASE j = 1
    <2>1. \A d \in 0..NReaders + 2 : C(d) = IF d = Header THEN log[k] ELSE mem[s][d]
      BY <1>3, <1>4, <1>10, StoreShapes DEF s
    <2>2. F = B + 1
      BY <1>1, <1>10
    <2>3. \A r \in Readers : C(r) = mem[s][r] /\ ~(F + 1 >= B + 3 + r) /\ ~(F >= B + 3 + r)
      BY <1>1, <1>4, <2>1, <2>2
    <2>4. C(Header) = log[k] /\ C(0) = mem[s][0] /\ F < B + Stores
          /\ ~(F + 1 >= B + 3) /\ ~(F + 1 >= B + Stores)
      BY <1>1, <1>4, <1>7, <2>1, <2>2
    <2>5. QED
      BY <1>5, <2>3, <2>4
  <1>11. CASE j = 2
    <2>1. \A d \in 0..NReaders + 2 : C(d) = IF d = Body THEN log[k] ELSE mem[s][d]
      BY <1>3, <1>4, <1>11, StoreShapes DEF s
    <2>2. F = B + 2
      BY <1>1, <1>11
    <2>3. \A r \in Readers : C(r) = mem[s][r] /\ ~(F + 1 >= B + 3 + r) /\ ~(F >= B + 3 + r)
      BY <1>1, <1>4, <2>1, <2>2
    <2>4. C(Body) = log[k] /\ C(Header) = mem[s][Header] /\ C(0) = mem[s][0] /\ F < B + Stores
          /\ F >= B + 2 /\ ~(F + 1 >= B + Stores)
      BY <1>1, <1>4, <1>7, <2>1, <2>2
    <2>5. QED
      BY <1>5, <2>3, <2>4
  <1>12. ASSUME NEW q \in Readers, j = q + 2
         PROVE  /\ F + 1 >= B + 2 => C(Header) = log[k]
                /\ F + 1 >= B + 3 => C(Body) = log[k]
                /\ \A r \in Readers :
                     C(r) = IF F + 1 >= B + 3 + r THEN IF Marked(r) >= k THEN 1 ELSE 0
                            ELSE IF k > NSlots THEN 1 ELSE 0
                /\ k <= NSlots /\ F + 1 < B + Stores => C(0) = 0
                /\ F + 1 >= B + Stores => C(0) = 1
    <2>1. \A d \in 0..NReaders + 2 : C(d) = IF d = q THEN 0 ELSE mem[s][d]
      BY <1>3, <1>4, <1>12, StoreShapes DEF s
    <2>2. F = B + 2 + q /\ q \in Nat /\ q >= 1 /\ q <= NReaders
      BY <1>1, <1>4, <1>12
    <2>3. ~(Marked(q) >= k)
      <3>1. SUFFICES ASSUME Marked(q) >= k PROVE FALSE
        OBVIOUS
      <3>2. k <= Len(got[q])
        BY <3>1, ReaderCounters
      <3>3. F >= B + 3 + q
        BY <3>2, MarkedWasReset DEF F, B
      <3>4. QED
        BY <1>1, <2>2, <3>3
    <2>4. ASSUME NEW r \in Readers
          PROVE  C(r) = IF F + 1 >= B + 3 + r THEN IF Marked(r) >= k THEN 1 ELSE 0
                        ELSE IF k > NSlots THEN 1 ELSE 0
      <3>1. CASE r = q
        <4>1. C(r) = 0 /\ F + 1 >= B + 3 + r
          BY <1>1, <1>4, <2>1, <2>2, <3>1
        <4>2. QED
          BY <2>3, <3>1, <4>1
      <3>2. CASE r # q
        <4>1. C(r) = mem[s][r] /\ r \in Nat
          BY <1>4, <2>1, <3>2
        <4>2. F + 1 >= B + 3 + r <=> F >= B + 3 + r
          BY <1>1, <2>2, <3>2, <4>1
        <4>3. QED
          BY <1>5, <4>1, <4>2
      <3>3. QED
        BY <3>1, <3>2
    <2>5. C(Body) = mem[s][Body] /\ C(Header) = mem[s][Header] /\ C(0) = mem[s][0]
      BY <1>4, <2>1
    <2>6. F < B + Stores /\ F >= B + 2 /\ F >= B + 3 /\ ~(F + 1 >= B + Stores)
      BY <1>1, <1>4, <1>7, <2>2
    <2>7. QED
      BY <1>5, <2>4, <2>5, <2>6
  <1>13. CASE j = NReaders + 3
    <2>1. \A d \in 0..NReaders + 2 : C(d) = IF d = 0 THEN 1 ELSE mem[s][d]
      BY <1>3, <1>4, <1>13, StoreShapes DEF s
    <2>2. F = B + NReaders + 3
      BY <1>1, <1>4, <1>13
    <2>3. \A r \in Readers : C(r) = mem[s][r] /\ F + 1 >= B + 3 + r /\ F >= B + 3 + r
      BY <1>1, <1>4, <2>1, <2>2
    <2>4. C(Body) = mem[s][Body] /\ C(Header) = mem[s][Header] /\ C(0) = 1
      BY <1>4, <2>1
    <2>5. F >= B + 2 /\ F >= B + 3 /\ ~(F + 1 < B + Stores)
      BY <1>1, <1>4, <1>7, <2>2
    <2>6. QED
      BY <1>5, <2>3, <2>4, <2>5
  <1>14. QED
    BY <1>8, <1>9, <1>10, <1>11, <1>12, <1>13

\* No other message of the window notices.
LEMMA FlushOther ==
  ASSUME RingInv, NEW k \in Nat, k >= 1, k <= Sent, NEW j \in Nat, j <= NReaders + 3,
         Flushes(k, j), NEW l \in Nat, Window(l), l # k
  PROVE  MemOKAt(l)'
  <1> DEFINE F == Flushed
             B == Base(l)
             s == SlotOf(l)
  <1>1. l >= 1 /\ Sent < l + NSlots /\ (l <= Sent \/ l <= NSlots) /\ Sent \in Nat
        /\ NSlots \in Nat /\ NReaders \in Nat /\ Stores = NReaders + 4
    BY Counters, Sizes DEF Window
  <1>2. /\ B \in Nat /\ Base(l + 1) = B + Stores /\ F \in Nat /\ Flushed' = F + 1
        /\ s \in Slots /\ SlotOf(k) \in Slots
        /\ log' = log /\ \A r \in Readers : Marked(r)' = Marked(r)
    BY <1>1, BaseNext, Counters, FlushFrame, SlotType DEF Flushes
  <1>3. MemOKAt(l)
    BY DEF RingInv, MemOK
  \* The thresholds of l are positions of l.
  <1>4. ASSUME NEW i \in Nat, i <= NReaders + 3
        PROVE  F + 1 >= B + (i + 1) <=> F >= B + (i + 1)
    <2>1. F # B + i
      <3>1. SUFFICES ASSUME F = B + i PROVE FALSE
        OBVIOUS
      <3>2. Base(k) + j = Base(l) + i
        BY <3>1 DEF Flushes
      <3>3. i \in 0..NReaders + 3 /\ j \in 0..NReaders + 3
        BY <1>1, <1>4
      <3>4. k = l
        BY <1>1, <3>2, <3>3, PositionOnce
      <3>5. QED
        BY <3>4
    <2> HIDE DEF F, B
    <2>2. QED
      BY <1>2, <1>4, <2>1
  \* The store leaves the slot of l alone, or publishes a message of an earlier round.
  <1>5. \/ \A d \in 0..NReaders + 2 : mem'[s][d] = mem[s][d]
        \/ /\ l > NSlots
           /\ \A d \in 0..NReaders + 2 : mem'[s][d] = IF d = 0 THEN 1 ELSE mem[s][d]
    <2>1. PICK c \in 0..NReaders + 2, v \in {StoreOf(k, j).val} :
            /\ StoreOf(k, j) = [slot |-> SlotOf(k), cell |-> c, val |-> v]
            /\ j = NReaders + 3 => c = 0 /\ v = 1
      <3>1. j \notin {0, 1, 2, NReaders + 3} => j - 2 \in 0..NReaders + 2
        BY <1>1
      <3>2. 0 \in 0..NReaders + 2 /\ Header \in 0..NReaders + 2 /\ Body \in 0..NReaders + 2
            /\ NReaders + 3 \notin 1..2
        BY Sizes
      <3>3. QED
        BY <3>1, <3>2 DEF StoreOf
    <2>2. Writes(SlotOf(k), c, v)
      BY <2>1 DEF Flushes, Writes
    <2> HIDE DEF s
    <2>3. \A d \in 0..NReaders + 2 :
            mem'[s][d] = IF s = SlotOf(k) /\ d = c THEN v ELSE mem[s][d]
      BY <1>2, <2>2, CellWritten
    <2>4. CASE s # SlotOf(k)
      BY <2>3, <2>4
    <2>5. CASE s = SlotOf(k)
      <3>1. Sent >= k + NSlots
        <4>1. SUFFICES ASSUME Sent < k + NSlots PROVE FALSE
          BY <1>1
        <4>2. l < k + NSlots /\ k < l + NSlots
          BY <1>1, <4>1
        <4>3. QED
          BY <1>1, <2>5, <4>2, SlotsApart DEF s
      <3>2. j = NReaders + 3
        <4>1. NReaders \in Readers
          BY Sizes
        <4>2. k <= Len(got[NReaders])
          BY <1>1, <3>1, <4>1, ReaderCounters
        <4>3. Flushed >= Base(k) + 3 + NReaders
          BY <4>1, <4>2, MarkedWasReset
        <4>4. Flushed = Base(k) + j /\ Base(k) \in Nat
          BY BaseNext DEF Flushes
        <4>5. QED
          BY <1>1, <4>3, <4>4
      <3>3. l > NSlots
        <4>1. SUFFICES ASSUME l <= NSlots PROVE FALSE
          BY <1>1
        <4>2. l < k + NSlots /\ k < l + NSlots
          BY <1>1, <3>1, <4>1
        <4>3. QED
          BY <1>1, <2>5, <4>2, SlotsApart DEF s
      <3>4. QED
        BY <2>1, <2>3, <2>5, <3>2, <3>3
    <2>6. QED
      BY <2>4, <2>5
  <1>6. /\ 0 \in 0..NReaders + 2 /\ Header \in 0..NReaders + 2 /\ Body \in 0..NReaders + 2
        /\ Header # 0 /\ Body # 0
        /\ \A r \in Readers : r \in Nat /\ r >= 1 /\ r <= NReaders /\ r # 0 /\ r \in 0..NReaders + 2
    BY Sizes
  <1>7. /\ F + 1 >= B + 2 <=> F >= B + 2
        /\ F + 1 >= B + 3 <=> F >= B + 3
        /\ F + 1 >= B + Stores <=> F >= B + Stores
        /\ F + 1 < B + Stores <=> F < B + Stores
    <2>1. F + 1 >= B + (1 + 1) <=> F >= B + (1 + 1)
      BY <1>1, <1>4
    <2>2. F + 1 >= B + (2 + 1) <=> F >= B + (2 + 1)
      BY <1>1, <1>4
    <2>3. F + 1 >= B + (NReaders + 3 + 1) <=> F >= B + (NReaders + 3 + 1)
      BY <1>1, <1>4
    <2> HIDE DEF F, B
    <2>4. QED
      BY <1>1, <1>2, <2>1, <2>2, <2>3
  <1>8. ASSUME NEW r \in Readers
        PROVE  F + 1 >= B + 3 + r <=> F >= B + 3 + r
    <2>1. r + 2 \in Nat /\ r + 2 <= NReaders + 3 /\ r \in Nat
      BY <1>1, <1>6
    <2>2. F + 1 >= B + (r + 2 + 1) <=> F >= B + (r + 2 + 1)
      BY <1>4, <2>1
    <2> HIDE DEF F, B
    <2>3. QED
      BY <1>2, <2>1, <2>2
  <1>9. /\ F >= B + 2 => mem[s][Header] = log[l]
        /\ F >= B + 3 => mem[s][Body] = log[l]
        /\ \A r \in Readers :
             mem[s][r] = IF F >= B + 3 + r THEN IF Marked(r) >= l THEN 1 ELSE 0
                         ELSE IF l > NSlots THEN 1 ELSE 0
        /\ l <= NSlots /\ F < B + Stores => mem[s][0] = 0
        /\ F >= B + Stores => mem[s][0] = 1
    BY <1>2, <1>3 DEF MemOKAt
  <1>10. SUFFICES /\ F + 1 >= B + 2 => mem'[s][Header] = log[l]
                  /\ F + 1 >= B + 3 => mem'[s][Body] = log[l]
                  /\ \A r \in Readers :
                       mem'[s][r] = IF F + 1 >= B + 3 + r THEN IF Marked(r) >= l THEN 1 ELSE 0
                                    ELSE IF l > NSlots THEN 1 ELSE 0
                  /\ l <= NSlots /\ F + 1 < B + Stores => mem'[s][0] = 0
                  /\ F + 1 >= B + Stores => mem'[s][0] = 1
    BY <1>2 DEF MemOKAt, SlotOf, Base, Stores
  <1> HIDE DEF F, B, s
  <1>11. /\ mem'[s][Header] = mem[s][Header] /\ mem'[s][Body] = mem[s][Body]
         /\ \A r \in Readers : mem'[s][r] = mem[s][r]
         /\ mem'[s][0] = mem[s][0] \/ (l > NSlots /\ mem'[s][0] = 1)
    BY <1>5, <1>6
  <1>12. ~(l > NSlots /\ l <= NSlots)
    BY <1>1
  <1>13. QED
    BY <1>7, <1>8, <1>9, <1>11, <1>12

LEMMA FlushWriterKeeps ==
  ASSUME RingInv, FlushWriter
  PROVE  RingInv'
  <1>1. PICK k \in Nat, j \in Nat : /\ k >= 1 /\ k <= Sent /\ j <= NReaders + 3
                                    /\ Base(k) \in Nat /\ Flushes(k, j)
    BY FlushIs
  <1>2. /\ Sent' = Sent /\ BufferOK' /\ WriterOK'
        /\ \A r \in Readers : ReaderOK(r)'
        /\ wbuf' \in Seq(StoreType) /\ Len(wbuf') <= MaxBuffer
    BY <1>1, FlushFrame
  <1>3. MemOK'
    <2>1. SUFFICES ASSUME NEW l \in Nat, Window(l)'
                   PROVE  MemOKAt(l)'
      BY DEF MemOK
    <2>2. Window(l)
      BY <1>2, <2>1 DEF Window
    <2>3. QED
      BY <1>1, <2>2, FlushOwn, FlushOther
  <1>4. RingType'
    <2>1. PICK c \in 0..NReaders + 2, v \in 0..MaxSends + 1 :
            /\ StoreOf(k, j) = [slot |-> SlotOf(k), cell |-> c, val |-> v]
            /\ c \in 0..NReaders => v \in 0..1
      <3>1. log[k] \in 0..MaxSends + 1
        <4>1. log \in Seq(0..MaxSends) /\ k \in 1..Len(log)
          BY <1>1, WriterTyped, Counters DEF Sent
        <4>2. log[k] \in 0..MaxSends
          BY <4>1, ElementOfSeq
        <4>3. QED
          BY <4>2, Sizes
      <3>2. j \notin {0, 1, 2, NReaders + 3} => j - 2 \in 0..NReaders + 2
        BY <1>1, Sizes
      <3>3. 0 \in 0..NReaders + 2 /\ Header \in 0..NReaders + 2 /\ Body \in 0..NReaders + 2
            /\ NReaders + 3 \notin 1..2 /\ Header \notin 0..NReaders /\ Body \notin 0..NReaders
            /\ 0 \in 0..MaxSends + 1 /\ 1 \in 0..MaxSends + 1 /\ 0 \in 0..1 /\ 1 \in 0..1
        BY Sizes
      <3>4. j \in 1..2 <=> j = 1 \/ j = 2
        OBVIOUS
      <3>5. QED
        BY <3>1, <3>2, <3>3, <3>4 DEF StoreOf
    <2>2. Writes(SlotOf(k), c, v) /\ UNCHANGED <<rbuf, w, rd, log, got>>
      BY <1>1, <2>1 DEF Flushes, Writes
    <2>3. SlotOf(k) \in Slots
      BY <1>1, SlotType
    <2>4. mem' \in [Slots -> [0..NReaders + 2 -> 0..MaxSends + 1]]
      BY <2>2, <2>3 DEF RingInv, RingType, Writes
    <2>5. \A t \in Slots, d \in 0..NReaders + 2 :
            mem'[t][d] = IF t = SlotOf(k) /\ d = c THEN v ELSE mem[t][d]
      BY <2>2, <2>3, CellWritten
    <2>6. \A d \in 0..NReaders : d \in 0..NReaders + 2
      BY Sizes
    <2>7. \A t \in Slots, d \in 0..NReaders : mem[t][d] \in 0..1
      BY DEF RingInv, RingType
    <2>8. \A t \in Slots, d \in 0..NReaders : mem'[t][d] \in 0..1
      BY <2>1, <2>5, <2>6, <2>7
    <2>9. QED
      BY <1>2, <2>2, <2>4, <2>8 DEF RingInv, RingType
  <1>5. QED
    BY <1>2, <1>3, <1>4 DEF RingInv

LEMMA ReaderTyped ==
  ASSUME RingInv, NEW r \in Readers
  PROVE  /\ rd[r] \in ReaderType /\ rbuf[r] \in Seq(Slots) /\ rd[r].idx \in Slots
         /\ rd[r].written \in 0..1 /\ rd[r].header \in 0..MaxSends + 1
         /\ got[r] \in Seq((0..MaxSends + 1) \X (0..MaxSends + 1))
         /\ \A c \in 0..NReaders + 2 : mem[rd[r].idx][c] \in 0..MaxSends + 1
         /\ \A c \in 0..NReaders : mem[rd[r].idx][c] \in 0..1
  <1>1. /\ rd[r] \in ReaderType /\ rbuf[r] \in Seq(Slots)
        /\ got[r] \in Seq((0..MaxSends + 1) \X (0..MaxSends + 1))
    BY DEF RingInv, RingType
  <1>2. rd[r].idx \in Slots /\ rd[r].written \in 0..1 /\ rd[r].header \in 0..MaxSends + 1
    BY <1>1 DEF ReaderType
  <1>3. /\ \A c \in 0..NReaders + 2 : mem[rd[r].idx][c] \in 0..MaxSends + 1
        /\ \A c \in 0..NReaders : mem[rd[r].idx][c] \in 0..1
    BY <1>2 DEF RingInv, RingType
  <1>4. QED
    BY <1>1, <1>2, <1>3

\* The message reader r is on, and the slot it looks at.
LEMMA OnMessage ==
  ASSUME RingInv, NEW r \in Readers
  PROVE  \E k \in Nat : /\ k >= 1 /\ k = Done(r) + 1 /\ rd[r].idx = SlotOf(k)
                        /\ Sent < k + NSlots /\ (k <= Sent \/ k <= NSlots => Window(k))
                        /\ Base(k) \in Nat /\ Base(k + 1) = Base(k) + Stores
                        /\ Base(Done(r) + 2) = Base(k + 1)
                        /\ (rd[r].idx + 1) % NSlots = (Done(r) + 1) % NSlots
                        /\ (rd[r].idx + 1) % NSlots \in Slots
  <1>1. /\ Done(r) \in Nat /\ Marked(r) \in Nat /\ Marked(r) <= Done(r) /\ Sent \in Nat
        /\ Sent <= Marked(r) + NSlots /\ NSlots \in Nat
    <2>1. /\ Done(r) \in Nat /\ Marked(r) \in Nat /\ Len(rbuf[r]) \in Nat
          /\ Done(r) = Marked(r) + Len(rbuf[r]) /\ Sent <= Marked(r) + NSlots
      BY ReaderCounters
    <2>2. Marked(r) <= Done(r)
      BY <2>1
    <2>3. QED
      BY <2>1, <2>2, Counters, Sizes
  <1>2. PICK n \in Nat : n = Done(r)
    BY <1>1
  <1>3. /\ rd[r].idx = n % NSlots
    BY <1>2 DEF RingInv, ReaderOK
  <1>4. /\ n % NSlots = SlotOf(n + 1) /\ ((n % NSlots) + 1) % NSlots = (n + 1) % NSlots
        /\ (n + 1) % NSlots \in Slots
    BY NextSlot
  <1>5. Sent < (n + 1) + NSlots
    BY <1>1, <1>2
  <1>6. n + 1 \in Nat /\ n + 1 >= 1 /\ n + 2 = (n + 1) + 1
    OBVIOUS
  <1>7. /\ Base(n + 1) \in Nat /\ Base((n + 1) + 1) = Base(n + 1) + Stores
        /\ Base(n + 2) = Base((n + 1) + 1)
    BY <1>6, BaseNext
  <1>8. n + 1 <= Sent \/ n + 1 <= NSlots => Window(n + 1)
    BY <1>5, <1>6 DEF Window
  <1>9. QED
    BY <1>2, <1>3, <1>4, <1>5, <1>6, <1>7, <1>8

\* A step of reader r that leaves its marks alone.
LEMMA ReaderMoves ==
  ASSUME RingInv, NEW r \in Readers, UNCHANGED <<mem, wbuf, w, log>>,
         \A q \in Readers \ {r} : rd'[q] = rd[q] /\ rbuf'[q] = rbuf[q] /\ got'[q] = got[q],
         rd' \in [Readers -> ReaderType], rbuf' \in [Readers -> Seq(Slots)],
         got' \in [Readers -> Seq((0..MaxSends + 1) \X (0..MaxSends + 1))],
         ReaderOK(r)', Marked(r)' = Marked(r)
  PROVE  RingInv'
  <1>1. Sent' = Sent /\ Issued' = Issued /\ Flushed' = Flushed /\ Flushed \in Nat
    BY Counters DEF Sent, Issued, Flushed, Base, Stores
  <1>2. \A q \in Readers : ReaderOK(q)' /\ Marked(q)' = Marked(q)
    <2> TAKE q \in Readers
    <2>1. CASE q = r
      BY <2>1
    <2>2. CASE q # r
      <3>1. rd'[q] = rd[q] /\ rbuf'[q] = rbuf[q] /\ got'[q] = got[q]
        BY <2>2
      <3>2. Flushed' \in Nat /\ Flushed' >= Flushed /\ Sent' <= Marked(q) + NSlots
            /\ \A k \in 1..Sent : log'[k] = log[k]
        BY <1>1, ReaderCounters
      <3>3. QED
        BY <3>1, <3>2, ReaderFrame
    <2>3. QED
      BY <2>1, <2>2
  <1>3. MemOK'
    BY <1>1, <1>2, MemFrame
  <1>4. WriterOK'
    <2>1. \A q \in 1..w.k - 1 : q \in Readers
      BY WriterTyped, Sizes
    <2>2. WriterOK
      BY DEF RingInv
    <2>3. QED
      BY <1>1, <1>2, <2>1, <2>2 DEF WriterOK, Sending
  <1>5. BufferOK'
    BY <1>1 DEF RingInv, BufferOK, StoreOf, Base, Stores, SlotOf
  <1>6. RingType'
    BY DEF RingInv, RingType
  <1>7. QED
    BY <1>2, <1>3, <1>4, <1>5, <1>6 DEF RingInv

\* Steps that only move reader r on, to pc.
LEMMA ReaderGoes ==
  ASSUME RingInv, NEW r \in Readers, UNCHANGED <<mem, wbuf, rbuf, w, log, got>>,
         NEW x \in ReaderType, rd' = [rd EXCEPT ![r] = x],
         rd[r].pc # "mark", x.pc # "mark", x.idx = rd[r].idx,
         x.pc \in {"header", "body"} => Flushed >= Base(Done(r) + 1) + 3 + r,
         x.pc = "body" => x.header = log[Done(r) + 1],
         x.pc = "flag" /\ x.written = 1 => Done(r) + 1 > NSlots \/ Flushed >= Base(Done(r) + 2)
  PROVE  RingInv'
  <1>1. rd'[r] = x /\ rd' \in [Readers -> ReaderType]
        /\ \A q \in Readers \ {r} : rd'[q] = rd[q]
    BY DEF RingInv, RingType
  <1>2. Done(r)' = Done(r) /\ Marked(r)' = Marked(r)
    BY <1>1 DEF Done, Marked
  <1>3. Sent' = Sent /\ Flushed' = Flushed
    BY DEF Sent, Flushed, Issued, Base, Stores
  <1>4. ReaderOK(r)'
    BY <1>1, <1>2, <1>3 DEF RingInv, ReaderOK, SlotOf, Base, Stores
  <1>5. /\ rbuf' \in [Readers -> Seq(Slots)]
        /\ got' \in [Readers -> Seq((0..MaxSends + 1) \X (0..MaxSends + 1))]
    BY DEF RingInv, RingType
  <1>6. QED
    BY <1>1, <1>2, <1>4, <1>5, ReaderMoves

LEMMA DequeueKeeps ==
  ASSUME RingInv, NEW r \in Readers, Dequeue(r)
  PROVE  RingInv'
  <1>1. rd[r].pc = "idle" /\ UNCHANGED <<mem, wbuf, rbuf, w, log, got>>
        /\ rd' = [rd EXCEPT ![r] = [rd[r] EXCEPT !.pc = "written"]]
    BY DEF Dequeue, Goto
  <1>2. PICK x \in ReaderType : x = [rd[r] EXCEPT !.pc = "written"]
    BY ReaderTyped DEF ReaderType
  <1>3. x.pc = "written" /\ x.idx = rd[r].idx
    BY <1>2, ReaderTyped DEF ReaderType
  <1>4. QED
    BY <1>1, <1>2, <1>3, ReaderGoes

LEMMA ReadWrittenKeeps ==
  ASSUME RingInv, NEW r \in Readers, ReadWritten(r)
  PROVE  RingInv'
  <1>1. rd[r].pc = "written" /\ UNCHANGED <<mem, wbuf, rbuf, w, log, got>>
        /\ rd' = [rd EXCEPT ![r] = [rd[r] EXCEPT !.pc = "flag", !.written = mem[rd[r].idx][0]]]
    BY DEF ReadWritten
  <1>2. mem[rd[r].idx][0] \in 0..1
    BY ReaderTyped, Sizes
  <1>3. PICK x \in ReaderType :
          x = [rd[r] EXCEPT !.pc = "flag", !.written = mem[rd[r].idx][0]]
    BY <1>2, ReaderTyped DEF ReaderType
  <1>4. x.pc = "flag" /\ x.idx = rd[r].idx /\ x.written = mem[rd[r].idx][0]
    BY <1>3, ReaderTyped DEF ReaderType
  <1>5. mem[rd[r].idx][0] = 1 => Done(r) + 1 > NSlots \/ Flushed >= Base(Done(r) + 2)
    <2>1. PICK k \in Nat : /\ k >= 1 /\ k = Done(r) + 1 /\ rd[r].idx = SlotOf(k)
                           /\ (k <= Sent \/ k <= NSlots => Window(k))
                           /\ Base(k) \in Nat /\ Base(k + 1) = Base(k) + Stores
                           /\ Base(Done(r) + 2) = Base(k + 1)
      BY OnMessage
    <2>2. CASE k <= NSlots
      <3>1. Flushed < Base(k + 1) => mem[rd[r].idx][0] = 0
        BY <2>1, <2>2 DEF RingInv, MemOK, MemOKAt
      <3>2. Flushed < Base(k + 1) \/ Flushed >= Base(k + 1)
        <4>1. Flushed \in Nat /\ Base(k + 1) \in Nat
          <5>1. Flushed \in Nat /\ Stores \in Nat
            BY Counters, Sizes
          <5>2. QED
            BY <2>1, <5>1
        <4>2. QED
          BY <4>1
      <3>3. QED
        BY <2>1, <3>1, <3>2
    <2>3. CASE ~(k <= NSlots)
      BY <2>1, <2>3, Sizes
    <2>4. QED
      BY <2>2, <2>3
  <1>6. QED
    BY <1>1, <1>3, <1>4, <1>5, ReaderGoes

LEMMA SlotEmptyKeeps ==
  ASSUME RingInv, NEW r \in Readers, SlotEmpty(r)
  PROVE  RingInv'
  <1>1. rd[r].pc = "flag" /\ UNCHANGED <<mem, wbuf, rbuf, w, log, got>>
    BY DEF SlotEmpty
  <1>2. PICK pc \in {"written", "idle"} : rd' = [rd EXCEPT ![r] = [rd[r] EXCEPT !.pc = pc]]
    BY DEF SlotEmpty, Goto
  <1>3. PICK x \in ReaderType : x = [rd[r] EXCEPT !.pc = pc]
    BY ReaderTyped DEF ReaderType
  <1>4. x.pc \in {"written", "idle"} /\ x.idx = rd[r].idx
    BY <1>3, ReaderTyped DEF ReaderType
  <1>5. QED
    BY <1>1, <1>2, <1>3, <1>4, ReaderGoes

\* A reader that finds its slot ready finds a message there it has not read.
LEMMA ReadyIsReset ==
  ASSUME RingInv, NEW r \in Readers, SlotReady(r)
  PROVE  Flushed >= Base(Done(r) + 1) + 3 + r
  <1>1. /\ rd[r].pc = "flag" /\ rd[r].written = 1
        /\ rd[r].idx \notin Range(rbuf[r]) /\ mem[rd[r].idx][r] # 1
    BY DEF SlotReady, AlreadyRead
  <1>2. PICK k \in Nat : /\ k >= 1 /\ k = Done(r) + 1 /\ rd[r].idx = SlotOf(k)
                         /\ Sent < k + NSlots /\ (k <= Sent \/ k <= NSlots => Window(k))
                         /\ Base(k) \in Nat /\ Base(k + 1) = Base(k) + Stores
                         /\ Base(Done(r) + 2) = Base(k + 1)
    BY OnMessage
  <1>3. /\ Done(r) \in Nat /\ Marked(r) \in Nat /\ Len(rbuf[r]) \in Nat /\ Sent \in Nat
        /\ Done(r) = Marked(r) + Len(rbuf[r]) /\ Done(r) <= Len(got[r]) /\ Len(got[r]) <= Sent
        /\ r \in Nat /\ r >= 1 /\ r <= NReaders /\ Flushed \in Nat
        /\ NSlots \in Nat /\ NReaders \in Nat /\ Stores = NReaders + 4 /\ Len(got[r]) \in Nat
    BY ReaderCounters, Counters, Sizes
  <1>4. CASE k <= NSlots
    <2>1. Flushed >= Base(k + 1)
      <3>1. Done(r) + 1 > NSlots \/ Flushed >= Base(Done(r) + 2)
        BY <1>1 DEF RingInv, ReaderOK
      <3>2. QED
        BY <1>2, <1>3, <1>4, <3>1
    <2>2. Flushed >= Base(k) + 3 + r
      BY <1>2, <1>3, <2>1
    <2>3. QED
      BY <1>2, <2>2
  <1>5. CASE k > NSlots /\ k <= Sent
    <2>1. mem[SlotOf(k)][r] = IF Flushed >= Base(k) + 3 + r
                              THEN IF Marked(r) >= k THEN 1 ELSE 0
                              ELSE IF k > NSlots THEN 1 ELSE 0
      BY <1>2, <1>5 DEF RingInv, MemOK, MemOKAt
    <2>2. Flushed >= Base(k) + 3 + r
      BY <1>1, <1>2, <1>5, <2>1
    <2>3. QED
      BY <1>2, <2>2
  <1>6. CASE k > NSlots /\ k > Sent
    <2>1. PICK p \in Nat : p + NSlots = k /\ p >= 1 /\ p <= Done(r)
      <3>1. k - NSlots \in Nat /\ (k - NSlots) + NSlots = k /\ k - NSlots >= 1
            /\ k - NSlots <= Done(r)
        <4>1. k \in Nat /\ NSlots \in Nat /\ NSlots >= 1 /\ k > NSlots /\ k = Done(r) + 1
              /\ Done(r) \in Nat
          BY <1>2, <1>3, <1>6, Sizes
        <4>2. QED
          BY <4>1
      <3>2. QED
        BY <3>1
    <2>2. SlotOf(p) = rd[r].idx
      BY <1>2, <2>1, SameSlot
    <2>3. CASE p > Marked(r)
      <3>1. PICK i \in Nat : p = Marked(r) + i /\ i >= 1 /\ i <= Len(rbuf[r])
        <4>1. p - Marked(r) \in Nat /\ p = Marked(r) + (p - Marked(r)) /\ p - Marked(r) >= 1
              /\ p - Marked(r) <= Len(rbuf[r])
          BY <1>3, <2>1, <2>3
        <4>2. QED
          BY <4>1
      <3>2. i \in 1..Len(rbuf[r]) /\ rbuf[r][i] = SlotOf(p)
        BY <1>3, <3>1 DEF RingInv, ReaderOK
      <3>3. rd[r].idx \in Range(rbuf[r])
        <4>1. rbuf[r] \in Seq(Slots)
          BY ReaderTyped
        <4>2. QED
          BY <2>2, <3>2, <4>1 DEF Range
      <3>4. QED
        BY <1>1, <3>3
    <2>4. CASE p <= Marked(r)
      <3>1. Flushed >= Base(p) + 3 + r
        BY <1>3, <2>1, MarkedWasReset
      <3>2. Window(p)
        <4>1. Sent < p + NSlots /\ p <= Sent
          <5>1. k > Sent /\ k = p + NSlots /\ Done(r) <= Sent
            BY <1>3, <1>6, <2>1
          <5>2. QED
            BY <1>3, <2>1, <5>1
        <4>2. QED
          BY <2>1, <4>1 DEF Window
      <3>3. mem[SlotOf(p)][r] = 1
        BY <2>4, <3>1, <3>2 DEF RingInv, MemOK, MemOKAt
      <3>4. QED
        BY <1>1, <2>2, <3>3
    <2>5. QED
      BY <1>3, <2>1, <2>3, <2>4
  <1>7. k <= NSlots \/ (k > NSlots /\ k <= Sent) \/ (k > NSlots /\ k > Sent)
    <2>1. k \in Nat /\ NSlots \in Nat /\ Sent \in Nat
      BY <1>3
    <2>2. QED
      BY <2>1
  <1>8. QED
    BY <1>4, <1>5, <1>6, <1>7

LEMMA SlotReadyKeeps ==
  ASSUME RingInv, NEW r \in Readers, SlotReady(r)
  PROVE  RingInv'
  <1>1. rd[r].pc = "flag" /\ UNCHANGED <<mem, wbuf, rbuf, w, log, got>>
        /\ rd' = [rd EXCEPT ![r] = [rd[r] EXCEPT !.pc = "header"]]
    BY DEF SlotReady, Goto
  <1>2. PICK x \in ReaderType : x = [rd[r] EXCEPT !.pc = "header"]
    BY ReaderTyped DEF ReaderType
  <1>3. x.pc = "header" /\ x.idx = rd[r].idx
    BY <1>2, ReaderTyped DEF ReaderType
  <1>4. Flushed >= Base(Done(r) + 1) + 3 + r
    BY ReadyIsReset
  <1>5. QED
    BY <1>1, <1>2, <1>3, <1>4, ReaderGoes

\* A reader at its message reads what was sent.
LEMMA ReadsMessage ==
  ASSUME RingInv, NEW r \in Readers, rd[r].pc \in {"header", "body"}
  PROVE  /\ mem[rd[r].idx][Header] = log[Done(r) + 1]
         /\ mem[rd[r].idx][Body] = log[Done(r) + 1]
  <1>1. PICK k \in Nat : /\ k >= 1 /\ k = Done(r) + 1 /\ rd[r].idx = SlotOf(k)
                         /\ (k <= Sent \/ k <= NSlots => Window(k)) /\ Base(k) \in Nat
    BY OnMessage
  <1>2. Flushed >= Base(k) + 3 + r /\ k <= Sent /\ Flushed \in Nat /\ r \in Nat
    BY <1>1, ReaderCounters, Counters
  <1>3. Flushed >= Base(k) + 2 /\ Flushed >= Base(k) + 3
    BY <1>1, <1>2
  <1>4. QED
    BY <1>1, <1>2, <1>3 DEF RingInv, MemOK, MemOKAt

LEMMA ReadHeaderKeeps ==
  ASSUME RingInv, NEW r \in Readers, ReadHeader(r)
  PROVE  RingInv'
  <1>1. rd[r].pc = "header" /\ UNCHANGED <<mem, wbuf, rbuf, w, log, got>>
        /\ rd' = [rd EXCEPT ![r] = [rd[r] EXCEPT !.pc = "body", !.header = mem[rd[r].idx][Header]]]
    BY DEF ReadHeader
  <1>2. mem[rd[r].idx][Header] \in 0..MaxSends + 1 /\ mem[rd[r].idx][Header] = log[Done(r) + 1]
    <2>1. Header \in 0..NReaders + 2
      BY Sizes
    <2>2. QED
      BY <1>1, <2>1, ReaderTyped, ReadsMessage
  <1>3. PICK x \in ReaderType :
          x = [rd[r] EXCEPT !.pc = "body", !.header = mem[rd[r].idx][Header]]
    BY <1>2, ReaderTyped DEF ReaderType
  <1>4. x.pc = "body" /\ x.idx = rd[r].idx /\ x.header = log[Done(r) + 1]
    BY <1>2, <1>3, ReaderTyped DEF ReaderType
  <1>5. Flushed >= Base(Done(r) + 1) + 3 + r
    BY <1>1, ReaderCounters
  <1>6. QED
    BY <1>1, <1>3, <1>4, <1>5, ReaderGoes

LEMMA ReadBodyKeeps ==
  ASSUME RingInv, NEW r \in Readers, ReadBody(r)
  PROVE  RingInv'
  <1> DEFINE chunk == <<rd[r].header, mem[rd[r].idx][Body]>>
  <1>1. /\ rd[r].pc = "body" /\ UNCHANGED <<mem, wbuf, rbuf, w, log>>
        /\ got' = [got EXCEPT ![r] = Append(got[r], chunk)]
        /\ rd' = [rd EXCEPT ![r] = [rd[r] EXCEPT !.pc = "mark"]]
    BY DEF ReadBody, Goto
  <1>2. chunk \in (0..MaxSends + 1) \X (0..MaxSends + 1)
    <2>1. Body \in 0..NReaders + 2
      BY Sizes
    <2>2. rd[r].header \in 0..MaxSends + 1 /\ mem[rd[r].idx][Body] \in 0..MaxSends + 1
      BY <2>1, ReaderTyped
    <2>3. QED
      BY <2>2
  <1> HIDE DEF chunk
  <1>3. [rd[r] EXCEPT !.pc = "mark"] \in ReaderType
    BY ReaderTyped DEF ReaderType
  <1>4. /\ rd' \in [Readers -> ReaderType] /\ rbuf' \in [Readers -> Seq(Slots)]
        /\ rd'[r].pc = "mark" /\ rd'[r].idx = rd[r].idx /\ rbuf'[r] = rbuf[r]
        /\ \A q \in Readers \ {r} : rd'[q] = rd[q] /\ rbuf'[q] = rbuf[q]
    BY <1>1, <1>3, ReaderTyped DEF RingInv, RingType, ReaderType
  <1>5. /\ got' \in [Readers -> Seq((0..MaxSends + 1) \X (0..MaxSends + 1))]
        /\ Len(got'[r]) = Len(got[r]) + 1 /\ Len(got[r]) \in Nat
        /\ \A q \in Readers \ {r} : got'[q] = got[q]
    BY <1>1, <1>2, ReaderTyped DEF RingInv, RingType
  <1>6. Done(r) = Len(got[r]) /\ Done(r)' = Done(r) /\ Marked(r)' = Marked(r)
    <2>1. Done(r) = Len(got[r])
      BY <1>1 DEF Done
    <2>2. Done(r)' = Len(got'[r]) - 1
      BY <1>4 DEF Done
    <2>3. Done(r)' = Done(r)
      BY <1>5, <2>1, <2>2
    <2>4. QED
      BY <1>4, <2>1, <2>3 DEF Marked
  <1>7. Sent' = Sent /\ Flushed' = Flushed
    BY <1>1 DEF Sent, Flushed, Issued, Base, Stores
  <1>8. ReaderOK(r)'
    <2>1. ReaderOK(r) /\ Flushed >= Base(Done(r) + 1) + 3 + r
      BY <1>1 DEF RingInv, ReaderOK
    <2>2. Len(got'[r]) >= 1 /\ Len(got'[r]) = Done(r) + 1
      BY <1>5, <1>6
    <2>3. Flushed' >= Base(Len(got'[r])) + 3 + r
      BY <1>7, <2>1, <2>2
    <2>4. QED
      BY <1>4, <1>6, <1>7, <2>1, <2>2, <2>3 DEF ReaderOK, SlotOf, Base, Stores
  <1>9. QED
    BY <1>1, <1>4, <1>5, <1>6, <1>8, ReaderMoves

LEMMA MarkReadKeeps ==
  ASSUME RingInv, NEW r \in Readers, MarkRead(r)
  PROVE  RingInv'
  <1>1. /\ rd[r].pc = "mark" /\ UNCHANGED <<mem, wbuf, w, log, got>>
        /\ rbuf' = [rbuf EXCEPT ![r] = Append(rbuf[r], rd[r].idx)]
        /\ rd' = [rd EXCEPT ![r] = [rd[r] EXCEPT !.pc = "idle", !.idx = (rd[r].idx + 1) % NSlots]]
    BY DEF MarkRead
  <1>2. PICK k \in Nat : /\ k >= 1 /\ k = Done(r) + 1 /\ rd[r].idx = SlotOf(k)
                         /\ (rd[r].idx + 1) % NSlots = (Done(r) + 1) % NSlots
                         /\ (rd[r].idx + 1) % NSlots \in Slots
    BY OnMessage
  <1>3. [rd[r] EXCEPT !.pc = "idle", !.idx = (rd[r].idx + 1) % NSlots] \in ReaderType
    BY <1>2, ReaderTyped DEF ReaderType
  <1>4. /\ rd' \in [Readers -> ReaderType]
        /\ rd'[r].pc = "idle" /\ rd'[r].idx = (Done(r) + 1) % NSlots /\ got'[r] = got[r]
        /\ \A q \in Readers \ {r} : rd'[q] = rd[q] /\ got'[q] = got[q]
        /\ got' \in [Readers -> Seq((0..MaxSends + 1) \X (0..MaxSends + 1))]
    BY <1>1, <1>2, <1>3, ReaderTyped DEF RingInv, RingType, ReaderType
  <1>5. /\ rbuf' \in [Readers -> Seq(Slots)]
        /\ rbuf'[r] = Append(rbuf[r], rd[r].idx)
        /\ \A q \in Readers \ {r} : rbuf'[q] = rbuf[q]
    BY <1>1, ReaderTyped DEF RingInv, RingType
  <1>6. /\ Len(rbuf'[r]) = Len(rbuf[r]) + 1 /\ Len(rbuf[r]) \in Nat
        /\ rbuf'[r][Len(rbuf[r]) + 1] = rd[r].idx
        /\ \A i \in 1..Len(rbuf[r]) : rbuf'[r][i] = rbuf[r][i]
    BY <1>5, ReaderTyped
  <1>7. /\ Done(r) \in Nat /\ Marked(r) \in Nat /\ Done(r) = Marked(r) + Len(rbuf[r])
        /\ Len(got[r]) \in Nat
    BY ReaderCounters
  <1>8. Done(r)' = Done(r) + 1 /\ Done(r)' = Len(got[r]) /\ Marked(r)' = Marked(r)
    <2>1. Done(r) = Len(got[r]) - 1
      BY <1>1 DEF Done
    <2>2. Done(r)' = Len(got[r])
      BY <1>4 DEF Done
    <2>3. Done(r)' = Done(r) + 1
      BY <1>7, <2>1, <2>2
    <2>4. Marked(r)' = Done(r)' - Len(rbuf'[r])
      BY DEF Marked
    <2>5. QED
      BY <1>6, <1>7, <2>2, <2>3, <2>4
  <1>9. Sent' = Sent /\ Flushed' = Flushed
    BY <1>1 DEF Sent, Flushed, Issued, Base, Stores
  <1>10. \A i \in 1..Len(rbuf'[r]) : rbuf'[r][i] = SlotOf(Marked(r) + i)
    <2> SUFFICES ASSUME NEW i \in 1..Len(rbuf'[r])
                 PROVE  rbuf'[r][i] = SlotOf(Marked(r) + i)
      OBVIOUS
    <2>1. CASE i \in 1..Len(rbuf[r])
      BY <1>6, <2>1 DEF RingInv, ReaderOK
    <2>2. CASE i = Len(rbuf[r]) + 1
      <3>1. Marked(r) + i = k
        BY <1>2, <1>7, <2>2
      <3>2. QED
        BY <1>2, <1>6, <2>2, <3>1
    <2>3. QED
      BY <1>6, <2>1, <2>2
  <1>11. ReaderOK(r)'
    <2>1. ReaderOK(r)
      BY DEF RingInv
    <2>2. rd'[r].idx = Done(r)' % NSlots
      BY <1>4, <1>8
    <2>3. QED
      BY <1>4, <1>8, <1>9, <1>10, <2>1, <2>2 DEF ReaderOK, SlotOf, Base, Stores
  <1>12. QED
    BY <1>1, <1>4, <1>5, <1>8, <1>11, ReaderMoves

LEMMA FlushReaderKeeps ==
  ASSUME RingInv, NEW r \in Readers, FlushReader(r)
  PROVE  RingInv'
  <1>1. /\ rbuf[r] # << >> /\ rbuf' = [rbuf EXCEPT ![r] = Tail(rbuf[r])]
        /\ mem' = [mem EXCEPT ![Head(rbuf[r])][r] = 1] /\ UNCHANGED <<wbuf, w, rd, log, got>>
    BY DEF FlushReader
  <1>2. /\ Done(r) \in Nat /\ Marked(r) \in Nat /\ Len(rbuf[r]) \in Nat
        /\ Done(r) = Marked(r) + Len(rbuf[r]) /\ Sent <= Marked(r) + NSlots
        /\ Done(r) <= Len(got[r]) /\ Len(got[r]) <= Sent /\ Len(got[r]) \in Nat
        /\ r \in Nat /\ r <= NReaders
    BY ReaderCounters
  <1>3. /\ Len(rbuf[r]) >= 1 /\ Head(rbuf[r]) = rbuf[r][1]
        /\ rbuf' \in [Readers -> Seq(Slots)] /\ rbuf'[r] = Tail(rbuf[r])
        /\ \A q \in Readers \ {r} : rbuf'[q] = rbuf[q]
    BY <1>1, ReaderTyped DEF RingInv, RingType
  <1>4. /\ Len(rbuf[r]) = Len(rbuf'[r]) + 1 /\ Len(rbuf'[r]) \in Nat
        /\ \A i \in 1..Len(rbuf'[r]) : rbuf'[r][i] = rbuf[r][i + 1]
    BY <1>1, <1>3, ReaderTyped
  <1>5. PICK k \in Nat : k = Marked(r) + 1
    BY <1>2
  <1>6. k >= 1 /\ k <= Len(got[r]) /\ k <= Sent /\ Sent < k + NSlots
    <2>1. Sent \in Nat /\ NSlots \in Nat
      BY Counters, Sizes
    <2>2. Marked(r) + 1 <= Done(r)
      BY <1>2, <1>3
    <2>3. k <= Done(r)
      BY <1>5, <2>2
    <2>4. k <= Len(got[r])
      BY <1>2, <2>3
    <2>5. k <= Sent
      BY <1>2, <2>1, <2>4
    <2>6. Sent < k + NSlots
      BY <1>2, <1>5, <2>1
    <2>7. QED
      BY <1>2, <1>5, <2>4, <2>5, <2>6
  <1>7. Window(k) /\ Flushed >= Base(k) + 3 + r
    BY <1>6, MarkedWasReset DEF Window
  <1>8. Head(rbuf[r]) = SlotOf(k) /\ SlotOf(k) \in Slots
    <2>1. 1 \in 1..Len(rbuf[r])
      BY <1>2, <1>3
    <2>2. rbuf[r][1] = SlotOf(Marked(r) + 1)
      BY <2>1 DEF RingInv, ReaderOK
    <2>3. QED
      BY <1>3, <1>5, <1>6, <2>2, SlotType
  <1>9. Writes(SlotOf(k), r, 1)
    BY <1>1, <1>8 DEF Writes
  <1>10. Sent' = Sent /\ Flushed' = Flushed /\ Issued' = Issued
    BY <1>1 DEF Sent, Flushed, Issued, Base, Stores
  <1>11. /\ \A q \in Readers : Done(q)' = Done(q)
         /\ \A q \in Readers \ {r} : Marked(q)' = Marked(q)
         /\ Marked(r)' = k
    <2>1. \A q \in Readers : Done(q)' = Done(q)
      BY <1>1 DEF Done
    <2>2. \A q \in Readers \ {r} : Marked(q)' = Marked(q)
      BY <1>3, <2>1 DEF Marked
    <2>3. Done(r) - Len(rbuf'[r]) = k
      BY <1>2, <1>4, <1>5
    <2>4. QED
      BY <2>1, <2>2, <2>3 DEF Marked
  <1>12. \A q \in Readers : ReaderOK(q)'
    <2> TAKE q \in Readers
    <2>1. CASE q # r
      <3>1. rd'[q] = rd[q] /\ rbuf'[q] = rbuf[q] /\ got'[q] = got[q]
            /\ \A i \in 1..Sent : log'[i] = log[i]
        BY <1>1, <1>3, <2>1
      <3>2. Flushed' \in Nat /\ Flushed' >= Flushed /\ Sent' <= Marked(q) + NSlots
        BY <1>10, ReaderCounters, Counters
      <3>3. QED
        BY <3>1, <3>2, ReaderFrame
    <2>2. CASE q = r
      <3>1. ReaderOK(r)
        BY DEF RingInv
      <3>2. ASSUME NEW i \in 1..Len(rbuf'[r])
            PROVE  rbuf'[r][i] = SlotOf(k + i)
        <4>1. i + 1 \in 1..Len(rbuf[r]) /\ Marked(r) + (i + 1) = k + i
          <5>1. i \in Nat /\ i >= 1 /\ i <= Len(rbuf'[r])
            BY <1>4
          <5>2. i + 1 \in 1..Len(rbuf[r])
            BY <1>2, <1>4, <5>1
          <5>3. QED
            BY <1>2, <1>5, <5>1, <5>2
        <4>2. rbuf[r][i + 1] = SlotOf(Marked(r) + (i + 1))
          BY <3>1, <4>1 DEF ReaderOK
        <4>3. QED
          BY <1>4, <4>1, <4>2
      <3>3. k >= 0 /\ Sent <= k + NSlots
        BY <1>6, Counters, Sizes
      <3>4. QED
        BY <1>1, <1>10, <1>11, <2>2, <3>1, <3>2, <3>3 DEF ReaderOK, SlotOf, Base, Stores
    <2>3. QED
      BY <2>1, <2>2
  <1>13. WriterOK'
    <2>1. \A q \in 1..w.k - 1 : q \in Readers
      BY WriterTyped, Sizes
    <2>2. WriterOK
      BY DEF RingInv
    <2>3. ASSUME NEW q \in Readers, Marked(q) + NSlots > Sent
          PROVE  Marked(q)' + NSlots > Sent
      <3>1. CASE q # r
        BY <1>11, <2>3, <3>1
      <3>2. CASE q = r
        BY <1>6, <1>11, <3>2, Counters, Sizes
      <3>3. QED
        BY <3>1, <3>2
    <2>4. QED
      BY <1>1, <1>10, <2>1, <2>2, <2>3 DEF WriterOK, Sending
  <1>14. BufferOK'
    BY <1>1, <1>10 DEF RingInv, BufferOK, StoreOf, Base, Stores, SlotOf
  <1>15. /\ r \in 0..NReaders + 2 /\ 0 \in 0..NReaders + 2 /\ r # 0 /\ r # Header /\ r # Body
         /\ Header \in 0..NReaders + 2 /\ Body \in 0..NReaders + 2
         /\ \A q \in Readers : q \in 0..NReaders + 2
         /\ \A d \in 0..NReaders : d \in 0..NReaders + 2
         /\ 1 \in 0..1 /\ 1 \in 0..MaxSends + 1
    BY Sizes
  <1>16. \A t \in Slots, d \in 0..NReaders + 2 :
           mem'[t][d] = IF t = SlotOf(k) /\ d = r THEN 1 ELSE mem[t][d]
    BY <1>8, <1>9, <1>15, CellWritten
  <1>17. RingType'
    <2>1. mem' \in [Slots -> [0..NReaders + 2 -> 0..MaxSends + 1]]
      BY <1>8, <1>9, <1>15 DEF RingInv, RingType, Writes
    <2>2. \A t \in Slots, d \in 0..NReaders : mem'[t][d] \in 0..1
      <3>1. \A t \in Slots, d \in 0..NReaders : mem[t][d] \in 0..1
        BY DEF RingInv, RingType
      <3>2. QED
        BY <1>15, <1>16, <3>1
    <2>3. QED
      BY <1>1, <1>3, <2>1, <2>2 DEF RingInv, RingType
  <1>18. MemOK'
    <2>1. SUFFICES ASSUME NEW l \in Nat, Window(l)'
                   PROVE  MemOKAt(l)'
      BY DEF MemOK
    <2>2. Window(l)
      BY <1>10, <2>1 DEF Window
    <2>3. MemOKAt(l)
      BY <2>2 DEF RingInv, MemOK
    <2>4. SlotOf(l) \in Slots /\ l >= 1
      BY <2>2, SlotType DEF Window
    <2>5. /\ mem'[SlotOf(l)][Header] = mem[SlotOf(l)][Header]
          /\ mem'[SlotOf(l)][Body] = mem[SlotOf(l)][Body]
          /\ mem'[SlotOf(l)][0] = mem[SlotOf(l)][0]
          /\ \A q \in Readers \ {r} : mem'[SlotOf(l)][q] = mem[SlotOf(l)][q]
      BY <1>15, <1>16, <2>4
    <2>6. mem'[SlotOf(l)][r] = IF Flushed >= Base(l) + 3 + r
                               THEN IF Marked(r)' >= l THEN 1 ELSE 0
                               ELSE IF l > NSlots THEN 1 ELSE 0
      <3>1. CASE l = k
        <4>1. mem'[SlotOf(l)][r] = 1
          BY <1>15, <1>16, <2>4, <3>1
        <4>2. Marked(r)' >= l
          BY <1>11, <3>1
        <4>3. QED
          BY <1>7, <3>1, <4>1, <4>2
      <3>2. CASE l # k
        <4>1. SlotOf(l) # SlotOf(k)
          <5>1. l < k + NSlots /\ k < l + NSlots
            BY <1>6, <2>2, Counters, Sizes DEF Window
          <5>2. QED
            BY <1>6, <2>4, <3>2, <5>1, SlotsApart
        <4>2. mem'[SlotOf(l)][r] = mem[SlotOf(l)][r]
          BY <1>15, <1>16, <2>4, <4>1
        <4>3. Marked(r)' >= l <=> Marked(r) >= l
          BY <1>2, <1>5, <1>11, <3>2
        <4>4. QED
          BY <2>3, <4>2, <4>3 DEF MemOKAt
      <3>3. QED
        BY <3>1, <3>2
    <2>7. \A q \in Readers :
            mem'[SlotOf(l)][q] = IF Flushed >= Base(l) + 3 + q
                                 THEN IF Marked(q)' >= l THEN 1 ELSE 0
                                 ELSE IF l > NSlots THEN 1 ELSE 0
      <3>1. ASSUME NEW q \in Readers \ {r}
            PROVE  mem'[SlotOf(l)][q] = IF Flushed >= Base(l) + 3 + q
                                        THEN IF Marked(q)' >= l THEN 1 ELSE 0
                                        ELSE IF l > NSlots THEN 1 ELSE 0
        BY <1>11, <2>3, <2>5 DEF MemOKAt
      <3>2. QED
        BY <2>6, <3>1
    <2>8. log' = log
      BY <1>1
    <2>9. QED
      BY <1>10, <2>3, <2>5, <2>7, <2>8 DEF MemOKAt, SlotOf, Base, Stores
  <1>19. QED
    BY <1>12, <1>13, <1>14, <1>17, <1>18 DEF RingInv

-----------------------------------------------------------------------------
\* The invariant holds.

LEMMA RingInit == Init => RingInv
  <1> SUFFICES ASSUME Init PROVE RingInv
    OBVIOUS
  <1>1. /\ mem = [s \in Slots |-> [c \in 0..NReaders + 2 |-> 0]]
        /\ wbuf = << >> /\ log = << >>
        /\ rbuf = [r \in Readers |-> << >>] /\ got = [r \in Readers |-> << >>]
        /\ w = [pc |-> "idle", idx |-> 0, msg |-> 0, written |-> 0, count |-> 0, k |-> 1]
        /\ rd = [r \in Readers |-> [pc |-> "idle", idx |-> 0, written |-> 0, header |-> 0]]
    BY DEF Init
  <1>2. /\ 0 \in Slots /\ 0 \in 0..MaxSends /\ 0 \in 0..MaxSends + 1 /\ 0 \in 0..NReaders
        /\ 1 \in 1..NReaders + 1 /\ 0 \in 0..1 /\ 0 % NSlots = 0
        /\ \A c \in 0..NReaders : c \in 0..NReaders + 2
    BY Sizes
  <1>3. RingType
    <2>1. mem \in [Slots -> [0..NReaders + 2 -> 0..MaxSends + 1]]
      BY <1>1, <1>2
    <2>2. \A s \in Slots, c \in 0..NReaders : mem[s][c] \in 0..1
      BY <1>1, <1>2
    <2>3. w \in WriterType
      BY <1>1, <1>2 DEF WriterType
    <2>4. rd \in [Readers -> ReaderType]
      BY <1>1, <1>2 DEF ReaderType
    <2>5. /\ wbuf \in Seq(StoreType) /\ Len(wbuf) <= MaxBuffer /\ log \in Seq(0..MaxSends)
      BY <1>1, Sizes
    <2>6. /\ rbuf \in [Readers -> Seq(Slots)]
          /\ got \in [Readers -> Seq((0..MaxSends + 1) \X (0..MaxSends + 1))]
      BY <1>1
    <2>7. QED
      BY <2>1, <2>2, <2>3, <2>4, <2>5, <2>6 DEF RingType
  <1>4. Sent = 0 /\ ~Sending /\ w.pc = "idle" /\ w.idx = 0
    BY <1>1 DEF Sent, Sending
  <1>5. Issued = 0 /\ Flushed = 0 /\ Len(wbuf) = 0
    <2>1. Base(1) = 0
      BY Sizes DEF Base
    <2>2. Issued = Base(0 + 1) /\ 0 + 1 = 1
      BY <1>4 DEF Issued
    <2>3. QED
      BY <1>1, <2>1, <2>2 DEF Flushed
  <1>6. WriterOK
    BY <1>2, <1>4 DEF WriterOK
  <1>7. BufferOK
    <2>1. \A k \in 1..Sent : FALSE
      BY <1>4
    <2>2. QED
      BY <1>5, <2>1 DEF BufferOK
  <1>8. \A r \in Readers : /\ rd[r].pc = "idle" /\ rd[r].idx = 0 /\ Len(got[r]) = 0
                           /\ Len(rbuf[r]) = 0 /\ Done(r) = 0 /\ Marked(r) = 0
    BY <1>1 DEF Done, Marked
  <1>9. \A r \in Readers : ReaderOK(r)
    BY <1>2, <1>4, <1>8, Sizes DEF ReaderOK
  <1>10. MemOK
    <2>1. SUFFICES ASSUME NEW k \in Nat, Window(k)
                   PROVE  MemOKAt(k)
      BY DEF MemOK
    <2>2. k >= 1 /\ k <= NSlots /\ SlotOf(k) \in Slots
      BY <1>4, <2>1, SlotType DEF Window
    <2>3. Base(k) \in Nat /\ Base(k + 1) = Base(k) + Stores
      BY <2>2, BaseNext
    <2>4. /\ ~(Flushed >= Base(k) + 2) /\ ~(Flushed >= Base(k) + 3) /\ ~(Flushed >= Base(k + 1))
          /\ \A r \in Readers : ~(Flushed >= Base(k) + 3 + r)
      BY <1>5, <2>3, Sizes
    <2>5. ~(k > NSlots)
      BY <2>2, Sizes
    <2>6. \A c \in 0..NReaders : mem[SlotOf(k)][c] = 0
      BY <1>1, <1>2, <2>2
    <2>7. 0 \in 0..NReaders /\ \A r \in Readers : r \in 0..NReaders
      BY Sizes
    <2>8. QED
      BY <2>4, <2>5, <2>6, <2>7 DEF MemOKAt
  <1>11. QED
    BY <1>3, <1>6, <1>7, <1>9, <1>10 DEF RingInv

LEMMA RingStutter ==
  ASSUME RingInv, UNCHANGED vars
  PROVE  RingInv'
  <1>1. UNCHANGED <<mem, wbuf, rbuf, w, rd, log, got>>
    BY DEF vars
  <1>2. Sent' = Sent /\ Issued' = Issued /\ Flushed' = Flushed
    BY <1>1 DEF Sent, Flushed, Issued, Base, Stores
  <1>3. \A r \in Readers : ReaderOK(r)' /\ Marked(r)' = Marked(r)
    BY <1>1, <1>2, ReaderFrame, ReaderCounters, Counters
  <1>4. MemOK'
    BY <1>1, <1>2, <1>3, MemFrame
  <1>5. WriterOK'
    <2>1. \A q \in 1..w.k - 1 : q \in Readers
      BY WriterTyped, Sizes
    <2>2. WriterOK
      BY DEF RingInv
    <2>3. QED
      BY <1>1, <1>2, <1>3, <2>1, <2>2 DEF WriterOK, Sending
  <1>6. BufferOK'
    BY <1>1, <1>2 DEF RingInv, BufferOK, StoreOf, Base, Stores, SlotOf
  <1>7. RingType'
    BY <1>1 DEF RingInv, RingType
  <1>8. QED
    BY <1>3, <1>4, <1>5, <1>6, <1>7 DEF RingInv

LEMMA RingStep == RingInv /\ [Next]_vars => RingInv'
  <1> SUFFICES ASSUME RingInv, [Next]_vars PROVE RingInv'
    OBVIOUS
  <1>1. CASE Enqueue \/ LoadWritten \/ CountFlag \/ SlotBusy
    BY <1>1, WriterWaits
  <1>2. CASE ClearWritten
    BY <1>2, ClearKeeps
  <1>3. CASE WriteHeader
    BY <1>3, HeaderKeeps
  <1>4. CASE WriteBody
    BY <1>4, BodyKeeps
  <1>5. CASE ResetFlag
    BY <1>5, ResetKeeps
  <1>6. CASE Publish
    BY <1>6, PublishKeeps
  <1>7. CASE FlushWriter
    BY <1>7, FlushWriterKeeps
  <1>8. ASSUME NEW r \in Readers, ReaderStep(r) \/ FlushReader(r)
        PROVE  RingInv'
    BY <1>8, DequeueKeeps, ReadWrittenKeeps, SlotEmptyKeeps, SlotReadyKeeps, ReadHeaderKeeps,
       ReadBodyKeeps, MarkReadKeeps, FlushReaderKeeps DEF ReaderStep
  <1>9. CASE UNCHANGED vars
    BY <1>9, RingStutter
  <1>10. QED
    BY <1>1, <1>2, <1>3, <1>4, <1>5, <1>6, <1>7, <1>8, <1>9 DEF Next, WriterStep

\* The state of the ring is always the one that a position in the stream of stores and
\* the readers' marks say: what enqueue and dequeue of shm_broadcast.py rely on
\* without saying it.
THEOREM RingSafety == Spec => []RingInv
  <1>1. Init => RingInv
    BY RingInit
  <1>2. RingInv /\ [Next]_vars => RingInv'
    BY RingStep
  <1>3. QED
    BY <1>1, <1>2, PTL DEF Spec

LEMMA RingTypeOK == RingInv => TypeOK
  <1> SUFFICES ASSUME RingInv PROVE TypeOK
    OBVIOUS
  <1>1. /\ mem \in [Slots -> [0..NReaders + 2 -> 0..MaxSends + 1]] /\ Len(wbuf) <= MaxBuffer
        /\ wbuf \in Seq(StoreType) /\ w \in WriterType
    BY DEF RingInv, RingType
  <1>2. \A st \in Range(wbuf) : st.slot \in Slots /\ st.cell \in 0..NReaders + 2
    <2>1. \A i \in DOMAIN wbuf : wbuf[i] \in StoreType
      BY <1>1
    <2>2. QED
      BY <2>1 DEF Range, StoreType
  <1>3. ASSUME NEW r \in Readers
        PROVE  /\ rbuf[r] \in Seq(Slots) /\ Len(rbuf[r]) <= NSlots
               /\ rd[r].idx \in Slots /\ rd[r].written \in 0..1
    <2>1. /\ Done(r) \in Nat /\ Marked(r) \in Nat /\ Len(rbuf[r]) \in Nat
          /\ Done(r) = Marked(r) + Len(rbuf[r]) /\ Done(r) <= Len(got[r]) /\ Len(got[r]) \in Nat
          /\ Len(got[r]) <= Sent /\ Sent <= Marked(r) + NSlots /\ Sent \in Nat /\ NSlots \in Nat
      BY ReaderCounters, Counters, Sizes
    <2>2. Len(rbuf[r]) <= NSlots
      BY <2>1
    <2>3. QED
      BY <2>2, ReaderTyped
  <1>4. w.idx \in Slots /\ w.msg \in 0..MaxSends /\ w.count \in 0..NReaders
    BY <1>1 DEF WriterType
  <1>5. QED
    BY <1>1, <1>2, <1>3, <1>4 DEF TypeOK

\* Every slot, cell and buffered store stays in range, and a reader's store buffer
\* never holds more marks than the ring has slots.
THEOREM RingTypes == Spec => []TypeOK
  BY RingSafety, RingTypeOK, PTL

-----------------------------------------------------------------------------
\* The refinement.

LogOf == [i \in DOMAIN log |-> <<log[i], log[i]>>]

LEMMA LogOfShape ==
  ASSUME NEW l \in Seq(0..MaxSends), NEW m, m = [i \in DOMAIN l |-> <<l[i], l[i]>>]
  PROVE  /\ Len(m) = Len(l) /\ m \in Seq((0..MaxSends) \X (0..MaxSends))
         /\ \A i \in 1..Len(l) : m[i] = <<l[i], l[i]>>
  <1>1. DOMAIN l = 1..Len(l) /\ Len(l) \in Nat
    OBVIOUS
  <1>2. m = [i \in 1..Len(l) |-> <<l[i], l[i]>>]
    BY <1>1
  <1>3. \A i \in 1..Len(l) : l[i] \in 0..MaxSends
    BY <1>1, ElementOfSeq
  <1>4. m \in [1..Len(l) -> (0..MaxSends) \X (0..MaxSends)]
    BY <1>2, <1>3
  <1>5. m \in Seq((0..MaxSends) \X (0..MaxSends))
    BY <1>1, <1>4
  <1>6. DOMAIN m = 1..Len(l) /\ DOMAIN m = 1..Len(m) /\ Len(m) \in Nat
    BY <1>2, <1>5
  <1>7. \A a, b \in Nat : 1..a = 1..b => a = b
    <2>1. \A a, b \in Nat : (a \in 1..a => a \in 1..b) /\ (b \in 1..b => b \in 1..a) => a = b
      OBVIOUS
    <2>2. QED
      BY <2>1
  <1>8. QED
    BY <1>1, <1>2, <1>5, <1>6, <1>7

LEMMA LogOfIs ==
  ASSUME RingInv
  PROVE  /\ Len(LogOf) = Sent /\ LogOf \in Seq((0..MaxSends) \X (0..MaxSends))
         /\ \A i \in 1..Sent : LogOf[i] = <<log[i], log[i]>>
  <1>1. log \in Seq(0..MaxSends)
    BY WriterTyped
  <1>2. QED
    BY <1>1, LogOfShape DEF LogOf, Sent

\* A message gets a slot only when every reader has read all but NSlots - 1 before it.
LEMMA SendImplemented ==
  ASSUME RingInv, RingInv', ClearWritten
  PROVE  Log!Send
  <1>1. log' = Append(log, w.msg) /\ UNCHANGED got
    BY DEF ClearWritten
  <1>2. log \in Seq(0..MaxSends) /\ Sent = Len(log) /\ Sent \in Nat
    BY WriterTyped, Counters DEF Sent
  <1>3. Sent' = Sent + 1 /\ \A i \in 1..Sent : log'[i] = log[i]
    BY <1>1, <1>2, WriterTyped DEF Sent
  <1>4. /\ Len(LogOf) = Sent /\ LogOf \in Seq((0..MaxSends) \X (0..MaxSends))
        /\ \A i \in 1..Sent : LogOf[i] = <<log[i], log[i]>>
    BY LogOfIs
  <1>5. /\ Len(LogOf') = Sent' /\ LogOf' \in Seq((0..MaxSends) \X (0..MaxSends))
        /\ \A i \in 1..Sent' : LogOf'[i] = <<log'[i], log'[i]>>
    <2>1. log' \in Seq(0..MaxSends)
      BY DEF RingInv, RingType
    <2>2. LogOf' = [i \in DOMAIN log' |-> <<log'[i], log'[i]>>]
      BY DEF LogOf
    <2>3. QED
      BY <2>1, <2>2, LogOfShape DEF Sent
  <1>6. \A r \in Readers : Sent - Len(got[r]) < NSlots
    <2> TAKE r \in Readers
    <2>1. Marked(r) \in Nat /\ Len(got[r]) \in Nat /\ Marked(r) <= Len(got[r])
      <3>1. /\ Done(r) \in Nat /\ Marked(r) \in Nat /\ Len(rbuf[r]) \in Nat
            /\ Done(r) = Marked(r) + Len(rbuf[r]) /\ Done(r) <= Len(got[r]) /\ Len(got[r]) \in Nat
        BY ReaderCounters
      <3>2. QED
        BY <3>1
    <2>2. Marked(r)' = Marked(r)
      BY DEF ClearWritten, Marked, Done
    <2>3. Sent' <= Marked(r)' + NSlots
      BY DEF RingInv, ReaderOK
    <2>4. QED
      BY <1>2, <1>3, <2>1, <2>2, <2>3, Sizes
  <1>7. SubSeq(LogOf', 1, Len(LogOf)) = LogOf
    <2>1. Len(LogOf) <= Len(LogOf') /\ Len(LogOf) \in Nat
      BY <1>2, <1>3, <1>4, <1>5
    <2>2. \A i \in 1..Len(LogOf) : LogOf'[i] = LogOf[i]
      <3>1. \A i \in 1..Sent : i \in 1..Sent'
        BY <1>2, <1>3
      <3>2. QED
        BY <1>3, <1>4, <1>5, <3>1
    <2>3. QED
      BY <1>4, <1>5, <2>1, <2>2
  <1>8. QED
    BY <1>1, <1>3, <1>4, <1>5, <1>6, <1>7 DEF Log!Send, LogOf

\* A dequeue returns the next message, and both halves of it are that message's.
LEMMA ReceiveImplemented ==
  ASSUME RingInv, NEW r \in Readers, ReadBody(r)
  PROVE  Log!Receive(r)
  <1>1. /\ rd[r].pc = "body" /\ log' = log
        /\ got' = [got EXCEPT ![r] = Append(got[r], <<rd[r].header, mem[rd[r].idx][Body]>>)]
    BY DEF ReadBody
  <1>2. Done(r) + 1 <= Sent /\ Done(r) = Len(got[r]) /\ Len(got[r]) \in Nat /\ Sent \in Nat
    BY <1>1, ReaderCounters, Counters
  <1>3. mem[rd[r].idx][Body] = log[Done(r) + 1]
    BY <1>1, ReadsMessage
  <1>4. rd[r].header = log[Done(r) + 1]
    BY <1>1 DEF RingInv, ReaderOK
  <1>5. Len(LogOf) = Sent /\ LogOf[Len(got[r]) + 1] = <<log[Done(r) + 1], log[Done(r) + 1]>>
    BY <1>2, LogOfIs
  <1>6. got' = [got EXCEPT ![r] = Append(got[r], LogOf[Len(got[r]) + 1])]
    BY <1>1, <1>3, <1>4, <1>5
  <1>7. Len(got[r]) < Len(LogOf)
    BY <1>2, <1>5
  <1>8. LogOf' = LogOf
    BY <1>1 DEF LogOf
  <1>9. QED
    BY <1>6, <1>7, <1>8 DEF Log!Receive, LogOf

LEMMA StepImplemented ==
  ASSUME RingInv, RingInv', [Next]_vars
  PROVE  [Log!Next]_<<LogOf, got>>
  <1>1. CASE ClearWritten
    BY <1>1, SendImplemented DEF Log!Next
  <1>2. ASSUME NEW r \in Readers, ReadBody(r)
        PROVE  Log!Next
    BY <1>2, ReceiveImplemented DEF Log!Next
  <1>3. ASSUME UNCHANGED <<log, got>>
        PROVE  UNCHANGED <<LogOf, got>>
    BY <1>3 DEF LogOf
  <1>4. \/ ClearWritten \/ UNCHANGED <<log, got>>
        \/ \E r \in Readers : ReadBody(r)
    BY DEF Next, WriterStep, ReaderStep, vars, Enqueue, LoadWritten, CountFlag, SlotBusy,
       WriteHeader, WriteBody, ResetFlag, Publish, FlushWriter, FlushReader, Dequeue,
       ReadWritten, SlotEmpty, SlotReady, ReadHeader, MarkRead
  <1>5. QED
    BY <1>1, <1>2, <1>3, <1>4

\* The ring is a broadcast log: every dequeue of every reader returns the next message,
\* whole, and the writer never reuses a slot before every reader has read it, although
\* neither side fences its stores.
THEOREM RingImplements == Spec => LogSpec
  <1>1. Init => Log!Init
    <2> SUFFICES ASSUME Init PROVE Log!Init
      OBVIOUS
    <2>1. log = << >> /\ got = [r \in Readers |-> << >>]
      BY DEF Init
    <2>2. [i \in DOMAIN log |-> <<log[i], log[i]>>] = << >>
      BY <2>1
    <2>3. QED
      BY <2>1, <2>2 DEF Log!Init
  <1>2. RingInv /\ RingInv' /\ [Next]_vars => [Log!Next]_<<LogOf, got>>
    BY StepImplemented
  <1>3. QED
    BY <1>1, <1>2, RingSafety, PTL DEF Spec, LogSpec, Log!Spec, LogOf

=============================================================================
