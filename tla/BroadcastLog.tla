---------------------------- MODULE BroadcastLog ----------------------------
(***************************************************************************)
(* What the shared-memory ring of runtime/shm_broadcast.py promises: one   *)
(* writer, and every reader receives every message, once, whole and in     *)
(* order, never more than Slots messages behind the writer.                *)
(***************************************************************************)
EXTENDS Naturals, Sequences

CONSTANTS Readers,  \* reader ids
          Slots     \* max_chunks

VARIABLES log,      \* the messages the writer got a slot for
          got       \* per reader, the messages dequeue() returned

Init == log = << >> /\ got = [r \in Readers |-> << >>]

Send ==
  /\ \A r \in Readers : Len(log) - Len(got[r]) < Slots
  /\ Len(log') = Len(log) + 1 /\ SubSeq(log', 1, Len(log)) = log
  /\ UNCHANGED got

Receive(r) ==
  /\ Len(got[r]) < Len(log)
  /\ got' = [got EXCEPT ![r] = Append(@, log[Len(@) + 1])]
  /\ UNCHANGED log

Next == Send \/ \E r \in Readers : Receive(r)

Spec == Init /\ [][Next]_<<log, got>>

=============================================================================
