--------------------------- MODULE SequenceStore ---------------------------
(***************************************************************************)
(* What a client of PagedKVCache (runtime/paged.py) may rely on: a store   *)
(* of independent token sequences.  Nothing is said of pages.  An          *)
(* operation on one request changes the contents of that request and of no *)
(* other, and an append adds exactly its tokens or, when it raises, none.  *)
(***************************************************************************)
EXTENDS Naturals, Sequences, SequencesExt

CONSTANTS Requests,  \* request ids
          Values,    \* the KV values of a token
          NoCall     \* no append is under way

VARIABLES exists,    \* the requests that have a sequence
          contents,  \* what materialize() returns; << >> for the others
          call       \* the append under way: rid and toks

Init == exists = {} /\ contents = [r \in Requests |-> << >>] /\ call = NoCall

\* Only the contents of r change.
Only(r) == \A q \in Requests \ {r} : contents'[q] = contents[q]

Call ==
  /\ call = NoCall /\ call'.rid \in Requests /\ call'.toks \in Seq(Values)
  /\ exists' = exists \cup {call'.rid}
  /\ UNCHANGED contents

AppendDone ==
  /\ call # NoCall /\ call' = NoCall
  /\ contents' = [contents EXCEPT ![call.rid] = @ \o call.toks]
  /\ UNCHANGED exists

AppendRaises == call # NoCall /\ call' = NoCall /\ UNCHANGED <<exists, contents>>

\* alias_prefix: the target, a new sequence, gets a prefix of the source.
Alias(src, dst) ==
  /\ src \in exists /\ dst \notin exists /\ exists' = exists \cup {dst}
  /\ IsPrefix(contents'[dst], contents[src])
  /\ Only(dst)

\* set_length and truncate; length 0 creates a sequence that is not there.
Shorten(r) ==
  /\ IsPrefix(contents'[r], contents[r]) /\ exists' = exists \cup {r}
  /\ Only(r)

\* set_length may lengthen a sequence within its pages, by what their slots hold.
Lengthen(r) ==
  /\ IsPrefix(contents[r], contents'[r]) /\ r \in exists /\ exists' = exists
  /\ Only(r)

Free(r) == contents'[r] = << >> /\ exists' = exists \ {r} /\ Only(r)

Next ==
  \/ Call \/ AppendDone \/ AppendRaises
  \/ /\ call = NoCall /\ UNCHANGED call
     /\ \E r \in Requests :
          \/ Shorten(r) \/ Lengthen(r) \/ Free(r)
          \/ \E src \in Requests : Alias(src, r)

Spec == Init /\ [][Next]_<<exists, contents, call>>

=============================================================================
