--------------------------- MODULE MC_PrefillWave ---------------------------
(***************************************************************************)
(* Waves of four requests over two-token pages: two rows that may fall in  *)
(* a small bucket and two in a large one, so that both buckets are padded  *)
(* and compete for the same free pages; the large one may pass max_seq.    *)
(***************************************************************************)
EXTENDS PrefillWave, TLC

Row(rid, shared, suffix, new) ==
  [rid |-> rid, shared |-> shared, suffix |-> suffix,
   pages |-> Ceil(shared + suffix + new)]

MCWaves == {<<Row(1, s1, a, 1), Row(2, 2, b, 1), Row(3, x[1], x[2], 1), Row(4, 4, d, 1)>> :
              s1 \in {0, 2}, a \in 1..4, b \in 1..4, d \in 5..7,
              x \in {y \in {2, 4, 6} \X (5..7) : y[1] + y[2] < MaxSeq}}
MCBuckets == <<4, 8, 12>>

=============================================================================
