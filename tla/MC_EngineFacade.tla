-------------------------- MODULE MC_EngineFacade --------------------------
(***************************************************************************)
(* Two streams and two ids: the streams may run side by side, or one after  *)
(* the other under the same id.                                             *)
(***************************************************************************)
EXTENDS EngineFacade, TLC

MCSymmetry == Permutations(Streams) \cup Permutations(Ids)

=============================================================================
