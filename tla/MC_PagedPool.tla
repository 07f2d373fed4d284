---------------------------- MODULE MC_PagedPool ----------------------------
(* Three owners over five pages: two sequences and one retained entry.     *)
EXTENDS PagedPool, TLC

MCSymmetry == Permutations(Pages) \cup Permutations(Owners)

=============================================================================
