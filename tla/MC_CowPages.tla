---------------------------- MODULE MC_CowPages ----------------------------
EXTENDS CowPages, TLC

MCSymmetry == Permutations(Pages) \cup Permutations(Requests) \cup Permutations(Values)

=============================================================================
