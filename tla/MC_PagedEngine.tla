--------------------------- MODULE MC_PagedEngine ---------------------------
(***************************************************************************)
(* Two-token pages.  The prompts are a one-page prompt, one that ends in    *)
(* the middle of a page, and one that continues the first as a next turn.   *)
(***************************************************************************)
EXTENDS PagedEngine, TLC

MCPrompts == {<<0, 0>>, <<0, 0, 0>>, <<0, 0, 0, 0, 1>>}
MCShortPrompts == {<<0, 0>>, <<0, 0, 0>>}
MCOddPrompts == {<<0>>, <<0, 0, 0>>}
MCBuckets == <<1, 2, 4>>
MCSymmetry == Permutations(Pages)

=============================================================================
