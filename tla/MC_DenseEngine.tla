--------------------------- MODULE MC_DenseEngine ---------------------------
EXTENDS DenseEngine

RequestsDef == {"r1", "r2", "r3", "r4"}

\* All share a common prefix, which the first is no more than; the third extends the
\* second.
PromptDef == [r1 |-> <<"s", "t">>, r2 |-> <<"s", "t", "b">>,
              r3 |-> <<"s", "t", "b", "d">>, r4 |-> <<"s", "t", "e">>]

\* Two pairs, the second prompt of each extending the first.
ExtendingPrompts == [r1 |-> <<"s", "t">>, r2 |-> <<"s", "t", "a">>,
                     r3 |-> <<"q", "v">>, r4 |-> <<"q", "v", "w", "b">>]

ReplyDef == [r1 |-> "x", r2 |-> "y", r3 |-> "z", r4 |-> "u"]
MaxNewDef == [r1 |-> 2, r2 |-> 1, r3 |-> 2, r4 |-> 3]

\* The configuration of the OpenAI server's online sessions, with no cap below
\* max_active_requests on the active batch that ready requests are prefilled ahead of.
Server == [decodeFirst |-> TRUE, readyCap |-> MaxActive, defer |-> TRUE, ragged |-> TRUE,
           many |-> TRUE, pin |-> TRUE, adopt |-> TRUE, storeFull |-> TRUE, graph |-> TRUE,
           chunk |-> 0, perStep |-> 0]

\* That one; one that admits first; one without pinned prefixes that admits one
\* request a step; one with chunked prefill.
ModesDef ==
  {Server,
   [Server EXCEPT !.decodeFirst = FALSE, !.readyCap = 0, !.graph = FALSE],
   [Server EXCEPT !.decodeFirst = FALSE, !.pin = FALSE, !.adopt = FALSE, !.perStep = 1],
   [Server EXCEPT !.defer = FALSE, !.readyCap = 0, !.adopt = FALSE, !.chunk = 2]}

\* The cap below max_active_requests, as it is by default (8) in a server with more
\* rows than that.
OverflowModes == {[Server EXCEPT !.readyCap = 1]}

\* Whole prompts stored without pinning; chunked prefill together with adoption.
UnpinnedModes ==
  {[Server EXCEPT !.decodeFirst = FALSE, !.pin = FALSE, !.adopt = FALSE, !.graph = FALSE]}
ChunkAdoptModes == {[Server EXCEPT !.defer = FALSE, !.chunk = 2]}
=============================================================================
