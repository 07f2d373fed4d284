---------------------------- MODULE PrefillWave ----------------------------
(***************************************************************************)
(* One admitted wave driven through PrefillGroups: the groups are planned  *)
(* once, against the pages free at that moment, and then each group in     *)
(* turn reserves what its padded forward pass needs                        *)
(* (_prefill_suffix_batch).  The names have a prefix of their own because  *)
(* PagedEngineProofs needs this module beside PagedEngine.                 *)
(***************************************************************************)
EXTENDS PrefillGroups

CONSTANTS Waves,    \* the waves (sequences of rows) that admission may produce
          MaxFree   \* bound: free pages left after admission

ASSUME WaveAssumption ==
  /\ MaxFree \in Nat /\ Waves \subseteq Seq(RowSet)
  /\ \A wave \in Waves :
       /\ \A i, j \in DOMAIN wave : wave[i].rid = wave[j].rid => i = j
       /\ \A row \in Range(wave) :
            /\ row.shared % PageSize = 0
            /\ Ceil(row.shared + row.suffix) <= row.pages
            /\ row.shared + row.suffix <= MaxSeq

VARIABLES waveRows,    \* the wave
          waveFree,    \* number of free pages
          waveGroups,  \* groups planned and not yet run
          wavePc

waveVars == <<waveRows, waveFree, waveGroups, wavePc>>

WaveInit ==
  /\ waveRows \in Waves /\ waveFree \in 0..MaxFree
  /\ waveGroups = << >> /\ wavePc = "plan"

Plan ==
  /\ wavePc = "plan"
  /\ \E pad, bucketed, graph \in BOOLEAN :
       waveGroups' = WaveGroups(waveRows, waveFree, pad, bucketed, graph)
  /\ wavePc' = "prefill"
  /\ UNCHANGED <<waveRows, waveFree>>

\* The group in turn takes its extra pages, or reserve() raises for lack of them.
PrefillGroup ==
  LET extra == ExtraPages(Head(waveGroups).rows, Head(waveGroups).len)
  IN /\ wavePc = "prefill" /\ waveGroups # << >>
     /\ IF extra <= waveFree
        THEN waveFree' = waveFree - extra /\ waveGroups' = Tail(waveGroups) /\ UNCHANGED wavePc
        ELSE wavePc' = "raised" /\ UNCHANGED <<waveFree, waveGroups>>
     /\ UNCHANGED waveRows

WaveNext == Plan \/ PrefillGroup

WaveSpec == WaveInit /\ [][WaveNext]_waveVars

-----------------------------------------------------------------------------
\* The rows still to be prefilled.
StillPlanned == FlattenSeq([g \in DOMAIN waveGroups |-> waveGroups[g].rows])

\* The plan partitions the wave: every admitted request is prefilled, once.
WavePartitioned ==
  [][wavePc = "plan" => /\ Len(StillPlanned') = Len(waveRows)
                        /\ Range(StillPlanned') = Range(waveRows)]_waveVars

\* Planning against the pages free at the start is enough for all the groups
\* together: no reserve() of the wave raises.
WaveReservesFit == wavePc # "raised"

\* One forward pass has a uniform length: the suffix itself in an exact group, at
\* least the suffix and nowhere past max_seq in a padded one.
GroupShape ==
  \A g \in DOMAIN waveGroups : \A row \in Range(waveGroups[g].rows) :
    /\ row.shared + waveGroups[g].len <= MaxSeq
    /\ IF waveGroups[g].padded THEN row.suffix <= waveGroups[g].len ELSE row.suffix = waveGroups[g].len

=============================================================================
