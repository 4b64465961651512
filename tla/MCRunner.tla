------------------------------ MODULE MCRunner ------------------------------
(***************************************************************************)
(* Three ranks and lists of them: in order, out of order, repeated, empty  *)
(* and out of range.                                                       *)
(***************************************************************************)
EXTENDS RunnerCampaign

CONSTANTS SpaceA, SpaceB

MCRanks == 0..2
InOrder == {<<0, 1, 2>>}
DistinctSources == {<<0, 1, 2>>, <<2, 0>>}
AnySources == {<<0, 1, 2>>, <<1, 0, 1>>, <<0, 3, 1>>, <<-1>>, <<>>}
NoLimit == {9}
SomeLimits == {2, 9}
=============================================================================
