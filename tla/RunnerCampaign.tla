--------------------------- MODULE RunnerCampaign ---------------------------
(***************************************************************************)
(* Runs of Runner on one checkpoint that resume and are given distinct     *)
(* ranks make up a campaign.                                               *)
(***************************************************************************)
EXTENDS Runner, SequencesExt

InHand ==
  IF Working \/ phase = "unwinding"
    THEN {f.rank : f \in futures} \cup (IF phase = "record" THEN {task.rank} ELSE {})
    ELSE {}

Stored == [r \in Ranks |-> StatusOf(commits, r)]
Safe == CompletedRanks(SubSeq(commits, 1, synced))

Promise == INSTANCE Campaign WITH status <- Stored, claimed <- InHand, safe <- Safe

\* README.md:243: re-running the same command skips completed ranks.  Whatever
\* crashes, exceptions and losses of power come between, no completed rank is
\* executed again and no completion is overwritten by a failure.
ImplementsCampaign == Promise!Spec

\* The client runs the campaign, in any space it may be of, again and again,
\* whatever other runs come between.
FullRun(space) == Start /\ args'.space = space /\ ToSet(args'.source) = Ranks
FairCampaign == FairSpec /\ \A s \in Spaces : SF_vars(FullRun(s))

\* docs/runner.md:25: failed ranks remain eligible for a later retry.  When the
\* function fails finitely often, every rank ends up completed for good.
EventuallyAll == <>[](CompletedRanks(commits) = Ranks)
=============================================================================
