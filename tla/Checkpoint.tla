----------------------------- MODULE Checkpoint -----------------------------
(***************************************************************************)
(* The checkpoint file of finspace/runner.py as its readers see it: the    *)
(* sequence of rows committed under one run id, of which the rows up to    *)
(* synced are on disk for good.  With journal_mode=WAL and                 *)
(* synchronous=NORMAL (92-93) a commit survives the death of the process;  *)
(* a loss of power takes back a suffix of the commits that no sync has     *)
(* followed.                                                               *)
(***************************************************************************)
EXTENDS Integers, Sequences, FiniteSetsExt

CONSTANTS Spaces,  \* spaces a client may open, told apart by their hashes
          Ranks    \* the ranks of the space, 0..count-1

NoSpace == "no space"

ASSUME CheckpointAssumption == NoSpace \notin Spaces

RunRow(space) == [table |-> "runs", space |-> space]
TaskRow(space, rank, status) ==
  [table |-> "tasks", space |-> space, rank |-> rank, status |-> status]

\* The rows of the two tables.
Row == [table : {"runs"}, space : Spaces]
       \cup [table : {"tasks"}, space : Spaces, rank : Ranks, status : {"failed", "completed"}]

\* The hashes in the runs row, when there is one.
Owner(commits) == IF commits = <<>> THEN NoSpace ELSE commits[1].space

\* The upsert of record leaves one row for a rank, the last one written.
StatusOf(commits, rank) ==
  LET at == {i \in DOMAIN commits : /\ commits[i].table = "tasks"
                                    /\ commits[i].rank = rank}
  IN  IF at = {} THEN "none" ELSE commits[Max(at)].status

CompletedRanks(commits) == {r \in Ranks : StatusOf(commits, r) = "completed"}

\* ensure_run inserts the row of a new run and refuses a row of another space.
Mismatch(commits, space) == Owner(commits) \notin {NoSpace, space}
EnsureRun(commits, space) ==
  IF Owner(commits) = NoSpace THEN Append(commits, RunRow(space)) ELSE commits
=============================================================================
