-------------------------- MODULE SharedCheckpoint --------------------------
(***************************************************************************)
(* Several processes run the same run id on one checkpoint file at the     *)
(* same time (finspace runner.py 127-174 and 272-311): the statements of   *)
(* each are interleaved with those of the others.  An INSERT and its       *)
(* commit are one step, because other processes see neither before the     *)
(* commit and cannot write in between; one that finds the file locked for  *)
(* too long raises sqlite3.OperationalError.  Each process works through   *)
(* the ranks in any order, and may die and be started again.               *)
(***************************************************************************)
EXTENDS Checkpoint

CONSTANTS Processes, MaxStarts

VARIABLES
  commits,   \* the rows committed to the file
  pc,        \* where a process is, "stopped" for one that has raised or died
  opened,    \* the space it runs
  before,    \* completed_before
  rank,      \* the ranks it is executing, one at most
  executed,  \* the ranks it has executed
  starts

vars == <<commits, pc, opened, before, rank, executed, starts>>

Init ==
  /\ commits = <<>>
  /\ pc = [p \in Processes |-> "stopped"]
  /\ opened \in [Processes -> Spaces]
  /\ before = [p \in Processes |-> {}]
  /\ rank = [p \in Processes |-> {}]
  /\ executed = [p \in Processes |-> {}]
  /\ starts = 0

Go(p, from, to) == pc[p] = from /\ pc' = [pc EXCEPT ![p] = to]

\* Bound: a process is started MaxStarts times in all.
Start(p) ==
  /\ starts < MaxStarts
  /\ Go(p, "stopped", "select")
  /\ starts' = starts + 1
  /\ rank' = [rank EXCEPT ![p] = {}]
  /\ executed' = [executed EXCEPT ![p] = {}]
  /\ UNCHANGED <<commits, opened, before>>

\* ensure_run reads the row of the run,
Select(p) ==
  /\ Go(p, "select", IF Owner(commits) = NoSpace THEN "insert"
                     ELSE IF Mismatch(commits, opened[p]) THEN "stopped" ELSE "completed")
  /\ UNCHANGED <<commits, opened, before, rank, executed, starts>>

\* Variation: the row of another process is replaced.
InsertOrReplace(p) ==
  /\ Go(p, "insert", "completed")
  /\ commits' = IF Owner(commits) = NoSpace THEN Append(commits, RunRow(opened[p]))
                ELSE [commits EXCEPT ![1] = RunRow(opened[p])]
  /\ UNCHANGED <<opened, before, rank, executed, starts>>

\* and inserts it when there was none: meanwhile another process may have done
\* so, and the primary key refuses the second row.
Insert(p) ==
  /\ IF Owner(commits) # NoSpace
       THEN Go(p, "insert", "stopped") /\ UNCHANGED commits
       ELSE Go(p, "insert", "completed") /\ commits' = Append(commits, RunRow(opened[p]))
  /\ UNCHANGED <<opened, before, rank, executed, starts>>

ReadCompleted(p) ==
  /\ Go(p, "completed", "loop")
  /\ before' = [before EXCEPT ![p] = CompletedRanks(commits)]
  /\ UNCHANGED <<commits, opened, rank, executed, starts>>

Pending(p) == Ranks \ (before[p] \cup executed[p])

Execute(p) ==
  /\ Go(p, "loop", "record")
  /\ \E r \in Pending(p) :
       /\ rank' = [rank EXCEPT ![p] = {r}]
       /\ executed' = [executed EXCEPT ![p] = @ \cup {r}]
  /\ UNCHANGED <<commits, opened, before, starts>>

\* The upsert of the outcome.
Record(p) ==
  /\ Go(p, "record", "loop")
  /\ \E r \in rank[p], s \in {"failed", "completed"} :
       commits' = Append(commits, TaskRow(opened[p], r, s))
  /\ rank' = [rank EXCEPT ![p] = {}]
  /\ UNCHANGED <<opened, before, executed, starts>>

Return(p) ==
  /\ Pending(p) = {}
  /\ Go(p, "loop", "returned")
  /\ UNCHANGED <<commits, opened, before, rank, executed, starts>>

\* The process dies, or a statement finds the file locked and raises.
Stop(p) ==
  /\ pc[p] \in {"select", "insert", "completed", "loop", "record"}
  /\ pc' = [pc EXCEPT ![p] = "stopped"]
  /\ UNCHANGED <<commits, opened, before, rank, executed, starts>>

Next == \E p \in Processes :
  \/ Start(p) \/ Select(p) \/ Insert(p) \/ ReadCompleted(p)
  \/ Execute(p) \/ Record(p) \/ Return(p) \/ Stop(p)

Spec == Init /\ [][Next]_vars

-----------------------------------------------------------------------------
\* However the processes interleave, the rows of one run id are of one space:
\* that of the run row, which every task row follows; a process that is past
\* ensure_run has this space; and one that returns without having raised leaves
\* an outcome for every rank, be it its own or that of another process.
RunHasOneSpace ==
  /\ \A i \in DOMAIN commits :
       /\ commits[i].space = Owner(commits)
       /\ commits[i].table = "runs" <=> i = 1
  /\ \A p \in Processes :
       /\ pc[p] \in {"completed", "loop", "record", "returned"} => opened[p] = Owner(commits)
       /\ pc[p] = "returned" => \A r \in Ranks : StatusOf(commits, r) # "none"
=============================================================================
