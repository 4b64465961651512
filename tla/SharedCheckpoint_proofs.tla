----------------------- MODULE SharedCheckpoint_proofs -----------------------
(***************************************************************************)
(* However many processes run one run id on one checkpoint, and however    *)
(* their statements interleave, the run keeps the space that got it first. *)
(***************************************************************************)
EXTENDS SharedCheckpoint, NumberLemmas

Places == {"stopped", "select", "insert", "completed", "loop", "record", "returned"}

TypeInv ==
  /\ commits \in Seq(Row)
  /\ pc \in [Processes -> Places]
  /\ opened \in [Processes -> Spaces]
  /\ before \in [Processes -> SUBSET Ranks]
  /\ rank \in [Processes -> SUBSET Ranks]
  /\ executed \in [Processes -> SUBSET Ranks]

\* The rows are of the space of the first one, which is the row of the run.
OneOwner ==
  \A i \in DOMAIN commits : /\ commits[i].space = Owner(commits)
                            /\ commits[i].table = "runs" <=> i = 1

\* There is a row of the rank.
Stored(r) == \E i \in DOMAIN commits : commits[i].table = "tasks" /\ commits[i].rank = r

\* What a process knows: past ensure_run its space is that of the run; what it
\* has read as completed is stored, and so is what it has executed, but for the
\* rank it is about to record.
Sound(p) ==
  /\ pc[p] \in {"completed", "loop", "record", "returned"} =>
       commits # <<>> /\ opened[p] = Owner(commits)
  /\ pc[p] \in {"loop", "record", "returned"} => \A r \in before[p] : Stored(r)
  /\ pc[p] # "stopped" => \A r \in executed[p] : r \in rank[p] \/ Stored(r)
  /\ pc[p] \notin {"stopped", "record"} => rank[p] = {}
  /\ pc[p] = "record" => \E r \in Ranks : rank[p] = {r}
  /\ pc[p] = "returned" => \A r \in Ranks : Stored(r)

IInv == TypeInv /\ OneOwner /\ \A p \in Processes : Sound(p)

LEMMA InitInv == Init => IInv
<1> SUFFICES ASSUME Init PROVE IInv
  OBVIOUS
<1>1. TypeInv
  BY DEF Init, TypeInv, Places
<1>2. OneOwner
  BY DEF Init, OneOwner
<1>3. ASSUME NEW p \in Processes PROVE Sound(p)
  BY DEF Init, Sound
<1> QED BY <1>1, <1>2, <1>3 DEF IInv

-----------------------------------------------------------------------------

\* A rank has a status exactly when it has a row.
LEMMA StoredHasStatus ==
  ASSUME commits \in Seq(Row), NEW r
  PROVE  Stored(r) <=> StatusOf(commits, r) # "none"
<1> DEFINE at == {i \in DOMAIN commits : commits[i].table = "tasks" /\ commits[i].rank = r}
<1>1. StatusOf(commits, r) = IF at = {} THEN "none" ELSE commits[Max(at)].status
  BY Zenon DEF StatusOf
<1>2. Stored(r) <=> at # {}
  BY DEF Stored
<1>3. ASSUME at # {} PROVE commits[Max(at)].status # "none"
  <2>1. Len(commits) \in Nat /\ at \in SUBSET (0..Len(commits))
    OBVIOUS
  <2>2. Max(at) \in at
    <3> HIDE DEF at
    <3> QED BY <1>3, <2>1, MaxFacts
  <2> DEFINE m == Max(at)
  <2>3. commits[m] \in Row /\ commits[m].table = "tasks"
    BY <2>2
  <2> HIDE DEF m
  <2>4. commits[m].status # "none"
    BY <2>3 DEF Row
  <2> QED BY <2>4 DEF m
<1> HIDE DEF at
<1> QED BY <1>1, <1>2, <1>3

\* The rows that are there stay.
Grown ==
  /\ commits # <<>> => commits' # <<>> /\ Owner(commits') = Owner(commits)
  /\ \A r : Stored(r) => Stored(r)'

\* A process that does not move stays sound while the rows grow.
LEMMA OthersSound ==
  ASSUME NEW q \in Processes, Sound(q), Grown,
         pc'[q] = pc[q], opened' = opened, before'[q] = before[q],
         rank'[q] = rank[q], executed'[q] = executed[q]
  PROVE  Sound(q)'
BY DEF Sound, Grown

LEMMA SameRows ==
  ASSUME commits' = commits
  PROVE  Grown
BY DEF Grown, Stored

\* Without a change of the rows, only the process that moves can be disturbed.
LEMMA OneMoves ==
  ASSUME IInv, NEW p \in Processes, TypeInv', OneOwner', Grown,
         opened' = opened, Sound(p)',
         \A q \in Processes \ {p} :
           /\ pc'[q] = pc[q] /\ before'[q] = before[q]
           /\ rank'[q] = rank[q] /\ executed'[q] = executed[q]
  PROVE  IInv'
<1>1. ASSUME NEW q \in Processes \ {p} PROVE Sound(q)'
  BY <1>1, OthersSound DEF IInv
<1> QED BY <1>1 DEF IInv

LEMMA StartKeeps ==
  ASSUME IInv, NEW p \in Processes, Start(p)
  PROVE  IInv'
<1> USE DEF Start, Go
<1>1. commits' = commits /\ Grown
  BY SameRows
<1>2. TypeInv'
  BY DEF IInv, TypeInv, Places
<1>3. OneOwner'
  BY DEF IInv, OneOwner
<1>4. Sound(p)'
  BY DEF IInv, TypeInv, Sound
<1>5. \A q \in Processes \ {p} :
        /\ pc'[q] = pc[q] /\ before'[q] = before[q]
        /\ rank'[q] = rank[q] /\ executed'[q] = executed[q]
  BY DEF IInv, TypeInv
<1> QED BY <1>1, <1>2, <1>3, <1>4, <1>5, OneMoves

LEMMA SelectKeeps ==
  ASSUME IInv, NEW p \in Processes, Select(p)
  PROVE  IInv'
<1> USE DEF Select, Go
<1>1. commits' = commits /\ Grown
  BY SameRows
<1>2. TypeInv'
  BY DEF IInv, TypeInv, Places
<1>3. OneOwner'
  BY DEF IInv, OneOwner
<1>4. Sound(p)'
  <2>1. pc'[p] = "completed" => commits # <<>> /\ opened[p] = Owner(commits)
    BY DEF IInv, TypeInv, Mismatch, Owner
  <2>2. pc'[p] \in {"insert", "stopped", "completed"}
    BY DEF IInv, TypeInv
  <2>3. rank[p] = {} /\ \A r \in executed[p] : Stored(r)
    BY DEF IInv, Sound
  <2> QED BY <1>1, <2>1, <2>2, <2>3 DEF Sound, Stored
<1>5. \A q \in Processes \ {p} :
        /\ pc'[q] = pc[q] /\ before'[q] = before[q]
        /\ rank'[q] = rank[q] /\ executed'[q] = executed[q]
  BY DEF IInv, TypeInv
<1> QED BY <1>1, <1>2, <1>3, <1>4, <1>5, OneMoves

LEMMA InsertKeeps ==
  ASSUME IInv, NEW p \in Processes, Insert(p)
  PROVE  IInv'
<1> USE DEF Insert, Go
<1>1. \A q \in Processes \ {p} :
        /\ pc'[q] = pc[q] /\ before'[q] = before[q]
        /\ rank'[q] = rank[q] /\ executed'[q] = executed[q]
  BY DEF IInv, TypeInv
<1>2. CASE Owner(commits) # NoSpace
  <2>1. commits' = commits /\ Grown
    BY <1>2, SameRows
  <2>2. TypeInv'
    BY <1>2 DEF IInv, TypeInv, Places
  <2>3. OneOwner'
    BY <2>1 DEF IInv, OneOwner
  <2>4. Sound(p)'
    BY <1>2 DEF IInv, TypeInv, Sound
  <2> QED BY <1>1, <2>1, <2>2, <2>3, <2>4, OneMoves
<1>3. CASE Owner(commits) = NoSpace
  <2>1. commits = <<>>
    <3>1. commits # <<>> => commits[1] \in Row
      BY DEF IInv, TypeInv
    <3> QED BY <1>3, <3>1, CheckpointAssumption DEF Owner, Row
  <2>2. commits' = Append(commits, RunRow(opened[p])) /\ opened[p] \in Spaces
    BY <1>3 DEF IInv, TypeInv
  <2>3. commits' \in Seq(Row) /\ \A r : ~Stored(r)
    <3>1. commits \in Seq(Row)
      BY DEF IInv, TypeInv
    <3>2. RunRow(opened[p]) \in Row
      BY <2>2 DEF RunRow, Row
    <3> QED BY <2>1, <2>2, <3>1, <3>2 DEF Stored
  <2>4. /\ Len(commits') = 1 /\ DOMAIN commits' = {1} /\ commits' # <<>>
        /\ commits'[1] = RunRow(opened[p])
    BY <2>1, <2>2
  <2>5. Owner(commits') = opened[p] /\ commits'[1].table = "runs"
    BY <2>4 DEF Owner, RunRow
  <2>6. Grown
    BY <2>1, <2>3 DEF Grown
  <2>7. TypeInv'
    BY <1>3, <2>3 DEF IInv, TypeInv, Places
  <2>8. OneOwner'
    BY <2>4, <2>5 DEF OneOwner, RunRow
  <2>9. Sound(p)'
    <3>1. pc'[p] = "completed" /\ opened'[p] = opened[p]
      BY <1>3 DEF IInv, TypeInv
    <3>2. rank[p] = {} /\ \A r \in executed[p] : Stored(r)
      BY DEF IInv, Sound
    <3> QED BY <2>3, <2>4, <2>5, <3>1, <3>2 DEF Sound
  <2> QED BY <1>1, <2>6, <2>7, <2>8, <2>9, OneMoves
<1> QED BY <1>2, <1>3

LEMMA ReadCompletedKeeps ==
  ASSUME IInv, NEW p \in Processes, ReadCompleted(p)
  PROVE  IInv'
<1> USE DEF ReadCompleted, Go
<1>1. commits' = commits /\ Grown
  BY SameRows
<1>2. TypeInv'
  BY DEF IInv, TypeInv, Places, CompletedRanks
<1>3. OneOwner'
  BY DEF IInv, OneOwner
<1>4. Sound(p)'
  <2>1. \A r \in CompletedRanks(commits) : Stored(r)
    BY StoredHasStatus DEF IInv, TypeInv, CompletedRanks
  <2>2. before'[p] = CompletedRanks(commits)
    BY DEF IInv, TypeInv
  <2> QED BY <1>1, <2>1, <2>2 DEF IInv, TypeInv, Sound, Grown
<1>5. \A q \in Processes \ {p} :
        /\ pc'[q] = pc[q] /\ before'[q] = before[q]
        /\ rank'[q] = rank[q] /\ executed'[q] = executed[q]
  BY DEF IInv, TypeInv
<1> QED BY <1>1, <1>2, <1>3, <1>4, <1>5, OneMoves

LEMMA ExecuteKeeps ==
  ASSUME IInv, NEW p \in Processes, Execute(p)
  PROVE  IInv'
<1> USE DEF Execute, Go
<1>1. commits' = commits /\ Grown
  BY SameRows
<1>2. PICK r \in Pending(p) : /\ rank' = [rank EXCEPT ![p] = {r}]
                              /\ executed' = [executed EXCEPT ![p] = @ \cup {r}]
  OBVIOUS
<1>3. r \in Ranks
  BY DEF Pending
<1>4. TypeInv'
  BY <1>2, <1>3 DEF IInv, TypeInv, Places
<1>5. OneOwner'
  BY DEF IInv, OneOwner
<1>6. Sound(p)'
  <2>1. pc[p] = "loop" /\ pc'[p] = "record" /\ rank'[p] = {r}
    BY <1>2 DEF IInv, TypeInv
  <2>2. executed'[p] = executed[p] \cup {r} /\ before'[p] = before[p] /\ opened'[p] = opened[p]
    BY <1>2 DEF IInv, TypeInv
  <2>3. \A t \in before[p] \cup executed[p] : Stored(t)
    BY <2>1 DEF IInv, Sound
  <2>4. commits # <<>> /\ opened[p] = Owner(commits)
    BY <2>1 DEF IInv, Sound
  <2> QED BY <1>1, <1>3, <2>1, <2>2, <2>3, <2>4 DEF Sound, Stored
<1>7. \A q \in Processes \ {p} :
        /\ pc'[q] = pc[q] /\ before'[q] = before[q]
        /\ rank'[q] = rank[q] /\ executed'[q] = executed[q]
  BY <1>2 DEF IInv, TypeInv
<1> QED BY <1>1, <1>4, <1>5, <1>6, <1>7, OneMoves

LEMMA RecordKeeps ==
  ASSUME IInv, NEW p \in Processes, Record(p)
  PROVE  IInv'
<1> USE DEF Record, Go
<1>1. PICK r \in rank[p], s \in {"failed", "completed"} :
        commits' = Append(commits, TaskRow(opened[p], r, s))
  OBVIOUS
<1>2. r \in Ranks /\ opened[p] \in Spaces
  BY DEF IInv, TypeInv
<1>3. commits' \in Seq(Row)
  <2>1. commits \in Seq(Row) /\ TaskRow(opened[p], r, s) \in Row
    BY <1>2 DEF IInv, TypeInv, TaskRow, Row
  <2> QED BY <1>1, <2>1
<1>4. commits # <<>> /\ opened[p] = Owner(commits)
  BY DEF IInv, Sound
<1>5. /\ Len(commits) \in Nat \ {0} /\ Len(commits') = Len(commits) + 1
      /\ \A i \in 1..Len(commits) : commits'[i] = commits[i]
      /\ commits'[Len(commits) + 1] = TaskRow(opened[p], r, s)
  BY <1>1, <1>4 DEF IInv, TypeInv
<1>6. commits' # <<>> /\ Owner(commits') = Owner(commits)
  BY <1>3, <1>4, <1>5 DEF Owner
<1>7. Grown /\ Stored(r)'
  <2>1. ASSUME NEW t, Stored(t) PROVE Stored(t)'
    <3>1. PICK i \in DOMAIN commits : commits[i].table = "tasks" /\ commits[i].rank = t
      BY <2>1 DEF Stored
    <3>2. i \in DOMAIN commits' /\ commits'[i] = commits[i]
      BY <1>1, <1>5 DEF IInv, TypeInv
    <3> QED BY <3>1, <3>2 DEF Stored
  <2>2. Stored(r)'
    <3>1. Len(commits) + 1 \in DOMAIN commits'
      BY <1>3, <1>5
    <3> QED BY <1>5, <3>1 DEF Stored, TaskRow
  <2> QED BY <1>6, <2>1, <2>2 DEF Grown
<1>8. TypeInv'
  BY <1>3 DEF IInv, TypeInv, Places
<1>9. OneOwner'
  <2> SUFFICES ASSUME NEW i \in 1..Len(commits) + 1
               PROVE  /\ commits'[i].space = Owner(commits)
                      /\ commits'[i].table = "runs" <=> i = 1
    BY <1>3, <1>5, <1>6 DEF OneOwner
  <2>1. CASE i \in 1..Len(commits)
    BY <2>1, <1>5 DEF IInv, TypeInv, OneOwner
  <2>2. CASE i = Len(commits) + 1
    BY <2>2, <1>4, <1>5 DEF TaskRow
  <2> QED BY <2>1, <2>2, <1>5
<1>10. Sound(p)'
  <2>1. pc[p] = "record" /\ pc'[p] = "loop" /\ rank'[p] = {}
    BY DEF IInv, TypeInv
  <2>2. executed' = executed /\ before' = before /\ opened' = opened
    OBVIOUS
  <2>3. ASSUME NEW t \in executed[p] PROVE Stored(t)'
    <3>1. t \in rank[p] \/ Stored(t)
      BY <2>1 DEF IInv, Sound
    <3>2. rank[p] = {r}
      BY <2>1 DEF IInv, Sound
    <3> QED BY <1>7, <3>1, <3>2 DEF Grown
  <2>4. ASSUME NEW t \in before[p] PROVE Stored(t)'
    BY <1>7, <2>1 DEF IInv, Sound, Grown
  <2> QED BY <1>4, <1>6, <2>1, <2>2, <2>3, <2>4 DEF Sound
<1>11. \A q \in Processes \ {p} :
        /\ pc'[q] = pc[q] /\ before'[q] = before[q]
        /\ rank'[q] = rank[q] /\ executed'[q] = executed[q]
  BY DEF IInv, TypeInv
<1> QED BY <1>7, <1>8, <1>9, <1>10, <1>11, OneMoves

LEMMA ReturnKeeps ==
  ASSUME IInv, NEW p \in Processes, Return(p)
  PROVE  IInv'
<1> USE DEF Return, Go
<1>1. commits' = commits /\ Grown
  BY SameRows
<1>2. TypeInv'
  BY DEF IInv, TypeInv, Places
<1>3. OneOwner'
  BY DEF IInv, OneOwner
<1>4. ASSUME NEW r \in Ranks PROVE Stored(r)
  <2>1. r \in before[p] \cup executed[p]
    BY DEF Pending
  <2> QED BY <2>1 DEF IInv, Sound
<1>5. Sound(p)'
  BY <1>4 DEF IInv, TypeInv, Sound, Stored
<1>6. \A q \in Processes \ {p} :
        /\ pc'[q] = pc[q] /\ before'[q] = before[q]
        /\ rank'[q] = rank[q] /\ executed'[q] = executed[q]
  BY DEF IInv, TypeInv
<1> QED BY <1>1, <1>2, <1>3, <1>5, <1>6, OneMoves

LEMMA StopKeeps ==
  ASSUME IInv, NEW p \in Processes, Stop(p)
  PROVE  IInv'
<1> USE DEF Stop
<1>1. commits' = commits /\ Grown
  BY SameRows
<1>2. TypeInv'
  BY DEF IInv, TypeInv, Places
<1>3. OneOwner'
  BY DEF IInv, OneOwner
<1>4. Sound(p)'
  BY DEF IInv, TypeInv, Sound
<1>5. \A q \in Processes \ {p} :
        /\ pc'[q] = pc[q] /\ before'[q] = before[q]
        /\ rank'[q] = rank[q] /\ executed'[q] = executed[q]
  BY DEF IInv, TypeInv
<1> QED BY <1>1, <1>2, <1>3, <1>4, <1>5, OneMoves

LEMMA NextInv == IInv /\ [Next]_vars => IInv'
<1> SUFFICES ASSUME IInv, [Next]_vars PROVE IInv'
  OBVIOUS
<1>1. CASE UNCHANGED vars
  BY <1>1 DEF vars, IInv, TypeInv, OneOwner, Sound, Stored
<1>2. ASSUME NEW p \in Processes,
             \/ Start(p) \/ Select(p) \/ Insert(p) \/ ReadCompleted(p)
             \/ Execute(p) \/ Record(p) \/ Return(p) \/ Stop(p)
      PROVE  IInv'
  BY <1>2, StartKeeps, SelectKeeps, InsertKeeps, ReadCompletedKeeps, ExecuteKeeps,
     RecordKeeps, ReturnKeeps, StopKeeps
<1> QED BY <1>1, <1>2 DEF Next

-----------------------------------------------------------------------------

\* The invariant holds for any number of processes, spaces and ranks.
THEOREM SharedSound == Spec => []IInv
BY InitInv, NextInv, PTL DEF Spec

\* However the statements of ensure_run, of record and of the reads interleave
\* (127-190): all rows of a run id are of the space that got it first, a process
\* that is past ensure_run has this space, and one that returns leaves an outcome
\* for every rank.
THEOREM KeepsItsSpace == Spec => []RunHasOneSpace
<1>1. IInv => RunHasOneSpace
  BY StoredHasStatus DEF IInv, TypeInv, OneOwner, Sound, RunHasOneSpace
<1> QED BY <1>1, SharedSound, PTL
=============================================================================
