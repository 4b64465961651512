------------------------------- MODULE Runner -------------------------------
(***************************************************************************)
(* Runner.run of finspace/runner.py: a client runs a function over a list  *)
(* of ranks, a pool of workers executes it, the main thread records each   *)
(* result in the checkpoint, and a later run skips what is stored as       *)
(* completed.  Runs follow one another on the same checkpoint; each may    *)
(* return, raise, or die with its process or with the machine.             *)
(*                                                                         *)
(* The sequential backend takes the same steps as a pool of one worker     *)
(* that holds one rank at a time.                                          *)
(***************************************************************************)
EXTENDS Checkpoint

CONSTANTS
  Sources,      \* the ranks arguments, each a sequence of integers
  Limits,       \* the limit arguments: naturals
  Resumes,      \* the resume arguments
  FailFasts,    \* the fail_fast arguments
  Stores,       \* whether a checkpoint path is given
  Backends,     \* the backend arguments
  Workers,      \* max_workers
  Capacity,     \* max_in_flight, or four times the workers
  MaxRows,      \* bound: how many rows a run may find in the checkpoint
  MaxFailures,  \* bound: how many executions fail
  MaxCrashes    \* bound: how many crashes, power losses and dead workers

ASSUME RunnerAssumption ==
  /\ Ranks \subseteq Int /\ IsFiniteSet(Ranks)
  /\ Sources \subseteq Seq(Int) /\ Limits \subseteq Nat
  /\ Resumes \subseteq BOOLEAN /\ FailFasts \subseteq BOOLEAN /\ Stores \subseteq BOOLEAN
  /\ Backends \subseteq {"sequential", "thread", "process"}
  /\ Workers \in Nat \ {0} /\ Capacity \in Nat \ {0}
  /\ MaxRows \in Nat /\ MaxFailures \in Nat /\ MaxCrashes \in Nat

VARIABLES
  commits,    \* the rows committed to the checkpoint, in order
  synced,     \* how many of them no power loss can take back
  phase,      \* where the main thread is
  args,       \* the arguments of the run
  source,     \* the ranks not yet drawn from the iterable
  before,     \* completed_before
  counters,   \* submitted, skipped, completed and failed
  futures,    \* the futures dict, and what became of each future
  batch,      \* the ids of done that the for loop has yet to visit
  task,       \* the TaskResult last yielded
  did,        \* history: ranks whose function completed during this run
  failures, crashes  \* how much of the bounds is used up

store == <<commits, synced>>
loop == <<args, before>>
bounds == <<failures, crashes>>
vars == <<commits, synced, phase, args, source, before, counters, futures, batch,
          task, did, failures, crashes>>

Pending == "pending"
Outcome == {"completed", "failed", "unserializable", "broken"}
Working == phase \in {"fill", "wait", "batch", "record", "refill"}

Zero == [submitted |-> 0, skipped |-> 0, completed |-> 0, failed |-> 0]
Idle == [id |-> 0, rank |-> 0, state |-> Pending]

Room == IF args.backend = "sequential" THEN 1 ELSE Capacity
Crew == IF args.backend = "sequential" THEN 1 ELSE Workers
Done == {f \in futures : f.state # Pending}

Init ==
  /\ commits = <<>> /\ synced = 0
  /\ phase = "off"
  /\ args = [stored |-> FALSE, resume |-> FALSE, failFast |-> FALSE,
             backend |-> "sequential", space |-> CHOOSE s \in Spaces : TRUE, source |-> <<>>]
  /\ source = <<>> /\ before = {} /\ counters = Zero
  /\ futures = {} /\ batch = {} /\ task = Idle /\ did = {}
  /\ failures = 0 /\ crashes = 0

\* Variation: every run starts from an empty completed_before.
BeforeNothing(rows, a) == {}

\* Variation: failed ranks are skipped too.
BeforeAny(rows, a) ==
  IF a.stored /\ a.resume THEN {r \in Ranks : StatusOf(rows, r) # "none"} ELSE {}

\* completed_before: what an earlier run left, if there is a checkpoint and the
\* caller asks to resume.
Before(rows, a) == IF a.stored /\ a.resume THEN CompletedRanks(rows) ELSE {}

\* run (262-277): ensure_run raises before any rank is drawn when the run id
\* belongs to another space.  Refused leaves the connection open.
Refused(rows, a) == a.stored /\ Mismatch(rows, a.space)

Start ==
  /\ phase \in {"off", "returned", "raised"}
  /\ Len(commits) <= MaxRows
  /\ \E ranks \in Sources, limit \in Limits, resume \in Resumes, failFast \in FailFasts,
        stored \in Stores, backend \in Backends, space \in Spaces :
       LET a == [stored |-> stored, resume |-> resume, failFast |-> failFast,
                 backend |-> backend, space |-> space,
                 source |-> SubSeq(ranks, 1, Min({limit, Len(ranks)}))]
           rows == IF stored THEN EnsureRun(commits, space) ELSE commits
       IN  /\ args' = a
           /\ source' = a.source
           /\ IF Refused(commits, a)
                THEN phase' = "raised" /\ UNCHANGED <<commits, before>>
                ELSE /\ phase' = "fill"
                     /\ commits' = rows
                     /\ before' = Before(rows, a)
  /\ counters' = Zero
  /\ futures' = {} /\ batch' = {} /\ task' = Idle /\ did' = {}
  /\ UNCHANGED <<synced, failures, crashes>>

-----------------------------------------------------------------------------
(* Ends of a run *)

\* store.close: the last connection copies the log into the database.
Close == synced' = IF args.stored THEN Len(commits') ELSE synced

\* An exception in the generator leaves the executor's block first, which waits
\* for the futures it holds; only then is the store closed (251, 302-314).
RaiseInside ==
  /\ phase' = "unwinding"
  /\ UNCHANGED <<commits, synced, task>>

Unwound ==
  /\ phase = "unwinding"
  /\ futures = Done
  /\ phase' = "raised"
  /\ UNCHANGED <<commits, source, counters, futures, batch, task, did, loop, bounds>>
  /\ Close

-----------------------------------------------------------------------------
(* The generator of ranks: pending() *)

\* How many ranks at the head of the source are skipped.
Leading == Max({n \in 0..Len(source) : \A i \in 1..n : source[i] \in before})

Exhausted == Leading = Len(source)
NextRank == source[Leading + 1]

\* Variation: skipped ranks are not submitted.
DrawnUncounted(n) ==
  /\ source' = SubSeq(source, n + 1, Len(source))
  /\ counters' = [counters EXCEPT !.submitted = @ + n - Leading, !.skipped = @ + Leading]

\* Draws n ranks, of which Leading are skipped.
Drawn(n) ==
  /\ source' = SubSeq(source, n + 1, Len(source))
  /\ counters' = [counters EXCEPT !.submitted = @ + n, !.skipped = @ + Leading]

InSpace(rank) == rank \in Ranks

\* submit_one (234-242), after which the main thread is at the given place.
SubmitNone(place) ==
  /\ Exhausted
  /\ Drawn(Leading)
  /\ phase' = place
  /\ UNCHANGED <<commits, synced, futures, task>>

SubmitBad ==
  /\ ~Exhausted
  /\ ~InSpace(NextRank) \/ (\E f \in futures : f.state = "broken")
  /\ Drawn(Leading + 1)
  /\ RaiseInside
  /\ UNCHANGED futures

SubmitOne(place) ==
  /\ ~Exhausted
  /\ InSpace(NextRank) /\ \A f \in futures : f.state # "broken"
  /\ Drawn(Leading + 1)
  /\ futures' = futures \cup
       {[id |-> counters.submitted + Leading + 1, rank |-> NextRank, state |-> Pending]}
  /\ phase' = place
  /\ UNCHANGED <<commits, synced, task>>

Submit(none, one) == SubmitNone(none) \/ SubmitBad \/ SubmitOne(one)

\* Variation: the first futures are one too many.
FillOver ==
  /\ phase = "fill"
  /\ Submit("wait", IF Cardinality(futures) < Room THEN "fill" ELSE "wait")
  /\ UNCHANGED <<batch, did, loop, bounds>>

\* for _ in range(capacity): submit_one (244-246)
Fill ==
  /\ phase = "fill"
  /\ Submit("wait", IF Cardinality(futures) + 1 < Room THEN "fill" ELSE "wait")
  /\ UNCHANGED <<batch, did, loop, bounds>>

\* submit_one after a result (252)
Refill ==
  /\ phase = "refill"
  /\ Submit("batch", "batch")
  /\ UNCHANGED <<batch, did, loop, bounds>>

-----------------------------------------------------------------------------
(* The loop over futures *)

\* Variation: wait for a full set of futures.
WaitFull ==
  /\ phase = "wait" /\ Cardinality(Done) = Room
  /\ batch' = {f.id : f \in Done}
  /\ phase' = "batch"
  /\ UNCHANGED <<commits, synced, source, counters, futures, task, did, loop, bounds>>

\* done, _ = wait(futures, FIRST_COMPLETED) (248)
Wait ==
  /\ phase = "wait" /\ Done # {}
  /\ batch' = {f.id : f \in Done}
  /\ phase' = "batch"
  /\ UNCHANGED <<commits, synced, source, counters, futures, task, did, loop, bounds>>

\* while futures ends, and with it the run (247, 314-325).
Return ==
  /\ phase = "wait" /\ futures = {}
  /\ phase' = "returned"
  /\ UNCHANGED <<commits, source, counters, futures, batch, task, did, loop, bounds>>
  /\ Close

\* futures.pop and yield future.result() (249-251); done is an unordered set.
Take ==
  /\ phase = "batch"
  /\ \E f \in futures :
       /\ f.id \in batch
       /\ futures' = futures \ {f}
       /\ batch' = batch \ {f.id}
       /\ IF f.state = "broken"
            THEN RaiseInside
            ELSE /\ task' = f
                 /\ phase' = "record"
                 /\ UNCHANGED <<commits, synced>>
  /\ UNCHANGED <<source, counters, did, loop, bounds>>

BatchEnd ==
  /\ phase = "batch" /\ batch = {}
  /\ phase' = "wait"
  /\ UNCHANGED <<commits, synced, source, counters, futures, batch, task, did, loop, bounds>>

\* json.dumps refuses the result before anything is written (151-152).
RecordRefused ==
  /\ phase = "record"
  /\ args.stored /\ task.state = "unserializable"
  /\ phase' = "raised"
  /\ UNCHANGED <<commits, source, counters, futures, batch, task, did, loop, bounds>>
  /\ Close

\* Variation: only what completed is stored.
StoreCompleted(status) ==
  commits' = IF args.stored /\ status = "completed"
               THEN Append(commits, TaskRow(args.space, task.rank, status)) ELSE commits

\* store.record: the upsert and its commit (153-174).
Store(status) ==
  commits' = IF args.stored
               THEN Append(commits, TaskRow(args.space, task.rank, status)) ELSE commits

\* The body of the for loop (304-311).  With fail_fast a failure ends the run
\* at once and closes the store; futures in flight run on and are forgotten.
Record ==
  /\ phase = "record"
  /\ args.stored => task.state # "unserializable"
  /\ LET status == IF task.state = "failed" THEN "failed" ELSE "completed"
     IN  /\ Store(status)
         /\ counters' = [counters EXCEPT ![status] = @ + 1]
         /\ IF status = "failed" /\ args.failFast
              THEN phase' = "raised" /\ Close
              ELSE phase' = "refill" /\ UNCHANGED synced
  /\ UNCHANGED <<source, futures, batch, task, did, loop, bounds>>

-----------------------------------------------------------------------------
(* Workers, and what may go wrong *)

\* A worker runs _execute_function to its end; the pool starts the futures in
\* the order of their submission, at most Crew at a time.
Finish ==
  /\ phase # "off"
  /\ \E f \in futures, o \in Outcome \ {"broken"} :
       /\ f.state = Pending
       /\ Cardinality({g \in futures : g.state = Pending /\ g.id < f.id}) < Crew
       /\ o # "completed" => failures < MaxFailures
       /\ failures' = IF o = "completed" THEN failures ELSE failures + 1
       /\ futures' = (futures \ {f}) \cup {[f EXCEPT !.state = o]}
       /\ did' = IF o = "completed" THEN did \cup {f.rank} ELSE did
  /\ UNCHANGED <<store, phase, source, counters, batch, task, loop, crashes>>

\* A worker process dies and takes with it every future that is not done.
BreakPool ==
  /\ phase # "off" /\ args.backend = "process"
  /\ crashes < MaxCrashes
  /\ Done # futures
  /\ futures' = {IF f.state = Pending THEN [f EXCEPT !.state = "broken"] ELSE f : f \in futures}
  /\ crashes' = crashes + 1
  /\ UNCHANGED <<store, phase, source, counters, batch, task, did, loop, failures>>

\* What dies with the process.
Die ==
  /\ crashes < MaxCrashes
  /\ crashes' = crashes + 1
  /\ phase' = "off"
  /\ source' = <<>> /\ counters' = Zero
  /\ futures' = {} /\ batch' = {} /\ task' = Idle /\ did' = {}
  /\ UNCHANGED <<loop, failures>>

Crash ==
  /\ Working \/ phase = "unwinding"
  /\ Die
  /\ UNCHANGED store

PowerLoss ==
  /\ synced < Len(commits)
  /\ Die
  /\ \E n \in synced..Len(commits) : commits' = SubSeq(commits, 1, n)
  /\ UNCHANGED synced

\* SQLite may copy its log into the database at any commit.
Sync ==
  /\ Working /\ args.stored
  /\ synced < Len(commits)
  /\ synced' = Len(commits)
  /\ UNCHANGED <<commits, phase, source, counters, futures, batch, task, did, loop, bounds>>

-----------------------------------------------------------------------------

MainThread == Fill \/ Refill \/ Wait \/ Return \/ Take \/ BatchEnd \/ RecordRefused
                \/ Record \/ Unwound
Faults == BreakPool \/ Crash \/ PowerLoss
Next == Start \/ MainThread \/ Finish \/ Faults \/ Sync

Spec == Init /\ [][Next]_vars

\* The main thread and the workers are not suspended, and the function returns.
FairSpec == Spec /\ WF_vars(MainThread) /\ WF_vars(Finish)

-----------------------------------------------------------------------------

Yielded == IF phase = "record" THEN 1 ELSE 0
Handed == counters.submitted - counters.skipped
Settled == counters.completed + counters.failed

\* The docstring's promise (196-197): the run is never more than the capacity
\* ahead of the results it has recorded, and what it has drawn and not recorded
\* is in the futures dict or just yielded, once each.
Lazy ==
  Working =>
    /\ Handed - Settled = Cardinality(futures) + Yielded
    /\ Handed - Settled <= Room
    /\ counters.submitted + Len(source) = Len(args.source)

\* A summary is returned only when every rank of the source is accounted for.
AllAccounted ==
  phase = "returned" =>
    /\ counters.submitted = Len(args.source)
    /\ counters.submitted = counters.completed + counters.failed + counters.skipped

Distinct(s) == \A i, j \in DOMAIN s : s[i] = s[j] => i = j
StoredAs(status) == {i \in DOMAIN args.source : StatusOf(commits, args.source[i]) = status}

\* The summary says what the checkpoint says, rank by rank: for distinct ranks,
\* as many of them are stored completed as it says were completed or skipped,
\* and as many are stored failed as it says failed.
SummaryIsTrue ==
  phase = "returned" /\ args.stored /\ Distinct(args.source) =>
    /\ Cardinality(StoredAs("completed")) = counters.completed + counters.skipped
    /\ Cardinality(StoredAs("failed")) = counters.failed

\* docs/runner.md:25: completed ranks are stored.  Whatever ended the run, short
\* of a crash, the ranks whose function completed during it are in the store.
CompletedAreStored ==
  phase \in {"returned", "raised"} /\ args.stored =>
    \A r \in did : StatusOf(commits, r) = "completed"

\* Every run ends, unless its process dies, which is an end too.
RunEnds == Working \/ phase = "unwinding" ~> phase \in {"returned", "raised", "off"}
=============================================================================
