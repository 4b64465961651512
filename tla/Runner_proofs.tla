---------------------------- MODULE Runner_proofs ----------------------------
(***************************************************************************)
(* What a run of the runner does to the ranks it is given, for any list of *)
(* ranks, any capacity and number of workers, and any faults: it keeps to  *)
(* its capacity, accounts for every rank, and summarises truly; and runs   *)
(* that resume make up a campaign.                                         *)
(***************************************************************************)
EXTENDS RunnerCampaign, NumberLemmas, FiniteSetTheorems, FunctionTheorems

-----------------------------------------------------------------------------
(* What the operators of Checkpoint return when a row is appended *)

\* The rows of a rank.
RowsOf(rows, r) ==
  {i \in DOMAIN rows : rows[i].table = "tasks" /\ rows[i].rank = r}

\* A row of the tasks table has a rank and a status.
LEMMA TaskFields ==
  ASSUME NEW row \in Row, row.table = "tasks"
  PROVE  row.rank \in Ranks /\ row.status \in {"failed", "completed"} /\ row.space \in Spaces
BY DEF Row

\* The last row of a rank is the one that counts.
LEMMA LastRowCounts ==
  ASSUME NEW rows \in Seq(Row), NEW r, NEW m \in RowsOf(rows, r),
         \A i \in RowsOf(rows, r) : i <= m
  PROVE  StatusOf(rows, r) = rows[m].status
<1> DEFINE at == RowsOf(rows, r)
<1>1. at \subseteq Int
  BY DEF RowsOf
<1>2. Max(at) = m
  <2>1. m \in at /\ \A y \in at : m >= y
    BY <1>1
  <2>2. ASSUME NEW x \in at, \A y \in at : x >= y PROVE x = m
    BY <1>1, <2>1, <2>2
  <2> HIDE DEF at
  <2> QED BY <2>1, <2>2, Zenon DEF Max
<1>3. StatusOf(rows, r) = IF at = {} THEN "none" ELSE rows[Max(at)].status
  BY Zenon DEF StatusOf, RowsOf
<1> HIDE DEF at
<1> QED BY <1>2, <1>3 DEF at

\* A rank has a status exactly when it has a row, and a last one then.
LEMMA StatusFacts ==
  ASSUME NEW rows \in Seq(Row), NEW r
  PROVE  /\ RowsOf(rows, r) = {} => StatusOf(rows, r) = "none"
         /\ RowsOf(rows, r) # {} =>
              \E m \in RowsOf(rows, r) :
                /\ \A i \in RowsOf(rows, r) : i <= m
                /\ StatusOf(rows, r) = rows[m].status
                /\ StatusOf(rows, r) \in {"failed", "completed"}
<1>1. CASE RowsOf(rows, r) = {}
  BY <1>1, Zenon DEF StatusOf, RowsOf
<1>2. CASE RowsOf(rows, r) # {}
  <2>1. Len(rows) \in Nat /\ RowsOf(rows, r) \in SUBSET (0..Len(rows))
    BY DEF RowsOf
  <2> DEFINE m == Max(RowsOf(rows, r))
  <2>2. m \in RowsOf(rows, r) /\ \A i \in RowsOf(rows, r) : i <= m
    BY <1>2, <2>1, MaxFacts
  <2> HIDE DEF m
  <2>3. StatusOf(rows, r) = rows[m].status
    BY <2>2, LastRowCounts
  <2>4. rows[m] \in Row /\ rows[m].table = "tasks"
    BY <2>2 DEF RowsOf
  <2>5. rows[m].status \in {"failed", "completed"}
    BY <2>4, TaskFields
  <2> QED BY <1>2, <2>2, <2>3, <2>5
<1> QED BY <1>1, <1>2

\* ensure_run changes the status of no rank.
LEMMA StatusAfterRun ==
  ASSUME NEW rows \in Seq(Row), NEW space \in Spaces, NEW r
  PROVE  /\ Append(rows, RunRow(space)) \in Seq(Row)
         /\ StatusOf(Append(rows, RunRow(space)), r) = StatusOf(rows, r)
<1> DEFINE after == Append(rows, RunRow(space))
<1>1. RunRow(space) \in Row /\ RunRow(space).table = "runs"
  BY DEF RunRow, Row
<1>2. /\ after \in Seq(Row)
      /\ Len(after) = Len(rows) + 1
      /\ \A i \in 1..Len(rows) : after[i] = rows[i]
      /\ after[Len(rows) + 1].table = "runs"
  BY <1>1
<1> HIDE DEF after
<1>3. RowsOf(after, r) = RowsOf(rows, r)
  BY <1>2 DEF RowsOf
<1>4. CASE RowsOf(rows, r) = {}
  BY <1>2, <1>3, <1>4, StatusFacts DEF after
<1>5. CASE RowsOf(rows, r) # {}
  <2>1. PICK m \in RowsOf(rows, r) : /\ \A i \in RowsOf(rows, r) : i <= m
                                        /\ StatusOf(rows, r) = rows[m].status
    BY <1>5, StatusFacts
  <2>2. StatusOf(after, r) = after[m].status
    BY <1>2, <1>3, <2>1, LastRowCounts
  <2>3. after[m] = rows[m]
    BY <1>2 DEF RowsOf
  <2> QED BY <1>2, <2>1, <2>2, <2>3 DEF after
<1> QED BY <1>4, <1>5

\* record changes the status of its rank, and of no other.
LEMMA StatusAfterTask ==
  ASSUME NEW rows \in Seq(Row), NEW space \in Spaces, NEW rank \in Ranks,
         NEW status \in {"failed", "completed"}, NEW r
  PROVE  /\ Append(rows, TaskRow(space, rank, status)) \in Seq(Row)
         /\ StatusOf(Append(rows, TaskRow(space, rank, status)), r)
              = IF r = rank THEN status ELSE StatusOf(rows, r)
<1> DEFINE row == TaskRow(space, rank, status)
           after == Append(rows, row)
           last == Len(rows) + 1
<1>1. row \in Row /\ row.table = "tasks" /\ row.rank = rank /\ row.status = status
  BY DEF TaskRow, Row
<1> HIDE DEF row
<1>2. /\ after \in Seq(Row)
      /\ Len(after) = last
      /\ \A i \in 1..Len(rows) : after[i] = rows[i]
      /\ after[last] = row
  BY <1>1
<1> HIDE DEF after
<1>3. CASE r = rank
  <2>1. last \in RowsOf(after, r) /\ \A i \in RowsOf(after, r) : i <= last
    BY <1>1, <1>2, <1>3 DEF RowsOf
  <2>2. StatusOf(after, r) = after[last].status
    BY <1>2, <2>1, LastRowCounts
  <2> QED BY <1>1, <1>2, <1>3, <2>2 DEF after, row
<1>4. CASE r # rank
  <2>1. RowsOf(after, r) = RowsOf(rows, r)
    BY <1>1, <1>2, <1>4 DEF RowsOf
  <2>2. CASE RowsOf(rows, r) = {}
    BY <1>2, <1>4, <2>1, <2>2, StatusFacts DEF after, row
  <2>3. CASE RowsOf(rows, r) # {}
    <3>1. PICK m \in RowsOf(rows, r) : /\ \A i \in RowsOf(rows, r) : i <= m
                                          /\ StatusOf(rows, r) = rows[m].status
      BY <2>3, StatusFacts
    <3>2. StatusOf(after, r) = after[m].status
      BY <1>2, <2>1, <3>1, LastRowCounts
    <3>3. after[m] = rows[m]
      BY <1>2 DEF RowsOf
    <3> QED BY <1>2, <1>4, <3>1, <3>2, <3>3 DEF after, row
  <2> QED BY <2>2, <2>3
<1> QED BY <1>3, <1>4

-----------------------------------------------------------------------------
(* The run and its futures *)

Future == [id : Nat, rank : Ranks, state : {Pending} \cup Outcome]
Phases == {"fill", "wait", "batch", "record", "refill", "unwinding", "returned", "raised", "off"}
Counters == [submitted : Nat, skipped : Nat, completed : Nat, failed : Nat]

TypeInv ==
  /\ commits \in Seq(Row) /\ synced \in 0..Len(commits)
  /\ phase \in Phases
  /\ args.source \in Seq(Int)
  /\ phase # "off" => args.space \in Spaces
  /\ source \in Seq(Int) /\ before \subseteq Ranks
  /\ counters \in Counters
  /\ futures \subseteq Future /\ IsFiniteSet(futures)
  /\ phase = "record" => task \in Future

\* The number of ranks drawn is a position in the list of ranks, and each future
\* has the position of its rank as its id.
At(f) ==
  /\ f.id \in 1..counters.submitted
  /\ f.rank = args.source[f.id]
  /\ f.rank \notin before

PositionInv ==
  /\ phase # "off" =>
       /\ counters.submitted + Len(source) = Len(args.source)
       /\ \A i \in 1..Len(source) : source[i] = args.source[counters.submitted + i]
  /\ \A f \in futures : At(f)
  /\ \A f, g \in futures : f.id = g.id => f = g
  /\ phase = "record" => At(task) /\ \A f \in futures : f.id # task.id

\* What is drawn and not settled is in the futures, of which there is room for one
\* more wherever one is submitted; the futures only run out with the source.
CountInv ==
  /\ Working \/ phase = "returned" => Handed - Settled = Cardinality(futures) + Yielded
  /\ phase \in {"fill", "refill", "record"} => Cardinality(futures) < Room
  /\ phase \in {"wait", "batch"} =>
       /\ Cardinality(futures) <= Room
       /\ futures = {} => source = <<>>
  /\ phase = "returned" => futures = {} /\ source = <<>>

FlowInv == TypeInv /\ PositionInv /\ CountInv

LEMMA RoomFacts == Room \in Nat \ {0}
BY RunnerAssumption DEF Room

LEMMA FlowInit == Init => FlowInv
<1> SUFFICES ASSUME Init PROVE FlowInv
  OBVIOUS
<1>1. TypeInv
  BY FS_EmptySet DEF Init, TypeInv, Phases, Counters, Zero
<1>2. PositionInv
  BY DEF Init, PositionInv
<1>3. CountInv
  BY DEF Init, CountInv, Working
<1> QED BY <1>1, <1>2, <1>3 DEF FlowInv

\* A limit only shortens the list of ranks.
LEMMA MinFacts ==
  ASSUME NEW s \in Seq(Int), NEW limit \in Nat
  PROVE  Min({limit, Len(s)}) \in Int /\ Min({limit, Len(s)}) <= Len(s)
<1> DEFINE S == {limit, Len(s)}
<1>1. \E x \in S : \A y \in S : x =< y
  OBVIOUS
<1>2. Min(S) \in S /\ \A y \in S : Min(S) =< y
  BY <1>1, Zenon DEF Min
<1> QED BY <1>2

\* What starting a run sets.
LEMMA StartFacts ==
  ASSUME Start
  PROVE  \E ranks \in Sources, limit \in Limits, stored \in Stores, resume \in Resumes,
            space \in Spaces :
           /\ args'.stored = stored /\ args'.resume = resume /\ args'.space = space
           /\ args'.source = SubSeq(ranks, 1, Min({limit, Len(ranks)}))
           /\ source' = args'.source
           /\ \/ phase' = "raised" /\ UNCHANGED <<commits, before>>
              \/ /\ phase' = "fill"
                 /\ commits' = IF stored THEN EnsureRun(commits, space) ELSE commits
                 /\ before' = Before(commits', args')
<1>1. PICK ranks \in Sources, limit \in Limits, resume \in Resumes, failFast \in FailFasts,
           stored \in Stores, backend \in Backends, space \in Spaces :
        LET a == [stored |-> stored, resume |-> resume, failFast |-> failFast,
                  backend |-> backend, space |-> space,
                  source |-> SubSeq(ranks, 1, Min({limit, Len(ranks)}))]
            rows == IF stored THEN EnsureRun(commits, space) ELSE commits
        IN  /\ args' = a
            /\ source' = a.source
            /\ IF Refused(commits, a)
                 THEN phase' = "raised" /\ UNCHANGED <<commits, before>>
                 ELSE /\ phase' = "fill"
                      /\ commits' = rows
                      /\ before' = Before(rows, a)
  BY DEF Start
<1> WITNESS ranks \in Sources, limit \in Limits, stored \in Stores, resume \in Resumes,
            space \in Spaces
<1> QED BY <1>1

LEMMA FlowStart == FlowInv /\ Start => FlowInv'
<1> SUFFICES ASSUME FlowInv, Start PROVE FlowInv'
  OBVIOUS
<1> USE DEF Start
<1>1. PICK ranks \in Sources, limit \in Limits, stored \in Stores, resume \in Resumes,
           space \in Spaces :
        /\ args'.stored = stored /\ args'.resume = resume /\ args'.space = space
        /\ args'.source = SubSeq(ranks, 1, Min({limit, Len(ranks)}))
        /\ source' = args'.source
        /\ \/ phase' = "raised" /\ UNCHANGED <<commits, before>>
           \/ /\ phase' = "fill"
              /\ commits' = IF stored THEN EnsureRun(commits, space) ELSE commits
              /\ before' = Before(commits', args')
  BY StartFacts
<1>2. args'.source \in Seq(Int) /\ source' = args'.source
  <2>1. ranks \in Seq(Int) /\ limit \in Nat
    BY RunnerAssumption
  <2> DEFINE m == Min({limit, Len(ranks)})
  <2>2. m \in Int /\ m <= Len(ranks)
    BY <2>1, MinFacts
  <2> HIDE DEF m
  <2>3. \A i \in 1..m : ranks[i] \in Int
    BY <2>1, <2>2
  <2>4. SubSeq(ranks, 1, m) \in Seq(Int)
    BY <2>1, <2>2, <2>3
  <2> QED BY <1>1, <2>4 DEF m
<1>3. commits' \in Seq(Row) /\ Len(commits') >= Len(commits)
  <2>1. commits \in Seq(Row)
    BY DEF FlowInv, TypeInv
  <2>2. Append(commits, RunRow(space)) \in Seq(Row)
    BY <2>1, StatusAfterRun
  <2> QED BY <1>1, <2>1, <2>2 DEF EnsureRun
<1>4. before' \subseteq Ranks
  BY <1>1 DEF FlowInv, TypeInv, Before, CompletedRanks
<1>5. phase' \in {"fill", "raised"} /\ args'.space \in Spaces
  BY <1>1
<1>6. TypeInv'
  <2>1. synced' \in 0..Len(commits')
    BY <1>3 DEF FlowInv, TypeInv
  <2> QED BY <1>2, <1>3, <1>4, <1>5, <2>1, FS_EmptySet DEF TypeInv, Phases, Counters, Zero
<1>7. PositionInv'
  <2>1. counters'.submitted + Len(source') = Len(args'.source)
    BY <1>2 DEF Zero
  <2>2. \A i \in 1..Len(source') : source'[i] = args'.source[counters'.submitted + i]
    BY <1>2 DEF Zero
  <2>3. futures' = {} /\ phase' # "record"
    BY <1>5
  <2> QED BY <2>1, <2>2, <2>3 DEF PositionInv
<1>8. CountInv'
  <2>1. Cardinality(futures') = 0
    BY FS_EmptySet
  <2>2. Room' \in Nat \ {0}
    BY RunnerAssumption DEF Room
  <2> QED BY <1>5, <2>1, <2>2 DEF CountInv, Working, Handed, Settled, Yielded, Zero
<1> QED BY <1>6, <1>7, <1>8 DEF FlowInv

-----------------------------------------------------------------------------
(* Submitting *)

\* A rank keeps its position while more of them are drawn.
LEMMA AtStays ==
  ASSUME UNCHANGED loop, counters.submitted \in Nat, counters'.submitted \in Nat,
         counters.submitted <= counters'.submitted,
         NEW f, At(f)
  PROVE  At(f)'
BY DEF loop, At

\* What a set of records says of each counter.
LEMMA CounterTypes ==
  FlowInv => /\ counters.submitted \in Nat /\ counters.skipped \in Nat
             /\ counters.completed \in Nat /\ counters.failed \in Nat
BY DEF FlowInv, TypeInv, Counters

\* The ranks in front of NextRank are those to be skipped.
LEMMA LeadingFacts ==
  ASSUME source \in Seq(Int)
  PROVE  /\ Leading \in 0..Len(source)
         /\ \A i \in 1..Leading : source[i] \in before
         /\ ~Exhausted => Leading + 1 \in 1..Len(source) /\ NextRank \notin before
<1> DEFINE S == {n \in 0..Len(source) : \A i \in 1..n : source[i] \in before}
<1>1. Len(source) \in Nat /\ S \in SUBSET (0..Len(source))
  OBVIOUS
<1>2. 0 \in S
  OBVIOUS
<1>3. Max(S) \in S /\ \A n \in S : n <= Max(S)
  BY <1>1, <1>2, MaxFacts
<1>4. Leading = Max(S)
  BY DEF Leading
<1>5. Leading \in S /\ \A n \in S : n <= Leading
  BY <1>3, <1>4
<1>6. ASSUME Leading # Len(source), source[Leading + 1] \in before PROVE FALSE
  <2>1. Leading + 1 \in 0..Len(source) /\ \A i \in 1..Leading + 1 : source[i] \in before
    BY <1>5, <1>6
  <2>2. Leading + 1 \in S
    BY <2>1
  <2> QED BY <1>5, <2>2
<1> QED BY <1>5, <1>6 DEF Exhausted, NextRank

\* Drawing n ranks, the first Leading of which are skipped.
LEMMA DrawnFacts ==
  ASSUME FlowInv, phase # "off", NEW n \in 0..Len(source), Drawn(n), args' = args
  PROVE  /\ source' \in Seq(Int) /\ Len(source') = Len(source) - n
         /\ counters' \in Counters
         /\ counters'.submitted = counters.submitted + n
         /\ counters'.skipped = counters.skipped + Leading
         /\ counters'.completed = counters.completed /\ counters'.failed = counters.failed
         /\ counters'.submitted + Len(source') = Len(args'.source)
         /\ \A i \in 1..Len(source') : source'[i] = args'.source[counters'.submitted + i]
<1>1. /\ source \in Seq(Int) /\ Leading \in Nat /\ Len(source) \in Nat /\ n \in Nat
      /\ n <= Len(source) /\ args' = args
  BY LeadingFacts DEF FlowInv, TypeInv
<1>2. /\ counters' = [counters EXCEPT !.submitted = @ + n, !.skipped = @ + Leading]
      /\ source' = SubSeq(source, n + 1, Len(source))
  BY DEF Drawn
<1>3. /\ counters' \in Counters
      /\ counters'.submitted = counters.submitted + n
      /\ counters'.skipped = counters.skipped + Leading
      /\ counters'.completed = counters.completed /\ counters'.failed = counters.failed
  <2>1. counters' = [submitted |-> counters.submitted + n, skipped |-> counters.skipped + Leading,
                     completed |-> counters.completed, failed |-> counters.failed]
    BY <1>2 DEF FlowInv, TypeInv, Counters
  <2> QED BY <1>1, <2>1, CounterTypes DEF Counters
<1>4. /\ source' \in Seq(Int) /\ Len(source') = Len(source) - n
      /\ \A i \in 1..Len(source') : source'[i] = source[n + i]
  BY <1>1, <1>2
<1>5. /\ counters.submitted + Len(source) = Len(args.source)
      /\ \A i \in 1..Len(source) : source[i] = args.source[counters.submitted + i]
  BY DEF FlowInv, PositionInv
<1>6. ASSUME NEW i \in 1..Len(source') PROVE source'[i] = args.source[counters'.submitted + i]
  <2>1. n + i \in 1..Len(source)
    BY <1>1, <1>4
  <2>2. counters.submitted \in Nat /\ n \in Nat /\ i \in Int
    BY <1>1, CounterTypes
  <2>3. counters.submitted + (n + i) = (counters.submitted + n) + i
    BY <2>2
  <2>4. source'[i] = source[n + i] /\ source[n + i] = args.source[counters.submitted + (n + i)]
    BY <1>4, <1>5, <2>1
  <2> QED BY <1>3, <2>3, <2>4
<1> QED BY <1>1, <1>3, <1>4, <1>5, <1>6, CounterTypes

LEMMA FlowSubmitNone ==
  ASSUME FlowInv, phase \in {"fill", "refill"}, NEW place \in {"wait", "batch"},
         SubmitNone(place), UNCHANGED <<batch, did, loop, bounds>>
  PROVE  FlowInv'
<1> USE DEF SubmitNone, loop
<1>1. source \in Seq(Int) /\ Leading = Len(source)
  BY DEF FlowInv, TypeInv, Exhausted
<1>2. Leading \in 0..Len(source) /\ Drawn(Leading)
  BY <1>1, LeadingFacts
<1>3. /\ source' \in Seq(Int) /\ Len(source') = Len(source) - Leading
      /\ counters' \in Counters
      /\ counters'.submitted = counters.submitted + Leading
      /\ counters'.skipped = counters.skipped + Leading
      /\ counters'.completed = counters.completed /\ counters'.failed = counters.failed
      /\ counters'.submitted + Len(source') = Len(args'.source)
      /\ \A i \in 1..Len(source') : source'[i] = args'.source[counters'.submitted + i]
  BY <1>2, DrawnFacts
<1>4. TypeInv'
  BY <1>3 DEF FlowInv, TypeInv, Phases
<1>5. PositionInv'
  <2>1. UNCHANGED <<args, before, futures>> /\ phase' # "record" /\ phase # "off"
    OBVIOUS
  <2>2. \A f \in futures : At(f)'
    <3>1. \A f \in futures : At(f)
      BY DEF FlowInv, PositionInv
    <3>2. counters.submitted \in Nat /\ Leading \in Nat
      BY <1>2, CounterTypes
    <3>3. 1..counters.submitted \subseteq 1..counters.submitted + Leading
      BY <3>2
    <3> QED BY <1>3, <2>1, <3>1, <3>3 DEF At
  <2> QED BY <1>3, <2>1, <2>2 DEF FlowInv, PositionInv
<1>6. CountInv'
  <2>1. source' = <<>>
    BY <1>1, <1>3
  <2>2. Handed' - Settled' = Handed - Settled /\ Yielded' = Yielded
    BY <1>2, <1>3, CounterTypes DEF Handed, Settled, Yielded
  <2>3. Room' = Room /\ Room \in Nat /\ Cardinality(futures) \in Nat
    BY RoomFacts, FS_CardinalityType DEF Room, FlowInv, TypeInv
  <2> QED BY <2>1, <2>2, <2>3 DEF FlowInv, CountInv, Working
<1> QED BY <1>4, <1>5, <1>6 DEF FlowInv

LEMMA FlowSubmitBad ==
  ASSUME FlowInv, phase \in {"fill", "refill"},
         SubmitBad, UNCHANGED <<batch, did, loop, bounds>>
  PROVE  FlowInv'
<1> USE DEF SubmitBad, RaiseInside, loop
<1>1. source \in Seq(Int)
  BY DEF FlowInv, TypeInv
<1>2. Leading + 1 \in 0..Len(source) /\ Drawn(Leading + 1) /\ Leading \in Nat
  BY <1>1, LeadingFacts
<1>3. /\ source' \in Seq(Int)
      /\ counters' \in Counters
      /\ counters'.submitted = counters.submitted + (Leading + 1)
      /\ counters'.submitted + Len(source') = Len(args'.source)
      /\ \A i \in 1..Len(source') : source'[i] = args'.source[counters'.submitted + i]
  BY <1>2, DrawnFacts
<1>4. TypeInv'
  BY <1>3 DEF FlowInv, TypeInv, Phases
<1>5. PositionInv'
  <2>1. counters.submitted <= counters'.submitted /\ counters'.submitted \in Nat
    BY <1>2, <1>3, CounterTypes
  <2>2. \A f \in futures : At(f)'
    BY <2>1, CounterTypes, AtStays DEF FlowInv, PositionInv
  <2> QED BY <1>3, <2>2 DEF FlowInv, PositionInv
<1>6. CountInv'
  BY DEF CountInv, Working
<1> QED BY <1>4, <1>5, <1>6 DEF FlowInv

\* The future that SubmitOne adds.
NewFuture == [id |-> counters.submitted + Leading + 1, rank |-> NextRank, state |-> Pending]

LEMMA NewFutureFacts ==
  ASSUME FlowInv, phase # "off", ~Exhausted, InSpace(NextRank)
  PROVE  /\ NewFuture \in Future
         /\ NewFuture.rank = args.source[NewFuture.id]
         /\ NewFuture.rank \notin before
         /\ NewFuture.id = counters.submitted + (Leading + 1)
         /\ \A f \in futures : f.id < NewFuture.id
         /\ NewFuture \notin futures
<1>1. source \in Seq(Int) /\ counters.submitted \in Nat
  BY DEF FlowInv, TypeInv, Counters
<1>2. Leading \in Nat /\ Leading + 1 \in 1..Len(source) /\ NextRank \notin before
  BY <1>1, LeadingFacts
<1>3. NextRank = args.source[counters.submitted + (Leading + 1)]
  BY <1>2 DEF FlowInv, PositionInv, NextRank
<1>4. NewFuture.id = counters.submitted + (Leading + 1) /\ NewFuture.rank = NextRank
  BY <1>1, <1>2 DEF NewFuture
<1>5. \A f \in futures : f.id < NewFuture.id
  BY <1>1, <1>2, <1>4 DEF FlowInv, PositionInv, At
<1>6. NewFuture \in Future
  BY <1>1, <1>2 DEF NewFuture, Future, InSpace
<1>7. NewFuture \notin futures
  BY <1>1, <1>2, <1>4, <1>5
<1> QED BY <1>2, <1>3, <1>4, <1>5, <1>6, <1>7

LEMMA FlowSubmitOne ==
  ASSUME FlowInv, phase \in {"fill", "refill"}, NEW place \in {"fill", "wait", "batch"},
         place = "fill" => Cardinality(futures) + 1 < Room,
         SubmitOne(place), UNCHANGED <<batch, did, loop, bounds>>
  PROVE  FlowInv'
<1> USE DEF SubmitOne, loop
<1>1. source \in Seq(Int) /\ counters \in Counters /\ IsFiniteSet(futures)
  BY DEF FlowInv, TypeInv
<1>2. Leading + 1 \in 0..Len(source) /\ Drawn(Leading + 1) /\ Leading \in Nat
  BY <1>1, LeadingFacts
<1>3. /\ source' \in Seq(Int)
      /\ counters' \in Counters
      /\ counters'.submitted = counters.submitted + (Leading + 1)
      /\ counters'.skipped = counters.skipped + Leading
      /\ counters'.completed = counters.completed /\ counters'.failed = counters.failed
      /\ counters'.submitted + Len(source') = Len(args'.source)
      /\ \A i \in 1..Len(source') : source'[i] = args'.source[counters'.submitted + i]
  BY <1>2, DrawnFacts
<1>4. futures' = futures \cup {NewFuture}
  BY DEF NewFuture
<1>5. /\ NewFuture \in Future
      /\ NewFuture.rank = args.source[NewFuture.id]
      /\ NewFuture.rank \notin before
      /\ NewFuture.id = counters.submitted + (Leading + 1)
      /\ \A f \in futures : f.id < NewFuture.id
      /\ NewFuture \notin futures
  BY NewFutureFacts
<1>6. IsFiniteSet(futures') /\ Cardinality(futures') = Cardinality(futures) + 1
      /\ Cardinality(futures) \in Nat
  BY <1>1, <1>4, <1>5, FS_AddElement, FS_CardinalityType
<1>7. TypeInv'
  BY <1>3, <1>4, <1>5, <1>6 DEF FlowInv, TypeInv, Phases
<1>8. PositionInv'
  <2>1. \A f \in futures' : At(f)'
    <3>1. /\ counters.submitted <= counters'.submitted /\ counters'.submitted \in Nat
          /\ counters.submitted + (Leading + 1) \in 1..counters'.submitted
      BY <1>2, <1>3, CounterTypes
    <3>2. \A f \in futures : At(f)'
      BY <3>1, CounterTypes, AtStays DEF FlowInv, PositionInv
    <3>3. PICK f : f = NewFuture
      OBVIOUS
    <3>4. At(f)'
      BY <1>5, <3>1, <3>3 DEF At
    <3> QED BY <1>4, <3>2, <3>3, <3>4
  <2>2. \A f, g \in futures' : f.id = g.id => f = g
    <3>1. \A f \in futures : f.id \in Nat
      BY DEF FlowInv, TypeInv, Future
    <3>2. \A f \in futures : f.id # NewFuture.id
      BY <1>5, <3>1
    <3> QED BY <1>4, <3>2 DEF FlowInv, PositionInv
  <2> QED BY <1>3, <2>1, <2>2 DEF PositionInv
<1>9. CountInv'
  <2>1. Handed' - Settled' = Handed - Settled + 1 /\ Yielded' = 0 /\ Yielded = 0
    <3>1. Handed' - Settled' = Handed - Settled + 1
      <4>1. /\ counters'.submitted = counters.submitted + (Leading + 1)
            /\ counters'.skipped = counters.skipped + Leading
            /\ Settled' = Settled
        BY <1>3 DEF Settled
      <4>2. Leading \in Nat /\ Settled \in Nat
        BY <1>2, CounterTypes DEF Settled
      <4> HIDE DEF SubmitOne
      <4> QED BY <4>1, <4>2, CounterTypes DEF Handed
    <3>2. phase' # "record" /\ phase # "record"
      OBVIOUS
    <3> QED BY <3>1, <3>2 DEF Yielded
  <2>2. Room' = Room /\ Room \in Nat
    BY RoomFacts DEF Room
  <2>3. Handed - Settled = Cardinality(futures) /\ Cardinality(futures) < Room
    BY <1>6, <2>1 DEF FlowInv, CountInv, Working
  <2>4. futures' # {}
    BY <1>4
  <2> QED BY <1>6, <2>1, <2>2, <2>3, <2>4 DEF CountInv, Working
<1> QED BY <1>7, <1>8, <1>9 DEF FlowInv

LEMMA FlowFill == FlowInv /\ Fill => FlowInv'
<1> SUFFICES ASSUME FlowInv, Fill PROVE FlowInv'
  OBVIOUS
<1> DEFINE place == IF Cardinality(futures) + 1 < Room THEN "fill" ELSE "wait"
<1>1. place \in {"fill", "wait", "batch"} /\ (place = "fill" => Cardinality(futures) + 1 < Room)
  OBVIOUS
<1>2. /\ phase = "fill" /\ UNCHANGED <<batch, did, loop, bounds>>
      /\ SubmitNone("wait") \/ SubmitBad \/ SubmitOne(place)
  BY DEF Fill, Submit
<1> HIDE DEF place
<1> QED BY <1>1, <1>2, FlowSubmitNone, FlowSubmitBad, FlowSubmitOne

LEMMA FlowRefill == FlowInv /\ Refill => FlowInv'
<1> SUFFICES ASSUME FlowInv, Refill PROVE FlowInv'
  OBVIOUS
<1>1. /\ phase = "refill" /\ UNCHANGED <<batch, did, loop, bounds>>
      /\ SubmitNone("batch") \/ SubmitBad \/ SubmitOne("batch")
  BY DEF Refill, Submit
<1> QED BY <1>1, FlowSubmitNone, FlowSubmitBad, FlowSubmitOne

-----------------------------------------------------------------------------
(* The loop over futures *)

LEMMA FlowWait == FlowInv /\ Wait => FlowInv'
<1> SUFFICES ASSUME FlowInv, Wait PROVE FlowInv'
  OBVIOUS
<1>1. TypeInv'
  BY DEF Wait, loop, FlowInv, TypeInv, Phases
<1>2. PositionInv'
  BY DEF Wait, loop, FlowInv, PositionInv, At
<1>3. CountInv'
  BY DEF Wait, loop, FlowInv, CountInv, Working, Handed, Settled, Yielded, Room
<1> QED BY <1>1, <1>2, <1>3 DEF FlowInv

LEMMA FlowBatchEnd == FlowInv /\ BatchEnd => FlowInv'
<1> SUFFICES ASSUME FlowInv, BatchEnd PROVE FlowInv'
  OBVIOUS
<1>1. TypeInv'
  BY DEF BatchEnd, loop, FlowInv, TypeInv, Phases
<1>2. PositionInv'
  BY DEF BatchEnd, loop, FlowInv, PositionInv, At
<1>3. CountInv'
  BY DEF BatchEnd, loop, FlowInv, CountInv, Working, Handed, Settled, Yielded, Room
<1> QED BY <1>1, <1>2, <1>3 DEF FlowInv

\* Closing the store changes nothing but what is synced.
LEMMA CloseFacts ==
  ASSUME commits' \in Seq(Row), synced \in 0..Len(commits'), Close
  PROVE  synced' \in 0..Len(commits')
BY DEF Close

\* The ends of a run that leave everything but the phase and the store alone.
LEMMA FlowEnd ==
  ASSUME FlowInv, phase # "off", phase' \in {"returned", "raised"}, Close,
         phase' = "returned" => phase = "wait" /\ futures = {},
         UNCHANGED <<commits, source, counters, futures, batch, task, did, loop>>
  PROVE  FlowInv'
<1>1. TypeInv'
  <2>1. commits' \in Seq(Row) /\ synced \in 0..Len(commits')
    BY DEF FlowInv, TypeInv
  <2>2. synced' \in 0..Len(commits')
    BY <2>1, CloseFacts
  <2> QED BY <2>1, <2>2 DEF loop, FlowInv, TypeInv, Phases
<1>2. PositionInv'
  BY DEF loop, FlowInv, PositionInv, At
<1>3. CountInv'
  BY DEF loop, FlowInv, CountInv, Working, Handed, Settled, Yielded, Room
<1> QED BY <1>1, <1>2, <1>3 DEF FlowInv

\* Taking a future out of the dict.
LEMMA FlowTake == FlowInv /\ Take => FlowInv'
<1> SUFFICES ASSUME FlowInv, Take PROVE FlowInv'
  OBVIOUS
<1>1. PICK f \in futures :
        /\ futures' = futures \ {f}
        /\ IF f.state = "broken"
             THEN RaiseInside
             ELSE /\ task' = f
                  /\ phase' = "record"
                  /\ UNCHANGED <<commits, synced>>
  BY DEF Take
<1>2. phase = "batch" /\ UNCHANGED <<source, counters, args, before>>
  BY DEF Take, loop
<1>3. phase' \in {"unwinding", "record"} /\ UNCHANGED <<commits, synced>>
      /\ (phase' = "record" => task' = f)
  BY <1>1 DEF RaiseInside
<1>4. IsFiniteSet(futures') /\ Cardinality(futures') = Cardinality(futures) - 1
      /\ Cardinality(futures) \in Nat
  BY <1>1, FS_RemoveElement, FS_CardinalityType DEF FlowInv, TypeInv
<1>5. TypeInv'
  BY <1>1, <1>2, <1>3, <1>4 DEF FlowInv, TypeInv, Phases
<1>6. PositionInv'
  <2>1. \A g \in futures : At(g)'
    BY <1>2 DEF FlowInv, PositionInv, At
  <2>2. ASSUME phase' = "record" PROVE At(task)' /\ \A g \in futures' : g.id # task'.id
    <3>1. task' = f /\ At(f)
      BY <1>3, <2>2 DEF FlowInv, PositionInv
    <3>2. At(task)'
      BY <1>2, <3>1 DEF At
    <3>3. \A g \in futures' : g.id # f.id
      BY <1>1 DEF FlowInv, PositionInv
    <3> QED BY <3>1, <3>2, <3>3
  <2> QED BY <1>1, <1>2, <2>1, <2>2 DEF FlowInv, PositionInv
<1>7. CountInv'
  <2>1. Handed' = Handed /\ Settled' = Settled /\ Room' = Room
    BY <1>2 DEF Handed, Settled, Room
  <2>2. /\ Handed - Settled = Cardinality(futures) /\ Cardinality(futures) <= Room
        /\ Room \in Nat
    BY <1>2, <1>4, RoomFacts, CounterTypes
       DEF FlowInv, CountInv, Working, Yielded, Handed, Settled
  <2>3. Yielded' = IF phase' = "record" THEN 1 ELSE 0
    BY DEF Yielded
  <2> QED BY <1>3, <1>4, <2>1, <2>2, <2>3 DEF CountInv, Working
<1> QED BY <1>5, <1>6, <1>7 DEF FlowInv

\* What Record appends, counts and decides.
RecordedStatus == IF task.state = "failed" THEN "failed" ELSE "completed"

LEMMA RecordFacts ==
  ASSUME FlowInv, Record
  PROVE  /\ phase = "record" /\ task \in Future
         /\ UNCHANGED <<source, futures, batch, task, did, args, before, failures, crashes>>
         /\ RecordedStatus \in {"failed", "completed"}
         /\ commits' = IF args.stored
                         THEN Append(commits, TaskRow(args.space, task.rank, RecordedStatus))
                         ELSE commits
         /\ commits' \in Seq(Row) /\ Len(commits') >= Len(commits)
         /\ counters' = [counters EXCEPT ![RecordedStatus] = @ + 1]
         /\ phase' \in {"raised", "refill"}
         /\ synced' \in 0..Len(commits')
<1>1. /\ phase = "record"
      /\ UNCHANGED <<source, futures, batch, task, did, args, before, failures, crashes>>
      /\ RecordedStatus \in {"failed", "completed"}
      /\ counters' = [counters EXCEPT ![RecordedStatus] = @ + 1]
      /\ commits' = IF args.stored
                      THEN Append(commits, TaskRow(args.space, task.rank, RecordedStatus))
                      ELSE commits
      /\ (phase' = "raised" /\ Close) \/ (phase' = "refill" /\ UNCHANGED synced)
  <2>1. /\ Store(RecordedStatus)
        /\ counters' = [counters EXCEPT ![RecordedStatus] = @ + 1]
        /\ IF RecordedStatus = "failed" /\ args.failFast
             THEN phase' = "raised" /\ Close
             ELSE phase' = "refill" /\ UNCHANGED synced
    BY Zenon DEF Record, RecordedStatus
  <2>2. /\ phase = "record"
        /\ UNCHANGED <<source, futures, batch, task, did, args, before, failures, crashes>>
    BY DEF Record, loop, bounds
  <2>3. RecordedStatus \in {"failed", "completed"}
    BY DEF RecordedStatus
  <2>4. (phase' = "raised" /\ Close) \/ (phase' = "refill" /\ UNCHANGED synced)
    BY <2>1, Zenon
  <2> QED BY <2>1, <2>2, <2>3, <2>4, Zenon DEF Store
<1>2. task \in Future /\ args.space \in Spaces /\ commits \in Seq(Row)
      /\ synced \in 0..Len(commits)
  BY <1>1 DEF FlowInv, TypeInv
<1>3. task.rank \in Ranks
  BY <1>2 DEF Future
<1>4. Append(commits, TaskRow(args.space, task.rank, RecordedStatus)) \in Seq(Row)
  BY <1>1, <1>2, <1>3, StatusAfterTask
<1>5. commits' \in Seq(Row) /\ Len(commits') >= Len(commits)
  BY <1>1, <1>2, <1>4
<1>6. synced' \in 0..Len(commits')
  BY <1>1, <1>2, <1>5, CloseFacts
<1> QED BY <1>1, <1>2, <1>5, <1>6

LEMMA FlowRecord == FlowInv /\ Record => FlowInv'
<1> SUFFICES ASSUME FlowInv, Record PROVE FlowInv'
  OBVIOUS
<1>1. /\ phase = "record" /\ task \in Future
      /\ UNCHANGED <<source, futures, batch, task, did, args, before, failures, crashes>>
      /\ RecordedStatus \in {"failed", "completed"}
      /\ commits' \in Seq(Row)
      /\ counters' = [counters EXCEPT ![RecordedStatus] = @ + 1]
      /\ phase' \in {"raised", "refill"}
      /\ synced' \in 0..Len(commits')
  BY RecordFacts
<1>2. /\ counters' \in Counters
      /\ counters'.submitted = counters.submitted
      /\ counters'.skipped = counters.skipped
      /\ counters'.completed + counters'.failed = counters.completed + counters.failed + 1
  <2>1. CASE RecordedStatus = "failed"
    <3>1. counters' = [counters EXCEPT !.failed = @ + 1]
      BY <1>1, <2>1
    <3>2. counters \in Counters
      BY DEF FlowInv, TypeInv
    <3> QED BY <3>1, <3>2 DEF Counters
  <2>2. CASE RecordedStatus = "completed"
    <3>1. counters' = [counters EXCEPT !.completed = @ + 1]
      BY <1>1, <2>2
    <3>2. counters \in Counters
      BY DEF FlowInv, TypeInv
    <3> QED BY <3>1, <3>2 DEF Counters
  <2> QED BY <1>1, <2>1, <2>2
<1>3. TypeInv'
  BY <1>1, <1>2 DEF FlowInv, TypeInv, Phases
<1>4. PositionInv'
  BY <1>1, <1>2 DEF FlowInv, PositionInv, At
<1>5. CountInv'
  <2>1. Handed' = Handed /\ Settled' = Settled + 1 /\ Room' = Room
    BY <1>1, <1>2 DEF Handed, Settled, Room
  <2>2. Yielded = 1 /\ Yielded' = 0
    BY <1>1 DEF Yielded
  <2>3. Cardinality(futures) \in Nat
    BY FS_CardinalityType DEF FlowInv, TypeInv
  <2>4. Handed - Settled = Cardinality(futures) + 1 /\ Cardinality(futures) < Room
    BY <1>1, <2>2 DEF FlowInv, CountInv, Working
  <2>5. Handed \in Int /\ Settled \in Int
    BY CounterTypes DEF Handed, Settled
  <2> QED BY <1>1, <2>1, <2>2, <2>3, <2>4, <2>5 DEF CountInv, Working
<1> QED BY <1>3, <1>4, <1>5 DEF FlowInv

-----------------------------------------------------------------------------
(* Workers and faults *)

\* What becomes of the futures leaves them their ids and ranks, so it changes no
\* position and no count.
LEMMA SameFutures ==
  ASSUME FlowInv, NEW m \in [futures -> Future], futures' = {m[f] : f \in futures},
         \A f \in futures : m[f].id = f.id /\ m[f].rank = f.rank
  PROVE  /\ futures' \subseteq Future /\ IsFiniteSet(futures')
         /\ Cardinality(futures') = Cardinality(futures)
         /\ {f.id : f \in futures'} = {f.id : f \in futures}
         /\ {f.rank : f \in futures'} = {f.rank : f \in futures}
<1>1. m \in [futures -> futures']
  OBVIOUS
<1>2. \A f, g \in futures : m[f] = m[g] => f = g
  BY DEF FlowInv, PositionInv
<1>3. \A g \in futures' : \E f \in futures : m[f] = g
  OBVIOUS
<1>4. m \in Bijection(futures, futures')
  BY <1>1, <1>2, <1>3, Fun_IsBij
<1>5. ExistsBijection(futures, futures')
  BY <1>4, Zenon DEF ExistsBijection
<1>6. IsFiniteSet(futures') /\ Cardinality(futures') = Cardinality(futures)
  BY <1>5, FS_Bijection DEF FlowInv, TypeInv
<1>7. {f.id : f \in futures'} = {f.id : f \in futures}
  OBVIOUS
<1>8. {f.rank : f \in futures'} = {f.rank : f \in futures}
  OBVIOUS
<1> QED BY <1>1, <1>6, <1>7, <1>8

LEMMA FlowSameFutures ==
  ASSUME FlowInv, NEW m \in [futures -> Future], futures' = {m[f] : f \in futures},
         \A f \in futures : m[f].id = f.id /\ m[f].rank = f.rank,
         UNCHANGED <<store, phase, source, counters, batch, task, loop>>
  PROVE  FlowInv'
<1> USE DEF store, loop
<1>1. /\ futures' \subseteq Future /\ IsFiniteSet(futures')
      /\ Cardinality(futures') = Cardinality(futures)
  BY SameFutures
<1>2. TypeInv'
  BY <1>1 DEF FlowInv, TypeInv
<1>3. PositionInv'
  <2>1. \A g \in futures' : At(g)'
    <3>1. SUFFICES ASSUME NEW g \in futures' PROVE At(g)'
      OBVIOUS
    <3>2. PICK f \in futures : m[f] = g
      OBVIOUS
    <3>3. At(f) /\ g.id = f.id /\ g.rank = f.rank
      BY <3>2 DEF FlowInv, PositionInv
    <3> QED BY <3>3 DEF At
  <2>2. \A g, h \in futures' : g.id = h.id => g = h
    BY DEF FlowInv, PositionInv
  <2>3. phase = "record" => At(task)' /\ \A g \in futures' : g.id # task'.id
    BY DEF FlowInv, PositionInv, At
  <2>4. /\ counters' = counters /\ source' = source /\ args' = args /\ phase' = phase
    OBVIOUS
  <2> HIDE DEF store, loop
  <2> QED BY <2>1, <2>2, <2>3, <2>4 DEF FlowInv, PositionInv
<1>4. CountInv'
  <2>1. futures' = {} <=> futures = {}
    OBVIOUS
  <2> QED BY <1>1, <2>1 DEF FlowInv, CountInv, Working, Handed, Settled, Yielded, Room
<1> QED BY <1>2, <1>3, <1>4 DEF FlowInv

\* The state in which a worker leaves a future.
LEMMA FinishMap ==
  ASSUME FlowInv, Finish
  PROVE  /\ UNCHANGED <<store, phase, source, counters, batch, task, loop>>
         /\ \E m \in [futures -> Future] :
              /\ futures' = {m[f] : f \in futures}
              /\ \A f \in futures : m[f].id = f.id /\ m[f].rank = f.rank
<1>1. PICK f \in futures, o \in Outcome \ {"broken"} :
        futures' = (futures \ {f}) \cup {[f EXCEPT !.state = o]}
  BY DEF Finish
<1>2. UNCHANGED <<store, phase, source, counters, batch, task, loop>>
  BY DEF Finish
<1> DEFINE new == [f EXCEPT !.state = o]
           m == [g \in futures |-> IF g = f THEN new ELSE g]
<1>3. futures \subseteq Future /\ f \in Future
  BY DEF FlowInv, TypeInv
<1>4. new \in Future /\ new.id = f.id /\ new.rank = f.rank
  BY <1>3 DEF Future
<1> HIDE DEF new
<1>5. m \in [futures -> Future] /\ \A g \in futures : m[g].id = g.id /\ m[g].rank = g.rank
  BY <1>3, <1>4
<1>6. futures' = {m[g] : g \in futures}
  BY <1>1 DEF new
<1> HIDE DEF m
<1> QED BY <1>2, <1>5, <1>6

\* A dead worker breaks the pending futures.
LEMMA BreakPoolMap ==
  ASSUME FlowInv, BreakPool
  PROVE  /\ UNCHANGED <<store, phase, source, counters, batch, task, loop>>
         /\ \E m \in [futures -> Future] :
              /\ futures' = {m[f] : f \in futures}
              /\ \A f \in futures : m[f].id = f.id /\ m[f].rank = f.rank
<1> DEFINE m == [f \in futures |->
                   IF f.state = Pending THEN [f EXCEPT !.state = "broken"] ELSE f]
<1>1. UNCHANGED <<store, phase, source, counters, batch, task, loop>>
  BY DEF BreakPool
<1>2. futures \subseteq Future
  BY DEF FlowInv, TypeInv
<1>3. m \in [futures -> Future] /\ \A f \in futures : m[f].id = f.id /\ m[f].rank = f.rank
  BY <1>2 DEF Future, Outcome
<1>4. futures' = {m[f] : f \in futures}
  BY DEF BreakPool
<1> HIDE DEF m
<1> QED BY <1>1, <1>3, <1>4

\* Neither a crash nor a loss of power leaves a row half written.
LEMMA FlowDie ==
  ASSUME FlowInv, Die, commits' \in Seq(Row), synced' \in 0..Len(commits')
  PROVE  FlowInv'
<1>1. /\ phase' = "off" /\ source' = <<>> /\ counters' = Zero /\ futures' = {}
      /\ args' = args /\ before' = before
  BY DEF Die, loop
<1>2. TypeInv'
  BY <1>1, FS_EmptySet DEF FlowInv, TypeInv, Phases, Counters, Zero
<1>3. PositionInv'
  BY <1>1 DEF PositionInv
<1>4. CountInv'
  BY <1>1 DEF CountInv, Working
<1> QED BY <1>2, <1>3, <1>4 DEF FlowInv

LEMMA PowerLossFacts ==
  ASSUME FlowInv, PowerLoss
  PROVE  \E n \in synced..Len(commits) :
           /\ commits' = SubSeq(commits, 1, n)
           /\ n \in Nat /\ n <= Len(commits)
           /\ commits' \in Seq(Row) /\ Len(commits') = n
           /\ \A i \in 1..n : commits'[i] = commits[i]
<1>1. PICK n \in synced..Len(commits) : commits' = SubSeq(commits, 1, n)
  BY DEF PowerLoss
<1>2. commits \in Seq(Row) /\ synced \in 0..Len(commits)
  BY DEF FlowInv, TypeInv
<1>3. n \in Nat /\ n <= Len(commits)
  BY <1>2
<1>4. commits' \in Seq(Row) /\ Len(commits') = n /\ \A i \in 1..n : commits'[i] = commits[i]
  <2>1. \A i \in 1..n : commits[i] \in Row
    BY <1>2, <1>3
  <2> QED BY <1>1, <1>2, <1>3, <2>1
<1> QED BY <1>1, <1>3, <1>4

LEMMA FlowPowerLoss == FlowInv /\ PowerLoss => FlowInv'
<1> SUFFICES ASSUME FlowInv, PowerLoss PROVE FlowInv'
  OBVIOUS
<1>1. PICK n \in synced..Len(commits) :
        n \in Nat /\ commits' \in Seq(Row) /\ Len(commits') = n
  BY PowerLossFacts
<1>2. synced' = synced /\ synced \in Nat /\ Die
  BY DEF PowerLoss, FlowInv, TypeInv
<1>3. synced' \in 0..Len(commits')
  BY <1>1, <1>2
<1> QED BY <1>1, <1>2, <1>3, FlowDie

LEMMA FlowSync == FlowInv /\ Sync => FlowInv'
<1> SUFFICES ASSUME FlowInv, Sync PROVE FlowInv'
  OBVIOUS
<1>1. TypeInv'
  BY DEF Sync, loop, FlowInv, TypeInv
<1>2. PositionInv'
  BY DEF Sync, loop, FlowInv, PositionInv, At
<1>3. CountInv'
  BY DEF Sync, loop, FlowInv, CountInv, Working, Handed, Settled, Yielded, Room
<1> QED BY <1>1, <1>2, <1>3 DEF FlowInv

LEMMA FlowNext == FlowInv /\ [Next]_vars => FlowInv'
<1> SUFFICES ASSUME FlowInv, [Next]_vars PROVE FlowInv'
  OBVIOUS
<1>1. CASE Start
  BY <1>1, FlowStart
<1>2. CASE Fill \/ Refill
  BY <1>2, FlowFill, FlowRefill
<1>3. CASE Wait \/ BatchEnd \/ Take
  BY <1>3, FlowWait, FlowBatchEnd, FlowTake
<1>4. CASE Return
  BY <1>4, FlowEnd DEF Return
<1>5. CASE RecordRefused
  BY <1>5, FlowEnd DEF RecordRefused
<1>6. CASE Record
  BY <1>6, FlowRecord
<1>7. CASE Unwound
  BY <1>7, FlowEnd DEF Unwound
<1>8. CASE Finish
  BY <1>8, FinishMap, FlowSameFutures
<1>9. CASE BreakPool
  BY <1>9, BreakPoolMap, FlowSameFutures
<1>10. CASE Crash
  <2>1. Die /\ commits' = commits /\ synced' = synced
    BY <1>10 DEF Crash, store
  <2> QED BY <2>1, FlowDie DEF FlowInv, TypeInv
<1>11. CASE PowerLoss
  BY <1>11, FlowPowerLoss
<1>12. CASE Sync
  BY <1>12, FlowSync
<1>13. CASE UNCHANGED vars
  <2>1. TypeInv'
    BY <1>13 DEF vars, FlowInv, TypeInv
  <2>2. PositionInv'
    BY <1>13 DEF vars, FlowInv, PositionInv, At
  <2>3. CountInv'
    BY <1>13 DEF vars, FlowInv, CountInv, Working, Handed, Settled, Yielded, Room
  <2> QED BY <2>1, <2>2, <2>3 DEF FlowInv
<1> QED BY <1>1, <1>2, <1>3, <1>4, <1>5, <1>6, <1>7, <1>8, <1>9, <1>10, <1>11, <1>12, <1>13
        DEF Next, MainThread, Faults

\* At every moment of every run the ranks drawn and not recorded are in the
\* futures dict or just yielded, and there is room for what is submitted next
\* (runner.py:244-252).
THEOREM FlowCorrect == Spec => []FlowInv
<1>1. FlowInv /\ [Next]_vars => FlowInv'
  BY FlowNext
<1> QED BY <1>1, FlowInit, PTL DEF Spec

\* The docstring's promise (runner.py:196-197): a run is never more than its
\* capacity ahead of the results it has recorded, and it loses no rank.
THEOREM KeepsToCapacity == Spec => []Lazy
<1>1. FlowInv => Lazy
  <2> SUFFICES ASSUME FlowInv, Working PROVE Lazy
    BY DEF Lazy
  <2>1. Handed - Settled = Cardinality(futures) + Yielded
    BY DEF FlowInv, CountInv
  <2>2. Cardinality(futures) \in Nat /\ Room \in Nat
    BY RoomFacts, FS_CardinalityType DEF FlowInv, TypeInv
  <2>3. Cardinality(futures) + Yielded <= Room
    BY <2>2 DEF FlowInv, CountInv, Working, Yielded
  <2>4. counters.submitted + Len(source) = Len(args.source)
    BY DEF FlowInv, PositionInv, Working
  <2> QED BY <2>1, <2>3, <2>4 DEF Lazy
<1> QED BY <1>1, FlowCorrect, PTL

\* A summary is returned only when every rank of the list was drawn, and then
\* completed, failed or was skipped (runner.py:314-325).
THEOREM ReturnAccountsForAll == Spec => []AllAccounted
<1>1. FlowInv => AllAccounted
  <2> SUFFICES ASSUME FlowInv, phase = "returned" PROVE AllAccounted
    BY DEF AllAccounted
  <2>1. futures = {} /\ source = <<>> /\ Handed - Settled = Cardinality(futures) + Yielded
    BY DEF FlowInv, CountInv
  <2>2. Handed = Settled
    <3>1. Cardinality(futures) = 0 /\ Yielded = 0
      BY <2>1, FS_EmptySet DEF Yielded
    <3> QED BY <2>1, <3>1, CounterTypes DEF Handed, Settled
  <2>3. counters.submitted = Len(args.source)
    BY <2>1, CounterTypes DEF FlowInv, PositionInv
  <2> QED BY <2>2, <2>3, CounterTypes DEF AllAccounted, Handed, Settled
<1> QED BY <1>1, FlowCorrect, PTL

-----------------------------------------------------------------------------
(* What a run says of its ranks, and what the checkpoint says of them *)

On == Working \/ phase = "returned"

SkippedAt == {i \in 1..counters.submitted : args.source[i] \in before}

\* The positions in hand.
HeldAt == {f.id : f \in futures} \cup (IF phase = "record" THEN {task.id} ELSE {})

\* The positions done with, by what is stored of their ranks.
DoneAt(s) == {i \in 1..counters.submitted :
                /\ i \notin HeldAt /\ args.source[i] \notin before
                /\ StatusOf(commits, args.source[i]) = s}

\* The counters count positions; a skipped rank is and stays completed, and a rank
\* that occurs once has the status its position was counted under.
StoreInv ==
  /\ On => Cardinality(SkippedAt) = counters.skipped
  /\ On /\ args.stored => \A r \in before : StatusOf(commits, r) = "completed"
  /\ On /\ args.stored /\ Distinct(args.source) =>
       /\ Cardinality(DoneAt("completed")) = counters.completed
       /\ Cardinality(DoneAt("failed")) = counters.failed

LEMMA PositionSetsFinite ==
  FlowInv => /\ IsFiniteSet(SkippedAt)
             /\ \A s : IsFiniteSet(DoneAt(s))
<1> SUFFICES ASSUME FlowInv PROVE IsFiniteSet(SkippedAt) /\ \A s : IsFiniteSet(DoneAt(s))
  OBVIOUS
<1>1. IsFiniteSet(1..counters.submitted)
  <2>1. counters.submitted \in Int
    BY CounterTypes
  <2> QED BY <2>1, FS_Interval
<1>2. SkippedAt \in SUBSET (1..counters.submitted)
  BY DEF SkippedAt
<1>3. \A s : DoneAt(s) \in SUBSET (1..counters.submitted)
  BY DEF DoneAt
<1> QED BY <1>1, <1>2, <1>3, FS_Subset

LEMMA StoreInit == Init => StoreInv
<1> SUFFICES ASSUME Init PROVE StoreInv
  OBVIOUS
<1>1. ~On
  BY DEF Init, On, Working
<1> QED BY <1>1 DEF StoreInv

\* Steps that store, count and take in hand nothing.
LEMMA StoreSame ==
  ASSUME StoreInv, UNCHANGED <<commits, counters, args, before>>, HeldAt' = HeldAt, On' => On
  PROVE  StoreInv'
<1>1. SkippedAt' = SkippedAt
  BY DEF SkippedAt
<1>2. \A s : DoneAt(s)' = DoneAt(s)
  BY DEF DoneAt
<1>3. Distinct(args.source)' = Distinct(args.source)
  BY DEF Distinct
<1> QED BY <1>1, <1>2, <1>3 DEF StoreInv

LEMMA StoreStart == StoreInv /\ Start => StoreInv'
<1> SUFFICES ASSUME Start, On' PROVE StoreInv'
  BY DEF StoreInv
<1>1. /\ args'.stored => before' \subseteq CompletedRanks(commits')
      /\ counters' = Zero
  <2>1. \/ phase' = "raised"
        \/ before' = Before(commits', args')
    BY StartFacts
  <2>2. phase' # "raised"
    BY DEF On, Working
  <2> QED BY <2>1, <2>2 DEF Start, Before
<1>2. SkippedAt' = {} /\ \A s : DoneAt(s)' = {}
  BY <1>1 DEF SkippedAt, DoneAt, Zero
<1>3. Cardinality({}) = 0
  BY FS_EmptySet
<1> QED BY <1>1, <1>2, <1>3 DEF StoreInv, Zero, CompletedRanks

\* The positions drawn are those of skipped ranks, but for the last one when a
\* rank is submitted.
LEMMA DrawnPositions ==
  ASSUME FlowInv, phase # "off", NEW n \in {Leading, Leading + 1}, n <= Len(source), Drawn(n),
         UNCHANGED <<args, before>>
  PROVE  /\ SkippedAt \subseteq 1..counters.submitted
         /\ n = Leading + 1 => NextRank \notin before
         /\ SkippedAt' =
              SkippedAt \cup ((counters.submitted + 1)..(counters.submitted + Leading))
         /\ \A i \in 1..counters'.submitted :
              \/ i \in 1..counters.submitted
              \/ args.source[i] \in before
              \/ n = Leading + 1 /\ i = counters.submitted + n
         /\ counters.submitted <= counters'.submitted /\ counters'.submitted \in Nat
         /\ counters'.skipped = counters.skipped + Leading
         /\ counters'.completed = counters.completed /\ counters'.failed = counters.failed
<1> DEFINE c == counters.submitted
           L == Leading
<1>1. source \in Seq(Int) /\ c \in Nat
  BY CounterTypes DEF FlowInv, TypeInv
<1>2. /\ L \in 0..Len(source)
      /\ \A i \in 1..L : source[i] \in before
      /\ ~Exhausted => NextRank \notin before
  BY <1>1, LeadingFacts
<1>3. n \in 0..Len(source) /\ L \in Nat /\ n \in Nat
  BY <1>1, <1>2
<1>4. /\ counters'.submitted = c + n
      /\ counters'.skipped = counters.skipped + L
      /\ counters'.completed = counters.completed /\ counters'.failed = counters.failed
  BY <1>3, DrawnFacts
<1>5. \A i \in 1..Len(source) : source[i] = args.source[c + i]
  BY DEF FlowInv, PositionInv
<1>6. n = L + 1 => NextRank \notin before /\ NextRank = args.source[c + n]
  <2>1. SUFFICES ASSUME n = L + 1 PROVE NextRank \notin before /\ NextRank = args.source[c + n]
    OBVIOUS
  <2>2. ~Exhausted /\ n \in 1..Len(source)
    BY <1>1, <1>3, <2>1 DEF Exhausted
  <2>3. NextRank = source[n]
    BY <2>1 DEF NextRank
  <2> QED BY <1>2, <1>5, <2>2, <2>3
<1>7. \A i \in (c + 1)..(c + L) : args.source[i] \in before
  <2>1. SUFFICES ASSUME NEW i \in (c + 1)..(c + L) PROVE args.source[i] \in before
    OBVIOUS
  <2>2. i - c \in 1..L /\ i - c \in 1..Len(source) /\ c + (i - c) = i
    BY <1>1, <1>2, <1>3, <2>1
  <2> QED BY <1>2, <1>5, <2>2
<1> HIDE DEF c, L
<1>8. \A i \in 1..(c + n) : \/ i \in 1..c
                            \/ i \in (c + 1)..(c + L)
                            \/ n = L + 1 /\ i = c + n
  BY <1>1, <1>3 DEF L
<1>9. 1..c \subseteq 1..(c + n) /\ (c + 1)..(c + L) \subseteq 1..(c + n)
  BY <1>1, <1>3 DEF L
<1>10. SkippedAt' = {i \in 1..(c + n) : args.source[i] \in before}
  BY <1>4 DEF SkippedAt
<1>11. SkippedAt = {i \in 1..c : args.source[i] \in before}
  BY DEF SkippedAt, c
<1>12. SkippedAt' = SkippedAt \cup ((c + 1)..(c + L))
  BY <1>6, <1>7, <1>8, <1>9, <1>10, <1>11
<1>13. \A i \in 1..(c + n) : i \in 1..c \/ args.source[i] \in before \/ (n = L + 1 /\ i = c + n)
  BY <1>7, <1>8
<1> QED BY <1>1, <1>3, <1>4, <1>6, <1>11, <1>12, <1>13 DEF c, L

\* Drawing counts what it skips, and takes in hand what it does not skip.
LEMMA StoreDrawn ==
  ASSUME FlowInv, StoreInv, phase \in {"fill", "refill"}, phase' # "record",
         NEW n \in {Leading, Leading + 1}, n <= Len(source), Drawn(n),
         \/ n = Leading /\ HeldAt' = HeldAt
         \/ n = Leading + 1 /\ HeldAt' = HeldAt \cup {counters.submitted + n},
         UNCHANGED <<commits, args, before>>
  PROVE  StoreInv'
<1> DEFINE c == counters.submitted
           New == (c + 1)..(c + Leading)
<1>1. /\ SkippedAt \subseteq 1..c
      /\ SkippedAt' = SkippedAt \cup New
      /\ \A i \in 1..counters'.submitted :
           \/ i \in 1..c
           \/ args.source[i] \in before
           \/ n = Leading + 1 /\ i = c + n
      /\ c <= counters'.submitted /\ counters'.submitted \in Nat
      /\ counters'.skipped = counters.skipped + Leading
      /\ counters'.completed = counters.completed /\ counters'.failed = counters.failed
  BY DrawnPositions
<1>2. Leading \in Nat /\ c \in Nat /\ On
  BY CounterTypes, LeadingFacts DEF FlowInv, TypeInv, On, Working
<1>3. Cardinality(SkippedAt') = counters'.skipped
  <2>1. IsFiniteSet(SkippedAt) /\ Cardinality(SkippedAt) = counters.skipped
    BY <1>2, PositionSetsFinite DEF StoreInv
  <2>2. IsFiniteSet(New) /\ Cardinality(New) = Leading
    <3>1. c + 1 \in Int /\ c + Leading \in Int
      BY <1>2
    <3>2. IsFiniteSet(New)
          /\ Cardinality(New) = IF c + 1 > c + Leading THEN 0 ELSE (c + Leading) - (c + 1) + 1
      BY <3>1, FS_Interval
    <3> QED BY <1>2, <3>2
  <2>3. SkippedAt \cap New = {}
    BY <1>1, <1>2
  <2>4. Cardinality(SkippedAt \cap New) = 0
    BY <2>3, FS_EmptySet
  <2> HIDE DEF New
  <2>5. Cardinality(SkippedAt \cup New)
          = Cardinality(SkippedAt) + Cardinality(New) - Cardinality(SkippedAt \cap New)
    BY <2>1, <2>2, FS_Union
  <2> QED BY <1>1, <1>2, <2>1, <2>2, <2>4, <2>5, CounterTypes
<1>4. ASSUME NEW s PROVE DoneAt(s)' = DoneAt(s)
  <2>1. \A i \in 1..c : i # c + (Leading + 1)
    BY <1>2
  <2>2. \A i \in 1..c : i \in HeldAt' <=> i \in HeldAt
    BY <2>1
  <2>3. 1..c \subseteq 1..counters'.submitted
    BY <1>1, <1>2
  <2>4. \A i \in 1..counters'.submitted :
          i \notin HeldAt' /\ args.source[i] \notin before => i \in 1..c
    BY <1>1, <1>2
  <2> QED BY <2>2, <2>3, <2>4 DEF DoneAt
<1>5. args' = args /\ before' = before /\ commits' = commits
      /\ Distinct(args.source)' = Distinct(args.source)
  BY DEF Distinct
<1> HIDE DEF c, New
<1> QED BY <1>1, <1>2, <1>3, <1>4, <1>5 DEF StoreInv

LEMMA StoreSubmit ==
  ASSUME FlowInv, StoreInv, phase \in {"fill", "refill"}, NEW none, NEW one,
         none # "record", one # "record",
         Submit(none, one), UNCHANGED loop
  PROVE  StoreInv'
<1> USE DEF loop
<1>1. source \in Seq(Int) /\ Leading \in 0..Len(source)
      /\ (~Exhausted => Leading + 1 <= Len(source))
  BY LeadingFacts DEF FlowInv, TypeInv
<1>2. CASE SubmitNone(none)
  <2>1. Drawn(Leading) /\ commits' = commits /\ phase' = none /\ HeldAt' = HeldAt
    BY <1>2 DEF SubmitNone, HeldAt
  <2> QED BY <1>1, <2>1, StoreDrawn
<1>3. CASE SubmitBad
  <2>1. ~On'
    BY <1>3 DEF SubmitBad, RaiseInside, On, Working
  <2> QED BY <2>1 DEF StoreInv
<1>4. CASE SubmitOne(one)
  <2>1. /\ ~Exhausted /\ Drawn(Leading + 1) /\ commits' = commits /\ phase' = one
        /\ futures' = futures \cup {NewFuture} /\ InSpace(NextRank)
    BY <1>4 DEF SubmitOne, NewFuture
  <2>2. NewFuture.id = counters.submitted + (Leading + 1)
    BY <2>1, NewFutureFacts
  <2>3. HeldAt' = HeldAt \cup {counters.submitted + (Leading + 1)}
    BY <2>1, <2>2 DEF HeldAt
  <2> QED BY <1>1, <2>1, <2>3, StoreDrawn
<1> QED BY <1>2, <1>3, <1>4 DEF Submit

LEMMA StoreTake == FlowInv /\ StoreInv /\ Take => StoreInv'
<1> SUFFICES ASSUME FlowInv, StoreInv, Take PROVE StoreInv'
  OBVIOUS
<1>1. PICK f \in futures :
        /\ futures' = futures \ {f}
        /\ IF f.state = "broken"
             THEN RaiseInside
             ELSE /\ task' = f
                  /\ phase' = "record"
                  /\ UNCHANGED <<commits, synced>>
  BY DEF Take
<1>2. phase = "batch" /\ UNCHANGED <<counters, args, before>>
  BY DEF Take, loop
<1>3. CASE f.state = "broken"
  <2>1. ~On'
    BY <1>1, <1>3 DEF RaiseInside, On, Working
  <2> QED BY <2>1 DEF StoreInv
<1>4. CASE f.state # "broken"
  <2>1. HeldAt' = HeldAt
    BY <1>1, <1>2, <1>4 DEF HeldAt
  <2>2. On
    BY <1>2 DEF On, Working
  <2> QED BY <1>1, <1>2, <1>4, <2>1, <2>2, StoreSame
<1> QED BY <1>3, <1>4

\* Recording moves the position in hand to those done with, under the status that
\* is stored and counted.
LEMMA StoreRecord == FlowInv /\ StoreInv /\ Record => StoreInv'
<1> SUFFICES ASSUME FlowInv, StoreInv, Record, On' PROVE StoreInv'
  BY DEF StoreInv
<1> DEFINE k == task.id
<1>0. PICK st : st = RecordedStatus
  OBVIOUS
<1>1. /\ phase = "record" /\ task \in Future
      /\ UNCHANGED <<futures, args, before>>
      /\ st \in {"failed", "completed"}
      /\ commits' = IF args.stored
                      THEN Append(commits, TaskRow(args.space, task.rank, st)) ELSE commits
      /\ counters' = [counters EXCEPT ![st] = @ + 1]
  BY <1>0, RecordFacts
<1>2. phase' = "refill" /\ On
  <2>1. phase' \in {"raised", "refill"}
    BY RecordFacts
  <2> QED BY <1>1, <2>1 DEF On, Working
<1>3. /\ k \in 1..counters.submitted /\ task.rank = args.source[k] /\ task.rank \notin before
      /\ \A f \in futures : f.id # k
      /\ task.rank \in Ranks
  BY <1>1 DEF FlowInv, PositionInv, At, Future
<1>4. k \in HeldAt /\ HeldAt' = HeldAt \ {k}
  BY <1>1, <1>2, <1>3 DEF HeldAt
<1>5. /\ counters'.submitted = counters.submitted /\ counters'.skipped = counters.skipped
      /\ counters'[st] = counters[st] + 1
      /\ \A s \in {"failed", "completed"} : s # st => counters'[s] = counters[s]
  <2>1. CASE st = "failed"
    <3>1. counters' = [counters EXCEPT !.failed = @ + 1]
      BY <1>1, <2>1
    <3>2. counters \in Counters
      BY DEF FlowInv, TypeInv
    <3> QED BY <2>1, <3>1, <3>2 DEF Counters
  <2>2. CASE st = "completed"
    <3>1. counters' = [counters EXCEPT !.completed = @ + 1]
      BY <1>1, <2>2
    <3>2. counters \in Counters
      BY DEF FlowInv, TypeInv
    <3> QED BY <2>2, <3>1, <3>2 DEF Counters
  <2> QED BY <1>1, <2>1, <2>2
<1>6. SkippedAt' = SkippedAt
  BY <1>1, <1>5 DEF SkippedAt
<1>7. args.stored => \A r : StatusOf(commits', r)
                               = IF r = task.rank THEN st ELSE StatusOf(commits, r)
  <2>1. args.space \in Spaces /\ commits \in Seq(Row)
    BY <1>1 DEF FlowInv, TypeInv
  <2> QED BY <1>1, <1>3, <2>1, StatusAfterTask
<1>8. args.stored => \A r \in before' : StatusOf(commits', r) = "completed"
  BY <1>1, <1>2, <1>3, <1>7 DEF StoreInv
<1>9. ASSUME args.stored, Distinct(args.source)
      PROVE  \A s \in {"failed", "completed"} : Cardinality(DoneAt(s)') = counters'[s]
  <2>1. \A i \in 1..counters.submitted : args.source[i] = task.rank <=> i = k
    <3>1. counters.submitted \in Nat /\ counters.submitted <= Len(args.source)
          /\ args.source \in Seq(Int)
      <4>1. counters.submitted + Len(source) = Len(args.source) /\ source \in Seq(Int)
            /\ args.source \in Seq(Int)
        BY <1>1 DEF FlowInv, PositionInv, TypeInv
      <4> QED BY <4>1, CounterTypes
    <3>2. \A i \in 1..counters.submitted : i \in DOMAIN args.source
      BY <3>1
    <3> QED BY <1>3, <1>9, <3>2 DEF Distinct
  <2>2. \A s : DoneAt(s)' = {i \in 1..counters.submitted :
                              /\ i \notin HeldAt \ {k} /\ args.source[i] \notin before
                              /\ StatusOf(commits', args.source[i]) = s}
    BY <1>1, <1>4, <1>5 DEF DoneAt
  <2>3. DoneAt(st)' = DoneAt(st) \cup {k}
    BY <1>3, <1>7, <1>9, <2>1, <2>2 DEF DoneAt
  <2>4. \A s : s # st => DoneAt(s)' = DoneAt(s)
    BY <1>3, <1>4, <1>7, <1>9, <2>1, <2>2 DEF DoneAt
  <2>5. k \notin DoneAt(st) /\ IsFiniteSet(DoneAt(st))
    BY <1>4, PositionSetsFinite DEF DoneAt
  <2>6. Cardinality(DoneAt(st)') = Cardinality(DoneAt(st)) + 1
    BY <2>3, <2>5, FS_AddElement
  <2>7. \A s \in {"failed", "completed"} : Cardinality(DoneAt(s)) = counters[s]
    BY <1>2, <1>9 DEF StoreInv
  <2> QED BY <1>1, <1>5, <2>4, <2>6, <2>7
<1>10. /\ args.stored /\ Distinct(args.source) =>
             /\ Cardinality(DoneAt("completed")') = counters'.completed
             /\ Cardinality(DoneAt("failed")') = counters'.failed
       /\ Cardinality(SkippedAt') = counters'.skipped
  BY <1>2, <1>5, <1>6, <1>9 DEF StoreInv
<1>11. args' = args /\ Distinct(args.source)' = Distinct(args.source)
  BY <1>1 DEF Distinct
<1> HIDE DEF k
<1> QED BY <1>8, <1>10, <1>11 DEF StoreInv

\* Steps of the workers change no id.
LEMMA HeldSameFutures ==
  ASSUME FlowInv, NEW m \in [futures -> Future], futures' = {m[f] : f \in futures},
         \A f \in futures : m[f].id = f.id /\ m[f].rank = f.rank,
         UNCHANGED <<phase, task>>
  PROVE  HeldAt' = HeldAt
<1>1. {f.id : f \in futures'} = {f.id : f \in futures}
  BY SameFutures
<1> QED BY <1>1 DEF HeldAt

LEMMA StoreWorkers ==
  ASSUME FlowInv, StoreInv, Finish \/ BreakPool
  PROVE  StoreInv'
<1>1. /\ UNCHANGED <<store, phase, source, counters, batch, task, loop>>
      /\ \E m \in [futures -> Future] :
           /\ futures' = {m[f] : f \in futures}
           /\ \A f \in futures : m[f].id = f.id /\ m[f].rank = f.rank
  BY FinishMap, BreakPoolMap
<1>2. UNCHANGED <<commits, counters, args, before, phase, task>>
  BY <1>1 DEF store, loop
<1>3. HeldAt' = HeldAt
  BY <1>1, <1>2, HeldSameFutures
<1>4. On' => On
  BY <1>2 DEF On, Working
<1> QED BY <1>2, <1>3, <1>4, StoreSame

LEMMA StoreNext == FlowInv /\ StoreInv /\ [Next]_vars => StoreInv'
<1> SUFFICES ASSUME FlowInv, StoreInv, [Next]_vars PROVE StoreInv'
  OBVIOUS
<1>1. CASE Start
  BY <1>1, StoreStart
<1>2. CASE Fill
  <2>1. phase = "fill" /\ UNCHANGED loop
    BY <1>2 DEF Fill
  <2> DEFINE one == IF Cardinality(futures) + 1 < Room THEN "fill" ELSE "wait"
  <2>2. Submit("wait", one) /\ one # "record"
    BY <1>2 DEF Fill
  <2> HIDE DEF one
  <2> QED BY <2>1, <2>2, StoreSubmit
<1>3. CASE Refill
  <2>1. phase = "refill" /\ UNCHANGED loop /\ Submit("batch", "batch")
    BY <1>3 DEF Refill
  <2> QED BY <2>1, StoreSubmit
<1>4. CASE Wait \/ BatchEnd \/ Return \/ Sync
  <2>1. UNCHANGED <<commits, counters, args, before>> /\ HeldAt' = HeldAt /\ On
    BY <1>4 DEF Wait, BatchEnd, Return, Sync, loop, HeldAt, On, Working
  <2> QED BY <2>1, StoreSame
<1>5. CASE Take
  BY <1>5, StoreTake
<1>6. CASE RecordRefused \/ Unwound \/ Crash \/ PowerLoss
  <2>1. ~On'
    BY <1>6 DEF RecordRefused, Unwound, Crash, PowerLoss, Die, On, Working
  <2> QED BY <2>1 DEF StoreInv
<1>7. CASE Record
  BY <1>7, StoreRecord
<1>8. CASE Finish \/ BreakPool
  BY <1>8, StoreWorkers
<1>9. CASE UNCHANGED vars
  <2>1. UNCHANGED <<commits, counters, args, before>> /\ HeldAt' = HeldAt /\ On' = On
    BY <1>9 DEF vars, HeldAt, On, Working
  <2> QED BY <2>1, StoreSame
<1> QED BY <1>1, <1>2, <1>3, <1>4, <1>5, <1>6, <1>7, <1>8, <1>9 DEF Next, MainThread, Faults

\* The counters of a run agree with the checkpoint at every moment of it, whatever
\* other runs left there (runner.py:234-242, 304-311).
THEOREM StoreCorrect == Spec => [](FlowInv /\ StoreInv)
<1>1. Init => FlowInv /\ StoreInv
  BY FlowInit, StoreInit
<1>2. FlowInv /\ StoreInv /\ [Next]_vars => (FlowInv /\ StoreInv)'
  BY FlowNext, StoreNext
<1> QED BY <1>1, <1>2, PTL DEF Spec

\* The summary of a run that returns says of distinct ranks what the checkpoint
\* says of them (runner.py:314-325).
THEOREM SummarySaysWhatIsStored == Spec => []SummaryIsTrue
<1>1. FlowInv /\ StoreInv => SummaryIsTrue
  <2> SUFFICES ASSUME FlowInv, StoreInv,
                      phase = "returned", args.stored, Distinct(args.source)
               PROVE  /\ Cardinality(StoredAs("completed"))
                            = counters.completed + counters.skipped
                      /\ Cardinality(StoredAs("failed")) = counters.failed
    BY DEF SummaryIsTrue
  <2>1. HeldAt = {} /\ counters.submitted = Len(args.source)
    <3>1. futures = {} /\ source = <<>>
      BY DEF FlowInv, CountInv
    <3>2. counters.submitted + 0 = Len(args.source)
      BY <3>1 DEF FlowInv, PositionInv
    <3> QED BY <3>1, <3>2, CounterTypes DEF HeldAt
  <2>2. args.source \in Seq(Int) /\ DOMAIN args.source = 1..counters.submitted
    BY <2>1 DEF FlowInv, TypeInv
  <2>3. \A r \in before : StatusOf(commits, r) = "completed"
    BY DEF StoreInv, On
  <2>4. StoredAs("completed") = DoneAt("completed") \cup SkippedAt
    BY <2>1, <2>2, <2>3 DEF StoredAs, DoneAt, SkippedAt
  <2>5. StoredAs("failed") = DoneAt("failed")
    BY <2>1, <2>2, <2>3 DEF StoredAs, DoneAt
  <2>6. DoneAt("completed") \cap SkippedAt = {}
    BY DEF DoneAt, SkippedAt
  <2>7. /\ Cardinality(DoneAt("completed")) = counters.completed
        /\ Cardinality(DoneAt("failed")) = counters.failed
        /\ Cardinality(SkippedAt) = counters.skipped
    BY DEF StoreInv, On
  <2>8. Cardinality(DoneAt("completed") \cup SkippedAt)
          = Cardinality(DoneAt("completed")) + Cardinality(SkippedAt)
              - Cardinality(DoneAt("completed") \cap SkippedAt)
    BY PositionSetsFinite, FS_Union
  <2>9. Cardinality(DoneAt("completed") \cap SkippedAt) = 0
    BY <2>6, FS_EmptySet
  <2>10. Cardinality(StoredAs("completed")) = counters.completed + counters.skipped - 0
    BY <2>4, <2>7, <2>8, <2>9, Zenon
  <2>11. counters.completed + counters.skipped - 0 = counters.completed + counters.skipped
    BY CounterTypes
  <2> QED BY <2>5, <2>7, <2>10, <2>11, Zenon
<1> QED BY <1>1, StoreCorrect, PTL

-----------------------------------------------------------------------------
(* Runs on one checkpoint make up a campaign *)

\* The arguments of a campaign: its runs resume and are given distinct ranks.
Resuming ==
  Resumes \subseteq {TRUE} /\ Stores \subseteq {TRUE} /\ \A s \in Sources : Distinct(s)

\* A row that says completed is the last one of its rank.
Final(rows) ==
  \A i, j \in DOMAIN rows :
    /\ rows[i].table = "tasks" /\ rows[i].status = "completed"
    /\ rows[j].table = "tasks" /\ rows[j].rank = rows[i].rank
    => j <= i

Busy == Working \/ phase = "unwinding"

\* While a run lasts, what is completed was so before it or is at a position that
\* is done with.
CampaignInv ==
  /\ phase # "off" => args.stored /\ args.resume /\ Distinct(args.source)
  /\ Final(commits)
  /\ Busy => \A r \in CompletedRanks(commits) :
                \/ r \in before
                \/ \E i \in 1..counters.submitted : i \notin HeldAt /\ r = args.source[i]

\* A list of distinct ranks has each of them at one position.
LEMMA DistinctPositions ==
  ASSUME FlowInv, CampaignInv, phase # "off",
         NEW i \in 1..Len(args.source), NEW j \in 1..Len(args.source),
         args.source[i] = args.source[j]
  PROVE  i = j
<1>1. args.source \in Seq(Int)
  BY DEF FlowInv, TypeInv
<1>2. i \in DOMAIN args.source /\ j \in DOMAIN args.source
  BY <1>1
<1> QED BY <1>2 DEF CampaignInv, Distinct

\* What is in hand, or drawn next, is not completed.
LEMMA NotCompleted ==
  ASSUME FlowInv, CampaignInv, Busy, NEW k \in 1..Len(args.source),
         args.source[k] \notin before, k \in HeldAt \/ k > counters.submitted
  PROVE  args.source[k] \notin CompletedRanks(commits)
<1>1. SUFFICES ASSUME args.source[k] \in CompletedRanks(commits) PROVE FALSE
  OBVIOUS
<1>2. PICK i \in 1..counters.submitted : i \notin HeldAt /\ args.source[k] = args.source[i]
  BY <1>1 DEF CampaignInv
<1>3. phase # "off"
  BY DEF Busy, Working
<1>4. counters.submitted \in Nat /\ counters.submitted <= Len(args.source)
      /\ Len(args.source) \in Nat
  <2>1. counters.submitted + Len(source) = Len(args.source)
        /\ source \in Seq(Int) /\ args.source \in Seq(Int)
    BY <1>3 DEF FlowInv, PositionInv, TypeInv
  <2> QED BY <2>1, CounterTypes
<1>5. i \in 1..Len(args.source)
  BY <1>4
<1>6. i = k
  BY <1>2, <1>3, <1>5, DistinctPositions
<1> QED BY <1>2, <1>4, <1>6

\* Steps that store nothing, and take in hand only what they draw.
LEMMA CampaignSame ==
  ASSUME FlowInv, CampaignInv, UNCHANGED <<commits, args, before>>,
         phase' # "off" => phase # "off",
         \/ ~Busy'
         \/ /\ Busy
            /\ counters'.submitted \in Nat /\ counters.submitted <= counters'.submitted
            /\ \A i \in HeldAt' : i \in HeldAt \/ i > counters.submitted
  PROVE  CampaignInv'
<1>1. Distinct(args.source)' = Distinct(args.source)
  BY DEF Distinct
<1>2. Final(commits)' = Final(commits) /\ CompletedRanks(commits)' = CompletedRanks(commits)
  BY DEF Final, CompletedRanks
<1>3. ASSUME Busy', NEW r \in CompletedRanks(commits)
      PROVE  \/ r \in before'
             \/ \E i \in 1..counters'.submitted : i \notin HeldAt' /\ r = args'.source[i]
  <2>1. CASE r \in before
    BY <2>1
  <2>2. CASE r \notin before
    <3>1. PICK i \in 1..counters.submitted : i \notin HeldAt /\ r = args.source[i]
      BY <1>3, <2>2 DEF CampaignInv
    <3>2. i \in 1..counters'.submitted /\ i \notin HeldAt'
      BY <1>3, <3>1, CounterTypes
    <3> QED BY <3>1, <3>2
  <2> QED BY <2>1, <2>2
<1> QED BY <1>1, <1>2, <1>3 DEF CampaignInv

LEMMA CampaignStart == FlowInv /\ CampaignInv /\ Resuming /\ Start => CampaignInv'
<1> SUFFICES ASSUME FlowInv, CampaignInv, Resuming, Start PROVE CampaignInv'
  OBVIOUS
<1>1. PICK ranks \in Sources, limit \in Limits, stored \in Stores, resume \in Resumes,
           space \in Spaces :
        /\ args'.stored = stored /\ args'.resume = resume /\ args'.space = space
        /\ args'.source = SubSeq(ranks, 1, Min({limit, Len(ranks)}))
        /\ source' = args'.source
        /\ \/ phase' = "raised" /\ UNCHANGED <<commits, before>>
           \/ /\ phase' = "fill"
              /\ commits' = IF stored THEN EnsureRun(commits, space) ELSE commits
              /\ before' = Before(commits', args')
  BY StartFacts
<1>2. args'.stored /\ args'.resume /\ Distinct(ranks) /\ ranks \in Seq(Int) /\ limit \in Nat
  BY <1>1, RunnerAssumption DEF Resuming
<1>3. Distinct(args.source)'
  <2> DEFINE m == Min({limit, Len(ranks)})
  <2>1. m \in Int /\ m <= Len(ranks)
    BY <1>2, MinFacts
  <2> HIDE DEF m
  <2>2. Distinct(SubSeq(ranks, 1, m))
    BY <1>2, <2>1 DEF Distinct
  <2> QED BY <1>1, <2>2 DEF m, Distinct
<1>4. Final(commits)'
  <2>1. CASE commits' = commits
    BY <2>1 DEF CampaignInv, Final
  <2>2. CASE commits' = Append(commits, RunRow(args'.space))
    <3>1. commits \in Seq(Row) /\ RunRow(args'.space) \in Row
          /\ RunRow(args'.space).table = "runs"
      BY <1>1 DEF FlowInv, TypeInv, Row, RunRow
    <3>2. \A i \in DOMAIN commits' :
            commits'[i].table = "tasks" => i \in DOMAIN commits /\ commits'[i] = commits[i]
      BY <2>2, <3>1
    <3> QED BY <3>2 DEF CampaignInv, Final
  <2> QED BY <1>1, <2>1, <2>2 DEF EnsureRun
<1>5. Busy' => \A r \in CompletedRanks(commits') : r \in before'
  BY <1>1, <1>2 DEF Busy, Working, Before
<1> QED BY <1>2, <1>3, <1>4, <1>5 DEF CampaignInv

LEMMA CampaignSubmit ==
  ASSUME FlowInv, CampaignInv, phase \in {"fill", "refill"},
         NEW none \in {"fill", "wait", "batch"}, NEW one \in {"fill", "wait", "batch"},
         Submit(none, one), UNCHANGED loop
  PROVE  CampaignInv'
<1> USE DEF loop
<1>1. source \in Seq(Int) /\ Leading \in 0..Len(source) /\ Leading \in Nat
      /\ (~Exhausted => Leading + 1 \in 0..Len(source))
  BY LeadingFacts DEF FlowInv, TypeInv
<1>2. PICK n \in 0..Len(source) :
        /\ n \in Nat /\ Drawn(n)
        /\ HeldAt' \subseteq HeldAt \cup {NewFuture.id}
        /\ HeldAt' = HeldAt \/ (~Exhausted /\ InSpace(NextRank))
        /\ commits' = commits /\ phase' # "off"
  <2>1. CASE SubmitNone(none)
    BY <1>1, <2>1 DEF SubmitNone, HeldAt
  <2>2. CASE SubmitBad
    BY <1>1, <2>2 DEF SubmitBad, RaiseInside, HeldAt
  <2>3. CASE SubmitOne(one)
    BY <1>1, <2>3 DEF SubmitOne, HeldAt, NewFuture
  <2> QED BY <2>1, <2>2, <2>3 DEF Submit
<1>3. counters'.submitted \in Nat /\ counters.submitted <= counters'.submitted
  <2>1. counters'.submitted = counters.submitted + n
    BY <1>2, DrawnFacts
  <2> QED BY <1>2, <2>1, CounterTypes
<1>4. \A i \in HeldAt' : i \in HeldAt \/ i > counters.submitted
  <2>1. CASE HeldAt' = HeldAt
    BY <2>1
  <2>2. CASE ~Exhausted /\ InSpace(NextRank)
    <3>1. NewFuture.id = counters.submitted + (Leading + 1)
      BY <2>2, NewFutureFacts
    <3>2. NewFuture.id > counters.submitted
      BY <1>1, <3>1, CounterTypes
    <3> QED BY <1>2, <3>2
  <2> QED BY <1>2, <2>1, <2>2
<1> QED BY <1>2, <1>3, <1>4, CampaignSame DEF Busy, Working

\* The position just yielded is not among the futures, nor is its rank.
LEMMA CampaignRecordFacts ==
  ASSUME FlowInv, CampaignInv, Record
  PROVE  /\ task.id \in 1..counters.submitted /\ task.id \in HeldAt
         /\ task.rank = args.source[task.id] /\ task.rank \in Ranks
         /\ task.rank \notin CompletedRanks(commits)
         /\ commits' = Append(commits, TaskRow(args.space, task.rank, RecordedStatus))
         /\ args.space \in Spaces /\ commits \in Seq(Row)
         /\ RecordedStatus \in {"failed", "completed"}
<1>1. /\ phase = "record" /\ task \in Future /\ RecordedStatus \in {"failed", "completed"}
      /\ commits' = IF args.stored
                      THEN Append(commits, TaskRow(args.space, task.rank, RecordedStatus))
                      ELSE commits
  BY RecordFacts
<1>2. Busy /\ args.stored
  BY <1>1 DEF Busy, Working, CampaignInv
<1>3. /\ task.id \in 1..counters.submitted /\ task.rank = args.source[task.id]
      /\ task.rank \notin before /\ task.rank \in Ranks
  BY <1>1 DEF FlowInv, PositionInv, At, Future
<1>4. task.id \in HeldAt
  BY <1>1 DEF HeldAt
<1>5. task.id \in 1..Len(args.source)
  <2>1. counters.submitted + Len(source) = Len(args.source)
        /\ source \in Seq(Int) /\ args.source \in Seq(Int)
    BY <1>1 DEF FlowInv, PositionInv, TypeInv
  <2> QED BY <1>3, <2>1, CounterTypes
<1>6. task.rank \notin CompletedRanks(commits)
  BY <1>2, <1>3, <1>4, <1>5, NotCompleted
<1> QED BY <1>1, <1>2, <1>3, <1>4, <1>6 DEF FlowInv, TypeInv

LEMMA CampaignRecord == FlowInv /\ CampaignInv /\ Record => CampaignInv'
<1> SUFFICES ASSUME FlowInv, CampaignInv, Record PROVE CampaignInv'
  OBVIOUS
<1>1. PICK row : row = TaskRow(args.space, task.rank, RecordedStatus)
  OBVIOUS
<1>2. PICK k, rank : k = task.id /\ rank = task.rank
  OBVIOUS
<1>3. /\ k \in 1..counters.submitted /\ k \in HeldAt
      /\ rank = args.source[k] /\ rank \in Ranks /\ rank \notin CompletedRanks(commits)
      /\ commits' = Append(commits, row)
      /\ args.space \in Spaces /\ commits \in Seq(Row)
      /\ RecordedStatus \in {"failed", "completed"}
  BY <1>1, <1>2, CampaignRecordFacts
<1>4. /\ phase = "record" /\ UNCHANGED <<futures, args, before>>
      /\ counters' = [counters EXCEPT ![RecordedStatus] = @ + 1]
      /\ phase' \in {"raised", "refill"}
  BY RecordFacts
<1>5. counters'.submitted = counters.submitted
  <2>1. counters \in Counters
    BY DEF FlowInv, TypeInv
  <2> QED BY <1>3, <1>4, <2>1 DEF Counters
<1>6. row \in Row /\ row.table = "tasks" /\ row.rank = rank
  BY <1>1, <1>2, <1>3 DEF TaskRow, Row
<1>7. StatusOf(commits, rank) # "completed"
  BY <1>3 DEF CompletedRanks
<1>8. \A i \in DOMAIN commits :
        commits[i].table = "tasks" /\ commits[i].rank = rank => commits[i].status # "completed"
  <2>1. SUFFICES ASSUME NEW i \in DOMAIN commits, commits[i].table = "tasks",
                        commits[i].rank = rank, commits[i].status = "completed"
                 PROVE  FALSE
    OBVIOUS
  <2>2. i \in RowsOf(commits, rank) /\ \A j \in RowsOf(commits, rank) : j <= i
    BY <2>1 DEF RowsOf, CampaignInv, Final
  <2>3. StatusOf(commits, rank) = commits[i].status
    BY <1>3, <2>2, LastRowCounts
  <2> QED BY <1>7, <2>1, <2>3
<1>9. Final(commits')
  <2>1. SUFFICES ASSUME NEW i \in DOMAIN commits', NEW j \in DOMAIN commits',
                        commits'[i].table = "tasks", commits'[i].status = "completed",
                        commits'[j].table = "tasks", commits'[j].rank = commits'[i].rank
                 PROVE  j <= i
    BY DEF Final
  <2>2. /\ DOMAIN commits' = 1..Len(commits) + 1 /\ Len(commits) \in Nat
        /\ DOMAIN commits = 1..Len(commits)
        /\ \A n \in 1..Len(commits) : commits'[n] = commits[n]
        /\ commits'[Len(commits) + 1] = row
    BY <1>3, <1>6
  <2>3. CASE i = Len(commits) + 1
    BY <2>2, <2>3
  <2>4. CASE i \in 1..Len(commits) /\ j = Len(commits) + 1
    BY <1>6, <1>8, <2>1, <2>2, <2>4
  <2>5. CASE i \in 1..Len(commits) /\ j \in 1..Len(commits)
    BY <2>1, <2>2, <2>5 DEF CampaignInv, Final
  <2> QED BY <2>2, <2>3, <2>4, <2>5
<1>10. ASSUME Busy', NEW r \in CompletedRanks(commits')
       PROVE  \/ r \in before'
              \/ \E i \in 1..counters'.submitted : i \notin HeldAt' /\ r = args'.source[i]
  <2>1. phase' = "refill"
    BY <1>4, <1>10 DEF Busy, Working
  <2>2. HeldAt' = HeldAt \ {k}
    <3>1. \A f \in futures : f.id # k
      BY <1>2, <1>4 DEF FlowInv, PositionInv
    <3> QED BY <1>2, <1>4, <2>1, <3>1 DEF HeldAt
  <2>3. CASE r = rank
    BY <1>3, <1>4, <1>5, <2>2, <2>3
  <2>4. CASE r # rank
    <3>1. StatusOf(commits', r) = StatusOf(commits, r)
      <4>1. commits' = Append(commits, TaskRow(args.space, rank, RecordedStatus))
        BY <1>1, <1>2, <1>3
      <4>2. commits \in Seq(Row) /\ args.space \in Spaces /\ rank \in Ranks
            /\ RecordedStatus \in {"failed", "completed"}
        BY <1>3
      <4> QED BY <2>4, <4>1, <4>2, StatusAfterTask
    <3>2. r \in CompletedRanks(commits)
      BY <1>10, <3>1 DEF CompletedRanks
    <3> QED BY <1>4, <1>5, <2>2, <3>2 DEF CampaignInv, Busy, Working
  <2> QED BY <2>3, <2>4
<1>11. Distinct(args.source)' = Distinct(args.source) /\ phase # "off"
  BY <1>4 DEF Distinct
<1>12. Final(commits)'
  BY <1>9 DEF Final
<1>13. Busy' => \A r \in CompletedRanks(commits)' :
                 \/ r \in before'
                 \/ \E i \in 1..counters'.submitted : i \notin HeldAt' /\ r = args'.source[i]
  BY <1>10 DEF CompletedRanks
<1> QED BY <1>4, <1>11, <1>12, <1>13 DEF CampaignInv

LEMMA CampaignPowerLoss == FlowInv /\ CampaignInv /\ PowerLoss => CampaignInv'
<1> SUFFICES ASSUME FlowInv, CampaignInv, PowerLoss PROVE CampaignInv'
  OBVIOUS
<1>1. PICK n \in synced..Len(commits) :
        /\ n \in Nat /\ n <= Len(commits)
        /\ commits' \in Seq(Row) /\ Len(commits') = n
        /\ \A i \in 1..n : commits'[i] = commits[i]
  BY PowerLossFacts
<1>2. commits \in Seq(Row)
  BY DEF FlowInv, TypeInv
<1>3. \A i \in DOMAIN commits' : i \in DOMAIN commits /\ commits'[i] = commits[i]
  BY <1>1, <1>2
<1>4. Final(commits)'
  BY <1>3 DEF CampaignInv, Final
<1>5. phase' = "off"
  BY DEF PowerLoss, Die
<1> QED BY <1>4, <1>5 DEF CampaignInv, Busy, Working

LEMMA CampaignNext == Resuming /\ FlowInv /\ CampaignInv /\ [Next]_vars => CampaignInv'
<1> SUFFICES ASSUME Resuming, FlowInv, CampaignInv, [Next]_vars PROVE CampaignInv'
  OBVIOUS
<1>1. CASE Start
  BY <1>1, CampaignStart
<1>2. CASE Fill
  <2>1. phase = "fill" /\ UNCHANGED loop
    BY <1>2 DEF Fill
  <2> DEFINE one == IF Cardinality(futures) + 1 < Room THEN "fill" ELSE "wait"
  <2>2. Submit("wait", one) /\ one \in {"fill", "wait", "batch"}
    BY <1>2 DEF Fill
  <2> HIDE DEF one
  <2> QED BY <2>1, <2>2, CampaignSubmit
<1>3. CASE Refill
  <2>1. phase = "refill" /\ UNCHANGED loop /\ Submit("batch", "batch")
    BY <1>3 DEF Refill
  <2> QED BY <2>1, CampaignSubmit
<1>4. CASE Wait \/ BatchEnd \/ Sync
  <2>1. /\ UNCHANGED <<commits, args, before, counters>> /\ HeldAt' = HeldAt
        /\ Busy /\ Busy' /\ phase # "off"
    BY <1>4 DEF Wait, BatchEnd, Sync, loop, HeldAt, Busy, Working
  <2> QED BY <2>1, CounterTypes, CampaignSame
<1>5. CASE Take
  <2>1. PICK f \in futures :
          /\ futures' = futures \ {f}
          /\ IF f.state = "broken"
               THEN RaiseInside
               ELSE /\ task' = f
                    /\ phase' = "record"
                    /\ UNCHANGED <<commits, synced>>
    BY <1>5 DEF Take
  <2>2. phase = "batch" /\ UNCHANGED <<commits, counters, args, before>>
    BY <1>5, <2>1 DEF Take, loop, RaiseInside
  <2>3. HeldAt' \subseteq HeldAt
    BY <2>1, <2>2 DEF HeldAt, RaiseInside
  <2> QED BY <2>2, <2>3, CounterTypes, CampaignSame DEF Busy, Working
<1>6. CASE Return \/ RecordRefused \/ Unwound \/ Crash
  <2>1. UNCHANGED <<commits, args, before>> /\ ~Busy' /\ phase # "off"
    BY <1>6 DEF Return, RecordRefused, Unwound, Crash, Die, store, loop, Busy, Working
  <2> QED BY <2>1, CampaignSame
<1>7. CASE Record
  BY <1>7, CampaignRecord
<1>8. CASE Finish \/ BreakPool
  <2>1. /\ UNCHANGED <<store, phase, source, counters, batch, task, loop>>
        /\ \E m \in [futures -> Future] :
             /\ futures' = {m[f] : f \in futures}
             /\ \A f \in futures : m[f].id = f.id /\ m[f].rank = f.rank
    BY <1>8, FinishMap, BreakPoolMap
  <2>2. UNCHANGED <<commits, args, before, counters, phase, task>>
    BY <2>1 DEF store, loop
  <2>3. HeldAt' = HeldAt
    BY <2>1, <2>2, HeldSameFutures
  <2>4. Busy' = Busy
    BY <2>2 DEF Busy, Working
  <2> QED BY <2>2, <2>3, <2>4, CounterTypes, CampaignSame
<1>9. CASE PowerLoss
  BY <1>9, CampaignPowerLoss
<1>10. CASE UNCHANGED vars
  <2>1. /\ UNCHANGED <<commits, args, before, counters, phase, task>> /\ HeldAt' = HeldAt
        /\ Busy' = Busy
    BY <1>10 DEF vars, HeldAt, Busy, Working
  <2> QED BY <2>1, CounterTypes, CampaignSame
<1> QED BY <1>1, <1>2, <1>3, <1>4, <1>5, <1>6, <1>7, <1>8, <1>9, <1>10
        DEF Next, MainThread, Faults

-----------------------------------------------------------------------------
(* Every step of a run is a step of the campaign, or none *)

\* The rows that survive a loss of power say no more than those it struck.
LEMMA PrefixStatus ==
  ASSUME NEW rows \in Seq(Row), NEW p \in Seq(Row), Len(p) <= Len(rows),
         \A i \in 1..Len(p) : p[i] = rows[i], Final(rows), NEW r
  PROVE  /\ StatusOf(p, r) = "completed" => StatusOf(rows, r) = "completed"
         /\ StatusOf(p, r) # "none" => StatusOf(rows, r) # "none"
<1>1. RowsOf(p, r) \subseteq RowsOf(rows, r)
  BY DEF RowsOf
<1>2. CASE RowsOf(p, r) = {}
  BY <1>2, StatusFacts
<1>3. CASE RowsOf(p, r) # {}
  <2>1. StatusOf(rows, r) # "none"
    BY <1>1, <1>3, StatusFacts
  <2>2. PICK m \in RowsOf(p, r) : StatusOf(p, r) = p[m].status
    BY <1>3, StatusFacts
  <2>3. m \in RowsOf(rows, r) /\ p[m] = rows[m]
    BY <1>1 DEF RowsOf
  <2>4. ASSUME p[m].status = "completed" PROVE StatusOf(rows, r) = "completed"
    <3>1. \A i \in RowsOf(rows, r) : i <= m
      BY <2>3, <2>4 DEF RowsOf, Final
    <3>2. StatusOf(rows, r) = rows[m].status
      BY <2>3, <3>1, LastRowCounts
    <3> QED BY <2>3, <2>4, <3>2
  <2> QED BY <2>1, <2>2, <2>4
<1> QED BY <1>2, <1>3

\* What the campaign sees of the checkpoint.
LEMMA StoredFacts ==
  ASSUME TypeInv
  PROVE  /\ Stored \in [Ranks -> {"none", "failed", "completed"}]
         /\ CompletedRanks(commits) = Promise!CompletedIn(Stored)
<1>1. commits \in Seq(Row)
  BY DEF TypeInv
<1>2. \A r : StatusOf(commits, r) \in {"none", "failed", "completed"}
  BY <1>1, StatusFacts
<1> QED BY <1>2 DEF Stored, CompletedRanks, Promise!CompletedIn

\* Closing the store may make safe what is completed.
LEMMA SafeAfterClose ==
  ASSUME FlowInv, FlowInv', UNCHANGED commits,
         synced' = synced \/ synced' = Len(commits')
  PROVE  Stored' = Stored /\ Safe' \in {Safe, Promise!CompletedIn(Stored)}
<1>1. Stored' = Stored
  BY DEF Stored
<1>2. CASE synced' = synced
  BY <1>1, <1>2 DEF Safe, CompletedRanks
<1>3. CASE synced' = Len(commits')
  <2>1. SubSeq(commits, 1, Len(commits)) = commits
    BY DEF FlowInv, TypeInv
  <2>2. Safe' = CompletedRanks(commits)
    BY <1>3, <2>1 DEF Safe, CompletedRanks
  <2> QED BY <1>1, <2>2, StoredFacts DEF FlowInv
<1> QED BY <1>1, <1>2, <1>3

\* A step the campaign does not see.
LEMMA Unseen ==
  ASSUME UNCHANGED <<commits, synced>>, InHand' = InHand
  PROVE  UNCHANGED Promise!vars
<1>1. Stored' = Stored /\ Safe' = Safe
  BY DEF Stored, Safe, CompletedRanks
<1> QED BY <1>1 DEF Promise!vars

\* A step that gives up some of the work, and may sync the store.
LEMMA GivesUp ==
  ASSUME FlowInv, FlowInv', UNCHANGED commits, synced' = synced \/ synced' = Len(commits'),
         InHand' \subseteq InHand
  PROVE  Promise!Next
<1>1. Stored' = Stored /\ Safe' \in {Safe, Promise!CompletedIn(Stored)}
  BY SafeAfterClose
<1>2. Promise!MaybeSave
  BY <1>1 DEF Promise!MaybeSave
<1>3. Promise!Abandon
  BY <1>1, <1>2 DEF Promise!Abandon
<1> QED BY <1>3 DEF Promise!Next

LEMMA CampaignInit == Init => Promise!Init
<1> SUFFICES ASSUME Init PROVE Promise!Init
  OBVIOUS
<1>1. commits = <<>> /\ commits \in Seq(Row) /\ SubSeq(commits, 1, synced) = <<>>
  BY DEF Init
<1>2. \A r : RowsOf(commits, r) = {}
  BY <1>1 DEF RowsOf
<1>3. \A r : StatusOf(commits, r) = "none"
  BY <1>1, <1>2, StatusFacts
<1>4. Stored = [r \in Ranks |-> "none"]
  BY <1>3 DEF Stored
<1>5. Safe = {}
  BY <1>1, <1>3 DEF Safe, CompletedRanks
<1>6. InHand = {}
  BY DEF Init, InHand, Working
<1> QED BY <1>4, <1>5, <1>6 DEF Promise!Init

LEMMA StepStart ==
  ASSUME FlowInv, CampaignInv, Start
  PROVE  UNCHANGED Promise!vars
<1>1. commits' = commits \/ \E space \in Spaces : commits' = Append(commits, RunRow(space))
  BY StartFacts DEF EnsureRun
<1>2. commits \in Seq(Row) /\ synced \in 0..Len(commits) /\ synced' = synced
  BY DEF Start, FlowInv, TypeInv
<1>3. \A r : StatusOf(commits', r) = StatusOf(commits, r)
  <2>1. CASE commits' = commits
    BY <2>1
  <2>2. ASSUME NEW space \in Spaces, commits' = Append(commits, RunRow(space))
        PROVE  \A r : StatusOf(commits', r) = StatusOf(commits, r)
    BY <1>2, <2>2, StatusAfterRun
  <2> QED BY <1>1, <2>1, <2>2
<1>4. SubSeq(commits', 1, synced) = SubSeq(commits, 1, synced)
  <2>1. \A space \in Spaces : RunRow(space) \in Row
    BY DEF Row, RunRow
  <2> QED BY <1>1, <1>2, <2>1
<1>5. Stored' = Stored
  BY <1>3 DEF Stored
<1>6. Safe' = Safe
  BY <1>2, <1>4 DEF Safe, CompletedRanks
<1>7. InHand' = InHand
  <2>1. phase \in {"off", "returned", "raised"} /\ phase' \in {"fill", "raised"} /\ futures' = {}
    BY StartFacts DEF Start
  <2> QED BY <2>1 DEF InHand, Working
<1> QED BY <1>5, <1>6, <1>7 DEF Promise!vars

LEMMA StepSubmit ==
  ASSUME FlowInv, CampaignInv, phase \in {"fill", "refill"},
         NEW none \in {"fill", "wait", "batch"}, NEW one \in {"fill", "wait", "batch"},
         Submit(none, one), UNCHANGED loop
  PROVE  Promise!Next \/ UNCHANGED Promise!vars
<1>1. CASE SubmitNone(none) \/ SubmitBad
  <2>1. UNCHANGED <<commits, synced>> /\ InHand' = InHand
    BY <1>1 DEF SubmitNone, SubmitBad, RaiseInside, InHand, Working
  <2> QED BY <2>1, Unseen
<1>2. CASE SubmitOne(one)
  <2>1. PICK r : r = NextRank
    OBVIOUS
  <2>2. /\ ~Exhausted /\ r \in Ranks /\ InSpace(NextRank)
        /\ futures' = futures \cup {NewFuture} /\ NewFuture.rank = r
        /\ phase' = one /\ UNCHANGED <<commits, synced>>
    BY <1>2, <2>1 DEF SubmitOne, InSpace, NewFuture
  <2>3. PICK k : k = NewFuture.id
    OBVIOUS
  <2>4. /\ r = args.source[k] /\ r \notin before
        /\ k = counters.submitted + (Leading + 1)
        /\ \A f \in futures : f.id < k
    BY <2>2, <2>3, NewFutureFacts
  <2>5. k \in 1..Len(args.source) /\ k > counters.submitted
        /\ counters.submitted \in Nat /\ counters.submitted <= Len(args.source)
    <3>1. source \in Seq(Int) /\ Leading \in Nat /\ Leading + 1 <= Len(source)
      BY <2>2, LeadingFacts DEF FlowInv, TypeInv
    <3>2. counters.submitted + Len(source) = Len(args.source)
      BY DEF FlowInv, PositionInv
    <3> QED BY <2>4, <3>1, <3>2, CounterTypes
  <2>6. r \notin CompletedRanks(commits)
    BY <2>4, <2>5, NotCompleted DEF Busy, Working
  <2>7. r \notin InHand
    <3>1. SUFFICES ASSUME NEW f \in futures, f.rank = r PROVE FALSE
      BY DEF InHand
    <3>2. f.id \in 1..counters.submitted /\ f.rank = args.source[f.id]
      BY DEF FlowInv, PositionInv, At
    <3>3. f.id \in 1..Len(args.source) /\ f.id # k
      BY <2>5, <3>2
    <3> QED BY <2>4, <2>5, <3>1, <3>2, <3>3, DistinctPositions
  <2>8. InHand' = InHand \cup {r}
    BY <2>2 DEF InHand, Working
  <2>9. Stored' = Stored /\ Safe' = Safe /\ Stored[r] # "completed"
    BY <2>2, <2>6 DEF Stored, Safe, CompletedRanks
  <2>10. Promise!Claim(r)
    BY <2>7, <2>8, <2>9 DEF Promise!Claim
  <2> QED BY <2>2, <2>10 DEF Promise!Next
<1> QED BY <1>1, <1>2 DEF Submit

LEMMA StepTake ==
  ASSUME FlowInv, FlowInv', Take
  PROVE  Promise!Next \/ UNCHANGED Promise!vars
<1>1. PICK f \in futures :
        /\ futures' = futures \ {f}
        /\ IF f.state = "broken"
             THEN RaiseInside
             ELSE /\ task' = f
                  /\ phase' = "record"
                  /\ UNCHANGED <<commits, synced>>
  BY DEF Take
<1>2. phase = "batch" /\ UNCHANGED <<commits, synced>>
  BY <1>1 DEF Take, RaiseInside
<1>3. CASE f.state = "broken"
  <2>1. InHand' \subseteq InHand
    BY <1>1, <1>2, <1>3 DEF InHand, RaiseInside, Working
  <2> QED BY <1>2, <2>1, GivesUp
<1>4. CASE f.state # "broken"
  <2>1. InHand' = InHand
    BY <1>1, <1>2, <1>4 DEF InHand, Working
  <2> QED BY <1>2, <2>1, Unseen
<1> QED BY <1>3, <1>4

LEMMA StepRecord ==
  ASSUME FlowInv, FlowInv', CampaignInv, Record
  PROVE  Promise!Next
<1>1. PICK rank, st, k : rank = task.rank /\ st = RecordedStatus /\ k = task.id
  OBVIOUS
<1>2. /\ k \in 1..counters.submitted /\ rank = args.source[k] /\ rank \in Ranks
      /\ commits' = Append(commits, TaskRow(args.space, rank, st))
      /\ args.space \in Spaces /\ commits \in Seq(Row) /\ st \in {"failed", "completed"}
  BY <1>1, CampaignRecordFacts
<1>3. /\ phase = "record" /\ UNCHANGED <<futures, args, before>>
      /\ phase' \in {"raised", "refill"}
  BY RecordFacts
<1>4. rank \in InHand
  BY <1>1, <1>3 DEF InHand, Working
<1>5. InHand' \in {InHand \ {rank}, {}}
  <2>1. CASE phase' = "raised"
    BY <2>1 DEF InHand, Working
  <2>2. CASE phase' = "refill"
    <3>1. ASSUME NEW f \in futures PROVE f.rank # rank
      <4>1. f.id \in 1..counters.submitted /\ f.rank = args.source[f.id] /\ f.id # k
        BY <1>1, <1>3, <3>1 DEF FlowInv, PositionInv, At
      <4>2. counters.submitted + Len(source) = Len(args.source)
            /\ source \in Seq(Int) /\ args.source \in Seq(Int)
        BY <1>3 DEF FlowInv, PositionInv, TypeInv
      <4>3. k \in 1..Len(args.source) /\ f.id \in 1..Len(args.source)
        <5>1. /\ counters.submitted \in Nat /\ Len(source) \in Nat
              /\ Len(args.source) \in Nat
          BY <4>2, CounterTypes
        <5>2. 1..counters.submitted \subseteq 1..Len(args.source)
          BY <4>2, <5>1
        <5> QED BY <1>2, <4>1, <5>2
      <4> QED BY <1>2, <1>3, <4>1, <4>3, DistinctPositions
    <3>2. InHand = {f.rank : f \in futures} \cup {rank}
      BY <1>1, <1>3 DEF InHand, Working
    <3>3. InHand' = {f.rank : f \in futures}
      BY <1>3, <2>2 DEF InHand, Working
    <3> QED BY <3>1, <3>2, <3>3
  <2> QED BY <1>3, <2>1, <2>2
<1>6. Stored' = [Stored EXCEPT ![rank] = st]
  <2>1. \A r : StatusOf(commits', r) = IF r = rank THEN st ELSE StatusOf(commits, r)
    BY <1>2, StatusAfterTask
  <2> QED BY <1>2, <2>1 DEF Stored
<1>7. Safe' \in {Safe, Promise!CompletedIn(Stored')}
  <2>1. synced' = synced \/ synced' = Len(commits')
    BY Zenon DEF Record, Close
  <2>2. CASE synced' = synced
    <3>1. synced \in 0..Len(commits) /\ TaskRow(args.space, rank, st) \in Row
      BY <1>2 DEF FlowInv, TypeInv, TaskRow, Row
    <3>2. SubSeq(commits', 1, synced) = SubSeq(commits, 1, synced)
      BY <1>2, <3>1
    <3> QED BY <2>2, <3>2 DEF Safe, CompletedRanks
  <2>3. CASE synced' = Len(commits')
    <3>1. commits' \in Seq(Row)
      BY DEF FlowInv, TypeInv
    <3>2. SubSeq(commits', 1, Len(commits')) = commits'
      BY <3>1
    <3>3. Safe' = CompletedRanks(commits')
      BY <2>3, <3>2 DEF Safe, CompletedRanks
    <3>4. CompletedRanks(commits') = Promise!CompletedIn(Stored')
      BY DEF CompletedRanks, Stored, Promise!CompletedIn
    <3> QED BY <3>3, <3>4
  <2> QED BY <2>1, <2>2, <2>3
<1>8. Promise!MaybeSave
  BY <1>7 DEF Promise!MaybeSave, Promise!CompletedIn
<1>9. Promise!Store(rank, st)
  BY <1>4, <1>5, <1>6, <1>8 DEF Promise!Store
<1> QED BY <1>2, <1>9 DEF Promise!Next

LEMMA StepPowerLoss ==
  ASSUME FlowInv, FlowInv', CampaignInv, CampaignInv', PowerLoss
  PROVE  Promise!Next
<1>1. PICK n \in synced..Len(commits) :
        /\ n \in Nat /\ n <= Len(commits)
        /\ commits' \in Seq(Row) /\ Len(commits') = n
        /\ \A i \in 1..n : commits'[i] = commits[i]
  BY PowerLossFacts
<1>2. commits \in Seq(Row) /\ synced \in Nat /\ synced <= n /\ synced' = synced
  BY <1>1 DEF PowerLoss, FlowInv, TypeInv
<1>3. InHand' = {}
  BY DEF PowerLoss, Die, InHand, Working
<1>4. Stored' \in [Ranks -> {"none", "failed", "completed"}]
  <2>1. TypeInv'
    BY DEF FlowInv
  <2>2. \A r : StatusOf(commits', r) \in {"none", "failed", "completed"}
    BY <1>1, StatusFacts
  <2> QED BY <2>2 DEF Stored
<1>5. Final(commits) /\ Final(commits')
  BY DEF CampaignInv, Final
<1>6. \A r : /\ StatusOf(commits', r) = "completed" => StatusOf(commits, r) = "completed"
             /\ StatusOf(commits', r) # "none" => StatusOf(commits, r) # "none"
  BY <1>1, <1>2, <1>5, PrefixStatus
<1>7. Promise!CompletedIn(Stored') \subseteq Promise!CompletedIn(Stored)
      /\ \A r \in Ranks : Stored'[r] = "failed" => Stored[r] # "none"
  BY <1>6 DEF Stored, Promise!CompletedIn
<1>8. Safe \subseteq Promise!CompletedIn(Stored')
  <2> DEFINE p == SubSeq(commits, 1, synced)
  <2>1. p \in Seq(Row) /\ Len(p) = synced /\ \A i \in 1..synced : p[i] = commits[i]
    <3>1. \A i \in 1..synced : commits[i] \in Row
      BY <1>1, <1>2
    <3> QED BY <1>1, <1>2, <3>1
  <2>2. Safe = CompletedRanks(p)
    BY DEF Safe
  <2> HIDE DEF p
  <2>3. Len(p) <= Len(commits') /\ \A i \in 1..Len(p) : p[i] = commits'[i]
    BY <1>1, <1>2, <2>1
  <2>4. \A r : StatusOf(p, r) = "completed" => StatusOf(commits', r) = "completed"
    BY <1>1, <1>5, <2>1, <2>3, PrefixStatus
  <2> QED BY <2>2, <2>4 DEF CompletedRanks, Stored, Promise!CompletedIn
<1>9. Safe' = Safe
  <2>1. SubSeq(commits', 1, synced) = SubSeq(commits, 1, synced)
    BY <1>1, <1>2
  <2> QED BY <1>2, <2>1 DEF Safe, CompletedRanks
<1>10. Promise!Forget
  BY <1>3, <1>4, <1>7, <1>8, <1>9 DEF Promise!Forget, Promise!CompletedIn
<1> QED BY <1>10 DEF Promise!Next

LEMMA StepNext ==
  ASSUME FlowInv, FlowInv', CampaignInv, CampaignInv', [Next]_vars
  PROVE  Promise!Next \/ UNCHANGED Promise!vars
<1>1. CASE Start
  BY <1>1, StepStart
<1>2. CASE Fill
  <2>1. phase = "fill" /\ UNCHANGED loop
    BY <1>2 DEF Fill
  <2> DEFINE one == IF Cardinality(futures) + 1 < Room THEN "fill" ELSE "wait"
  <2>2. Submit("wait", one) /\ one \in {"fill", "wait", "batch"}
    BY <1>2 DEF Fill
  <2> HIDE DEF one
  <2> QED BY <2>1, <2>2, StepSubmit
<1>3. CASE Refill
  <2>1. phase = "refill" /\ UNCHANGED loop /\ Submit("batch", "batch")
    BY <1>3 DEF Refill
  <2> QED BY <2>1, StepSubmit
<1>4. CASE Wait \/ BatchEnd \/ UNCHANGED vars
  <2>1. UNCHANGED <<commits, synced>> /\ InHand' = InHand
    BY <1>4 DEF Wait, BatchEnd, vars, InHand, Working
  <2> QED BY <2>1, Unseen
<1>5. CASE Take
  BY <1>5, StepTake
<1>6. CASE Return \/ RecordRefused \/ Unwound
  <2>1. UNCHANGED commits /\ InHand' = {}
    BY <1>6 DEF Return, RecordRefused, Unwound, InHand, Working
  <2>2. synced' = synced \/ synced' = Len(commits')
    BY <1>6 DEF Return, RecordRefused, Unwound, Close
  <2> QED BY <2>1, <2>2, GivesUp
<1>7. CASE Record
  BY <1>7, StepRecord
<1>8. CASE Finish \/ BreakPool
  <2>1. /\ UNCHANGED <<store, phase, source, counters, batch, task, loop>>
        /\ \E m \in [futures -> Future] :
             /\ futures' = {m[f] : f \in futures}
             /\ \A f \in futures : m[f].id = f.id /\ m[f].rank = f.rank
    BY <1>8, FinishMap, BreakPoolMap
  <2>2. {f.rank : f \in futures'} = {f.rank : f \in futures}
    BY <2>1, SameFutures
  <2>3. UNCHANGED <<commits, synced, phase, task>>
    BY <2>1 DEF store
  <2>4. InHand' = InHand
    BY <2>2, <2>3 DEF InHand, Working
  <2> QED BY <2>3, <2>4, Unseen
<1>9. CASE Crash
  <2>1. UNCHANGED <<commits, synced>> /\ InHand' = {}
    BY <1>9 DEF Crash, Die, store, InHand, Working
  <2> QED BY <2>1, GivesUp
<1>10. CASE PowerLoss
  BY <1>10, StepPowerLoss
<1>11. CASE Sync
  <2>1. UNCHANGED commits /\ InHand' = InHand /\ synced' = Len(commits')
    BY <1>11 DEF Sync, InHand, Working
  <2> QED BY <2>1, GivesUp
<1> QED BY <1>1, <1>2, <1>3, <1>4, <1>5, <1>6, <1>7, <1>8, <1>9, <1>10, <1>11
        DEF Next, MainThread, Faults

\* README.md:243, for any number of runs, with crashes, exceptions and losses of
\* power between them: while runs resume and are given distinct ranks, no rank is
\* executed by two workers at a time or again once it is stored as completed, and
\* what is synced as completed stays so (runner.py:153-174, 219-252, 262-277).
THEOREM RunsMakeACampaign ==
  ASSUME Resuming
  PROVE  Spec => ImplementsCampaign
<1>1. Init => FlowInv /\ CampaignInv /\ Promise!Init
  <2>1. Init => CampaignInv
    BY DEF Init, CampaignInv, Final, Busy, Working
  <2> QED BY <2>1, FlowInit, CampaignInit
<1>2. FlowInv /\ CampaignInv /\ [Next]_vars => (FlowInv /\ CampaignInv)'
  BY FlowNext, CampaignNext
<1>3. /\ FlowInv /\ CampaignInv /\ [Next]_vars /\ (FlowInv /\ CampaignInv)'
      => [Promise!Next]_(Promise!vars)
  BY StepNext
<1> QED BY <1>1, <1>2, <1>3, PTL DEF Spec, ImplementsCampaign, Promise!Spec
=============================================================================
