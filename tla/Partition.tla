----------------------------- MODULE Partition ------------------------------
(***************************************************************************)
(* Workers that share the ranks 0..count-1 without talking to each other   *)
(* (finspace space.py 27-37 and 200-210, pdrs core.py 335-340).  Each one  *)
(* computes its interval from its own number, cuts it into batches and     *)
(* enumerates them.  A worker may die and start over; what it has yielded  *)
(* by then, seen, has left the process and stays.                          *)
(***************************************************************************)
EXTENDS Integers

CONSTANTS Counts,     \* sizes of the space
          Crews,      \* numbers of workers
          Sizes,      \* batch sizes that workers ask for
          MaxDeaths   \* how often workers die, all together

ASSUME CountsAssumption == Counts \subseteq Nat \ {0}
ASSUME CrewsAssumption == Crews \subseteq Nat \ {0}
ASSUME SizesAssumption == Sizes \subseteq Nat \ {0}
ASSUME DeathsAssumption == MaxDeaths \in Nat

VARIABLES count, workers,   \* the space and the crew, the same for everyone
          phase,            \* where each worker is
          part,             \* its Partition
          size,             \* the argument of batches
          next,             \* where the range of batches is
          batch,            \* the batch being enumerated
          rank,             \* the next rank of that batch
          seen,             \* the ranks it has ever yielded
          deaths
vars == <<count, workers, phase, part, size, next, batch, rank, seen, deaths>>

Worker == 0..workers - 1
Interval == [start : 0..count, stop : 0..count]
Phases == {"off", "between", "inside", "done", "refused"}

Smaller(a, b) == IF a <= b THEN a ELSE b

\* Where the interval of worker k begins and that of worker k - 1 ends.
Cut(k) == (k * count) \div workers

\* Variation: ends are inclusive.
PartOfInclusive(w) ==
  [start |-> Cut(w), stop |-> Smaller(count, Cut(w + 1) + 1)]

PartOf(w) == [start |-> Cut(w), stop |-> Cut(w + 1)]

Init ==
  /\ count \in Counts /\ workers \in Crews
  /\ phase = [w \in Worker |-> "off"]
  /\ part = [w \in Worker |-> [start |-> 0, stop |-> 0]]
  /\ batch = part
  /\ size \in [Worker -> Sizes]
  /\ next = [w \in Worker |-> 0]
  /\ rank = next
  /\ seen = [w \in Worker |-> {}]
  /\ deaths = 0

\* partition(w, workers) and the first step of batches(size).
Divide(w) ==
  /\ phase[w] = "off"
  /\ part' = [part EXCEPT ![w] = PartOf(w)]
  /\ next' = [next EXCEPT ![w] = Cut(w)]
  /\ phase' = [phase EXCEPT ![w] = "between"]
  /\ UNCHANGED <<count, workers, size, batch, rank, seen, deaths>>

BatchOfShort(w) ==
  [start |-> next[w], stop |-> Smaller(part[w].stop, next[w] + size[w]) - 1]

BatchOf(w) ==
  [start |-> next[w], stop |-> Smaller(part[w].stop, next[w] + size[w])]

\* What enumerate refuses (159-161).
Invalid(b) == b.start < 0 \/ b.stop < b.start \/ b.stop > count

TakeBatch(w) ==
  /\ phase[w] = "between" /\ next[w] < part[w].stop
  /\ batch' = [batch EXCEPT ![w] = BatchOf(w)]
  /\ rank' = [rank EXCEPT ![w] = next[w]]
  /\ next' = [next EXCEPT ![w] = next[w] + size[w]]
  /\ phase' = [phase EXCEPT ![w] = IF Invalid(BatchOf(w)) THEN "refused" ELSE "inside"]
  /\ UNCHANGED <<count, workers, part, size, seen, deaths>>

Yield(w) ==
  /\ phase[w] = "inside" /\ rank[w] < batch[w].stop
  /\ seen' = [seen EXCEPT ![w] = seen[w] \cup {rank[w]}]
  /\ rank' = [rank EXCEPT ![w] = rank[w] + 1]
  /\ UNCHANGED <<count, workers, phase, part, size, next, batch, deaths>>

EndBatch(w) ==
  /\ phase[w] = "inside" /\ rank[w] >= batch[w].stop
  /\ phase' = [phase EXCEPT ![w] = "between"]
  /\ UNCHANGED <<count, workers, part, size, next, batch, rank, seen, deaths>>

EndPart(w) ==
  /\ phase[w] = "between" /\ next[w] >= part[w].stop
  /\ phase' = [phase EXCEPT ![w] = "done"]
  /\ UNCHANGED <<count, workers, part, size, next, batch, rank, seen, deaths>>

\* The process of a worker dies; another one takes its number.
Die(w) ==
  /\ phase[w] \in {"between", "inside"}
  /\ deaths < MaxDeaths
  /\ deaths' = deaths + 1
  /\ phase' = [phase EXCEPT ![w] = "off"]
  /\ UNCHANGED <<count, workers, part, size, next, batch, rank, seen>>

Step(w) == Divide(w) \/ TakeBatch(w) \/ Yield(w) \/ EndBatch(w) \/ EndPart(w)
Next == \E w \in Worker : Step(w) \/ Die(w)

Spec == Init /\ [][Next]_vars

-----------------------------------------------------------------------------
TypeOK ==
  /\ count \in Counts /\ workers \in Crews
  /\ phase \in [Worker -> Phases]
  /\ part \in [Worker -> Interval] /\ batch \in [Worker -> Interval]
  /\ size \in [Worker -> Sizes]
  /\ next \in [Worker -> Nat] /\ rank \in [Worker -> 0..count]
  /\ seen \in [Worker -> SUBSET (0..count - 1)]
  /\ deaths \in 0..MaxDeaths

\* No two workers ever yield the same rank, though they share nothing and
\* some of them start over.
NoOverlap == \A v, w \in Worker : v # w => seen[v] \cap seen[w] = {}

\* When all have come to an end, each rank has been yielded and nothing else.
Covered ==
  (\A w \in Worker : phase[w] = "done") =>
    UNION {seen[w] : w \in Worker} = 0..count - 1

\* The intervals of two workers differ in length by one rank at most.
Length(w) == part[w].stop - part[w].start
Balanced ==
  \A v, w \in Worker :
    phase[v] # "off" /\ phase[w] # "off" => Length(v) - Length(w) <= 1

\* The batches of a worker join without a gap: all ranks of its interval up
\* to where it is have been yielded.
Joined ==
  \A w \in Worker :
    /\ phase[w] = "between" =>
         part[w].start..Smaller(next[w], part[w].stop) - 1 \subseteq seen[w]
    /\ phase[w] = "inside" => part[w].start..rank[w] - 1 \subseteq seen[w]

\* enumerate accepts every batch of every interval.
NeverRefused == \A w \in Worker : phase[w] # "refused"

=============================================================================
