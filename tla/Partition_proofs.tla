-------------------------- MODULE Partition_proofs --------------------------
(***************************************************************************)
(* The ranks of a space, divided and carried.  For every size of the       *)
(* space, number of workers, batch sizes and number of deaths: the workers *)
(* overlap nowhere, leave nothing out and divide the space evenly.  For    *)
(* every size of the space and of a byte: ranks and the payloads that      *)
(* decode_rank accepts correspond one to one.  For every interval: a file  *)
(* that finspace export has written holds its records.  For every schema,  *)
(* budget and number of workers: the policies of the second paper assign   *)
(* each rank once, and its methods keep their budget.                      *)
(***************************************************************************)
EXTENDS Partition, NumberLemmas, SequenceTheorems, FiniteSetTheorems, FunctionTheorems

CONSTANTS ByteBits, MaxBytes
VARIABLES step, given, wire, decoded, second

\* Payload has a space of its own, called count as well.
Pay == INSTANCE Payload WITH phase <- step, rank <- decoded

CONSTANTS Spaces, Starts, Stops, Limits, RankColumn, Text(_), Blank
VARIABLES space, format, start, stop, pc, header, file, status, printed

\* A command that writes the ranks of an interval, next being the one it is at.
File == INSTANCE Export

CONSTANTS Schemas, Budgets, Window
VARIABLES schema, budget, job, left, selected, candidates, output, multiplier, parts

\* One selection method or allocation policy; an experiment hires one of the crews.
Alloc == INSTANCE Allocation WITH Workers <- Crews

\* What floor division means.
LEMMA FloorDiv ==
  ASSUME NEW a \in Int, NEW n \in Nat, n > 0
  PROVE  /\ (a \div n) \in Int
         /\ n * (a \div n) <= a
         /\ a < n * (a \div n) + n
<1> DEFINE q == a \div n
           r == (a % n)
<1>1. q \in Int /\ r \in 0..n - 1 /\ a = n * q + r
  OBVIOUS
<1> HIDE DEF q, r
<1>2. n * q \in Int
  BY <1>1
<1>3. n * q <= a /\ a < n * q + n
  BY <1>1, <1>2
<1> QED BY <1>1, <1>3 DEF q

\* A product with a larger factor is larger by one n at least.
LEMMA StepUp ==
  ASSUME NEW n \in Nat, NEW p \in Int, NEW q \in Int, p < q
  PROVE  n * p + n <= n * q
<1>1. p + 1 <= q
  OBVIOUS
<1>2. n * (p + 1) <= n * q
  BY <1>1
<1>3. n * (p + 1) = n * p + n
  OBVIOUS
<1> QED BY <1>2, <1>3

\* Floor division is monotonic.
LEMMA FloorMono ==
  ASSUME NEW a \in Int, NEW b \in Int, NEW n \in Nat, n > 0, a <= b
  PROVE  (a \div n) <= (b \div n)
<1> DEFINE p == a \div n
           q == b \div n
<1>1. p \in Int /\ q \in Int /\ n * p <= a /\ b < n * q + n
  BY FloorDiv
<1> HIDE DEF p, q
<1>2. SUFFICES ASSUME q < p PROVE FALSE
  BY <1>1 DEF p, q
<1>3. n * q + n <= n * p
  BY <1>1, <1>2, StepUp
<1>4. n * q \in Int /\ n * p \in Int
  BY <1>1
<1> QED BY <1>1, <1>3, <1>4

\* An exact multiple.
LEMMA FloorExact ==
  ASSUME NEW c \in Int, NEW n \in Nat, n > 0
  PROVE  (n * c) \div n = c
<1> DEFINE q == (n * c) \div n
<1>0. n * c \in Int
  OBVIOUS
<1>1. q \in Int /\ n * q <= n * c /\ n * c < n * q + n
  BY <1>0, FloorDiv
<1> HIDE DEF q
<1>2. n * q \in Int
  BY <1>1
<1>3. ~ (q < c)
  BY <1>0, <1>1, <1>2, StepUp
<1>4. ~ (c < q)
  BY <1>0, <1>1, <1>2, StepUp
<1>5. q = c
  BY <1>1, <1>3, <1>4
<1> QED BY <1>5 DEF q

\* The length of the k-th interval: c \div n ranks or one more.
\* Two neighbouring intervals of c \div n or of one more.
LEMMA FloorSpread ==
  ASSUME NEW c \in Nat, NEW k \in Nat, NEW n \in Nat, n > 0
  PROVE  LET d == ((k + 1) * c) \div n - (k * c) \div n
         IN  c \div n <= d /\ d <= c \div n + 1
<1> DEFINE a == k * c
           b == (k + 1) * c
           p == a \div n
           q == b \div n
           m == c \div n
<1>1. a \in Int /\ b \in Int /\ b = a + c
  OBVIOUS
<1>2. /\ p \in Int /\ n * p <= a /\ a < n * p + n
      /\ q \in Int /\ n * q <= b /\ b < n * q + n
      /\ m \in Int /\ n * m <= c /\ c < n * m + n
  BY <1>1, FloorDiv
<1> HIDE DEF a, b, p, q, m
<1>3. /\ n * p \in Int /\ n * q \in Int /\ n * m \in Int
      /\ n * (p + m) = n * p + n * m
  BY <1>2
<1>4. ~ (q < p + m)
  <2>1. SUFFICES ASSUME q < p + m PROVE FALSE
    OBVIOUS
  <2>2. n * q + n <= n * (p + m)
    BY <1>2, <2>1, StepUp
  <2> QED BY <1>1, <1>2, <1>3, <2>2
<1>5. ~ (p + m + 1 < q)
  <2>1. SUFFICES ASSUME p + m + 1 < q PROVE FALSE
    OBVIOUS
  <2>2. n * (p + m + 1) + n <= n * q
    BY <1>2, <2>1, StepUp
  <2>3. n * (p + m + 1) = n * (p + m) + n
    BY <1>2
  <2> QED BY <1>1, <1>2, <1>3, <2>2, <2>3
<1>6. m <= q - p /\ q - p <= m + 1
  BY <1>2, <1>4, <1>5
<1> QED BY <1>6 DEF a, b, p, q, m

-----------------------------------------------------------------------------
Configured == count \in Nat /\ count > 0 /\ workers \in Nat /\ workers > 0

\* The cuts go up from 0 to count in almost equal steps.
LEMMA CutFacts ==
  ASSUME Configured
  PROVE  /\ \A k \in Nat : Cut(k) \in Int
         /\ Cut(0) = 0
         /\ Cut(workers) = count
         /\ \A k, m \in Nat : k <= m => Cut(k) <= Cut(m)
         /\ \A k \in Nat : /\ count \div workers <= Cut(k + 1) - Cut(k)
                           /\ Cut(k + 1) - Cut(k) <= count \div workers + 1
<1> USE DEF Configured
<1>1. ASSUME NEW k \in Nat PROVE Cut(k) \in Int
  <2>1. k * count \in Int
    OBVIOUS
  <2> QED BY <2>1, FloorDiv DEF Cut
<1>2. Cut(0) = 0
  <2>1. 0 * count = workers * 0
    OBVIOUS
  <2>2. (workers * 0) \div workers = 0
    BY FloorExact
  <2> QED BY <2>1, <2>2 DEF Cut
<1>3. Cut(workers) = count
  BY FloorExact DEF Cut
<1>4. ASSUME NEW k \in Nat, NEW m \in Nat, k <= m PROVE Cut(k) <= Cut(m)
  <2>1. k * count \in Int /\ m * count \in Int /\ k * count <= m * count
    BY <1>4
  <2> QED BY <2>1, FloorMono DEF Cut
<1>5. ASSUME NEW k \in Nat
      PROVE  /\ count \div workers <= Cut(k + 1) - Cut(k)
             /\ Cut(k + 1) - Cut(k) <= count \div workers + 1
  BY FloorSpread DEF Cut
<1> QED BY <1>1, <1>2, <1>3, <1>4, <1>5

\* Every rank lies between two neighbouring cuts of the crew.
LEMMA CutsCover ==
  ASSUME Configured, NEW r \in 0..count - 1
  PROVE  \E w \in Worker : Cut(w) <= r /\ r < Cut(w + 1)
<1> DEFINE Above == {k \in 0..workers : r < Cut(k)}
<1>1. workers \in Above
  BY CutFacts DEF Configured
<1>2. PICK m \in Above : \A k \in Above : m <= k
  <2>1. Above \subseteq Nat /\ Above # {}
    BY <1>1 DEF Configured
  <2> HIDE DEF Above
  <2> QED BY <2>1, LeastNat
<1>3. m # 0
  BY <1>2, CutFacts DEF Configured
<1>4. m - 1 \in Worker /\ m - 1 \notin Above /\ m - 1 \in Nat
  BY <1>2, <1>3 DEF Worker, Configured
<1>5. Cut(m - 1) <= r
  <2>1. Cut(m - 1) \in Int /\ ~ (r < Cut(m - 1))
    BY <1>4, CutFacts DEF Worker, Configured
  <2> QED BY <2>1 DEF Configured
<1>6. r < Cut((m - 1) + 1)
  <2>1. (m - 1) + 1 = m
    BY <1>4
  <2> QED BY <1>2, <2>1
<1> QED BY <1>4, <1>5, <1>6

-----------------------------------------------------------------------------
(* The inductive invariant: a worker that has an interval has its own, and *)
(* has yielded that interval up to where it is.                            *)

Mine(w) == Cut(w)..Cut(w + 1) - 1

Between(w) ==
  /\ part[w].start <= next[w]
  /\ part[w].start..Smaller(next[w], part[w].stop) - 1 \subseteq seen[w]

Inside(w) ==
  /\ part[w].start <= rank[w] /\ rank[w] <= batch[w].stop
  /\ batch[w].stop = Smaller(part[w].stop, next[w])
  /\ part[w].start <= next[w]
  /\ part[w].start..rank[w] - 1 \subseteq seen[w]

Sound(w) ==
  /\ phase[w] # "off" => part[w] = PartOf(w)
  /\ phase[w] = "between" => Between(w)
  /\ phase[w] = "inside" => Inside(w)
  /\ phase[w] = "done" => Mine(w) \subseteq seen[w]
  /\ phase[w] # "refused"
  /\ seen[w] \subseteq Mine(w)

IInv == TypeOK /\ \A w \in Worker : Sound(w)

\* What the types say of one worker, in a form arithmetic can use.
LEMMA OneWorker ==
  ASSUME IInv, NEW w \in Worker
  PROVE  /\ Configured /\ w \in Nat /\ w + 1 <= workers
         /\ Cut(w) \in 0..count /\ Cut(w + 1) \in 0..count /\ Cut(w) <= Cut(w + 1)
         /\ next[w] \in Nat /\ rank[w] \in 0..count
         /\ size[w] \in Nat /\ size[w] > 0
         /\ part[w].start \in 0..count /\ part[w].stop \in 0..count
         /\ phase[w] # "off" => part[w].start = Cut(w) /\ part[w].stop = Cut(w + 1)
<1>1. Configured
  BY CountsAssumption, CrewsAssumption DEF IInv, TypeOK, Configured
<1>2. w \in Nat /\ w + 1 <= workers /\ w <= w + 1 /\ w <= workers /\ 0 <= w
  BY <1>1 DEF Worker, Configured
<1>3. Cut(w) \in 0..count /\ Cut(w + 1) \in 0..count /\ Cut(w) <= Cut(w + 1)
  <2>1. w + 1 \in Nat /\ 0 \in Nat /\ workers \in Nat /\ 0 <= w + 1
    BY <1>1, <1>2 DEF Configured
  <2>2. /\ Cut(0) <= Cut(w) /\ Cut(w) <= Cut(w + 1) /\ Cut(w + 1) <= Cut(workers)
        /\ Cut(w) \in Int /\ Cut(w + 1) \in Int
    BY <1>1, <1>2, <2>1, CutFacts
  <2>3. Cut(0) = 0 /\ Cut(workers) = count
    BY <1>1, CutFacts
  <2> QED BY <1>1, <2>2, <2>3 DEF Configured
<1>4. /\ next[w] \in Nat /\ rank[w] \in 0..count
      /\ size[w] \in Nat /\ size[w] > 0
      /\ part[w].start \in 0..count /\ part[w].stop \in 0..count
  <2>1. part[w] \in Interval /\ size[w] \in Sizes /\ next[w] \in Nat /\ rank[w] \in 0..count
    BY DEF IInv, TypeOK
  <2>2. size[w] \in Nat /\ size[w] > 0
    <3>1. size[w] \in Nat \ {0}
      BY <2>1, SizesAssumption, Zenon
    <3> QED BY <3>1
  <2> QED BY <2>1, <2>2 DEF Interval
<1>5. phase[w] # "off" => part[w].start = Cut(w) /\ part[w].stop = Cut(w + 1)
  <2>1. phase[w] # "off" => part[w] = PartOf(w)
    BY DEF IInv, Sound
  <2> QED BY <2>1 DEF PartOf
<1> QED BY <1>1, <1>2, <1>3, <1>4, <1>5

LEMMA InitInv == Init => IInv
<1> SUFFICES ASSUME Init PROVE IInv
  OBVIOUS
<1>1. count \in Nat /\ count > 0
  BY CountsAssumption DEF Init
<1>2. TypeOK
  BY <1>1, DeathsAssumption DEF Init, TypeOK, Phases, Interval
<1>3. ASSUME NEW w \in Worker PROVE Sound(w)
  BY <1>3 DEF Init, Sound
<1> QED BY <1>2, <1>3 DEF IInv

\* A step of one worker leaves the others as they are.
Kept(v) ==
  /\ phase'[v] = phase[v] /\ part'[v] = part[v] /\ batch'[v] = batch[v]
  /\ next'[v] = next[v] /\ rank'[v] = rank[v] /\ seen'[v] = seen[v]

LEMMA KeptSound ==
  ASSUME IInv, NEW v \in Worker, Kept(v), count' = count, workers' = workers
  PROVE  Sound(v)'
<1>1. Sound(v)
  BY DEF IInv
<1> QED BY <1>1
  DEF Sound, Kept, Mine, Between, Inside, PartOf, Cut, Smaller

\* So it is enough to look at the worker that moves.
LEMMA OneMoves ==
  ASSUME IInv, NEW w \in Worker, count' = count, workers' = workers, TypeOK',
         \A v \in Worker \ {w} : Kept(v), Sound(w)'
  PROVE  IInv'
<1>1. ASSUME NEW v \in Worker PROVE Sound(v)'
  BY KeptSound
<1>2. Worker' = Worker
  BY DEF Worker
<1> QED BY <1>1, <1>2 DEF IInv

LEMMA DivideKeeps ==
  ASSUME IInv, NEW w \in Worker, Divide(w)
  PROVE  IInv'
<1>1. /\ count' = count /\ workers' = workers /\ seen' = seen /\ size' = size
      /\ part' = [part EXCEPT ![w] = PartOf(w)]
      /\ next' = [next EXCEPT ![w] = Cut(w)]
      /\ phase' = [phase EXCEPT ![w] = "between"]
      /\ batch' = batch /\ rank' = rank /\ deaths' = deaths
  BY DEF Divide
<1>2. TypeOK
  BY DEF IInv
<1>3. Cut(w) \in 0..count /\ Cut(w + 1) \in 0..count /\ Cut(w) <= Cut(w + 1)
  BY OneWorker
<1>4. PartOf(w) \in Interval /\ Cut(w) \in Nat
  BY <1>3 DEF PartOf, Interval
<1>5. TypeOK'
  BY <1>1, <1>2, <1>4 DEF TypeOK, Worker, Interval, Phases
<1>6. \A v \in Worker \ {w} : Kept(v)
  BY <1>1, <1>2 DEF Kept, TypeOK
<1>7. /\ phase'[w] = "between" /\ next'[w] = Cut(w)
      /\ part'[w] = PartOf(w) /\ seen'[w] = seen[w]
  BY <1>1, <1>2 DEF TypeOK
<1>8. /\ PartOf(w)' = PartOf(w) /\ Mine(w)' = Mine(w)
  BY <1>1 DEF PartOf, Mine, Cut
<1>9. Between(w)'
  <2>1. part'[w].start = Cut(w) /\ part'[w].stop = Cut(w + 1)
    BY <1>7 DEF PartOf
  <2> QED BY <1>3, <1>7, <2>1 DEF Between, Smaller
<1>10. Sound(w)'
  BY <1>7, <1>8, <1>9 DEF Sound, IInv
<1> QED BY <1>1, <1>5, <1>6, <1>10, OneMoves

LEMMA TakeBatchKeeps ==
  ASSUME IInv, NEW w \in Worker, TakeBatch(w)
  PROVE  IInv'
<1> DEFINE b == BatchOf(w)
<1>1. /\ count' = count /\ workers' = workers /\ seen' = seen /\ size' = size
      /\ batch' = [batch EXCEPT ![w] = b]
      /\ rank' = [rank EXCEPT ![w] = next[w]]
      /\ next' = [next EXCEPT ![w] = next[w] + size[w]]
      /\ phase' = [phase EXCEPT ![w] = IF Invalid(b) THEN "refused" ELSE "inside"]
      /\ part' = part /\ deaths' = deaths
      /\ phase[w] = "between" /\ next[w] < part[w].stop
  BY DEF TakeBatch
<1>2. TypeOK /\ Sound(w)
  BY DEF IInv
<1>3. /\ next[w] \in Nat /\ size[w] \in Nat /\ size[w] > 0 /\ count \in Nat
      /\ part[w].start \in 0..count /\ part[w].stop \in 0..count
  BY OneWorker DEF Configured
<1>4. /\ b.start = next[w] /\ b.stop = Smaller(part[w].stop, next[w] + size[w])
      /\ next[w] <= b.stop /\ b.stop <= part[w].stop
      /\ b \in Interval /\ b.stop \in 0..count /\ next[w] \in 0..count
  BY <1>1, <1>3 DEF BatchOf, Smaller, Interval
<1> HIDE DEF b
<1>5. ~ Invalid(b)
  BY <1>3, <1>4 DEF Invalid
<1>6. TypeOK'
  BY <1>1, <1>2, <1>3, <1>4, <1>5 DEF TypeOK, Worker, Interval, Phases
<1>7. \A v \in Worker \ {w} : Kept(v)
  BY <1>1, <1>2 DEF Kept, TypeOK
<1>8. /\ phase'[w] = "inside" /\ next'[w] = next[w] + size[w]
      /\ part'[w] = part[w] /\ seen'[w] = seen[w]
      /\ rank'[w] = next[w] /\ batch'[w] = b
  BY <1>1, <1>2, <1>5 DEF TypeOK
<1>9. /\ PartOf(w)' = PartOf(w) /\ Mine(w)' = Mine(w)
  BY <1>1 DEF PartOf, Mine, Cut
<1>10. Inside(w)'
  <2>1. Between(w)
    BY <1>1, <1>2 DEF Sound
  <2>2. part[w].start..next[w] - 1 \subseteq seen[w]
    BY <1>1, <1>3, <2>1 DEF Between, Smaller
  <2> QED BY <1>3, <1>4, <1>8, <2>1, <2>2 DEF Inside, Between
<1>11. Sound(w)'
  BY <1>1, <1>2, <1>8, <1>9, <1>10 DEF Sound
<1> QED BY <1>1, <1>6, <1>7, <1>11, OneMoves

LEMMA YieldKeeps ==
  ASSUME IInv, NEW w \in Worker, Yield(w)
  PROVE  IInv'
<1>1. /\ count' = count /\ workers' = workers /\ size' = size
      /\ seen' = [seen EXCEPT ![w] = seen[w] \cup {rank[w]}]
      /\ rank' = [rank EXCEPT ![w] = rank[w] + 1]
      /\ UNCHANGED <<phase, part, next, batch, deaths>>
      /\ phase[w] = "inside" /\ rank[w] < batch[w].stop
  BY DEF Yield
<1>2. TypeOK /\ Sound(w)
  BY DEF IInv
<1>3. /\ next[w] \in Nat /\ rank[w] \in 0..count /\ count \in Nat
      /\ part[w].start \in 0..count /\ part[w].stop \in 0..count
      /\ part[w].start = Cut(w) /\ part[w].stop = Cut(w + 1)
  BY <1>1, OneWorker DEF Configured
<1>4. Inside(w)
  BY <1>1, <1>2 DEF Sound
<1>5. /\ rank[w] < part[w].stop /\ part[w].start <= rank[w]
      /\ rank[w] + 1 <= batch[w].stop
      /\ rank[w] + 1 \in 0..count /\ rank[w] \in 0..count - 1
      /\ rank[w] \in Mine(w)
  <2>1. batch[w].stop <= part[w].stop /\ batch[w].stop \in Int
    BY <1>3, <1>4 DEF Inside, Smaller
  <2> QED BY <1>1, <1>3, <1>4, <2>1 DEF Inside, Mine
<1>6. TypeOK'
  BY <1>1, <1>2, <1>5 DEF TypeOK, Worker, Interval
<1>7. \A v \in Worker \ {w} : Kept(v)
  BY <1>1, <1>2 DEF Kept, TypeOK
<1>8. rank'[w] = rank[w] + 1 /\ seen'[w] = seen[w] \cup {rank[w]}
  BY <1>1, <1>2 DEF TypeOK
<1>9. /\ PartOf(w)' = PartOf(w) /\ Mine(w)' = Mine(w)
  BY <1>1 DEF PartOf, Mine, Cut
<1>10. Inside(w)'
  <2>1. part[w].start..(rank[w] + 1) - 1 \subseteq seen[w] \cup {rank[w]}
    BY <1>3, <1>4 DEF Inside
  <2> QED BY <1>1, <1>3, <1>4, <1>5, <1>8, <2>1 DEF Inside, Smaller
<1>11. Sound(w)'
  BY <1>1, <1>2, <1>5, <1>8, <1>9, <1>10 DEF Sound
<1> QED BY <1>1, <1>6, <1>7, <1>11, OneMoves

LEMMA EndBatchKeeps ==
  ASSUME IInv, NEW w \in Worker, EndBatch(w)
  PROVE  IInv'
<1>1. /\ count' = count /\ workers' = workers
      /\ phase' = [phase EXCEPT ![w] = "between"]
      /\ UNCHANGED <<part, size, next, batch, rank, seen, deaths>>
      /\ phase[w] = "inside" /\ rank[w] >= batch[w].stop
  BY DEF EndBatch
<1>2. TypeOK /\ Sound(w)
  BY DEF IInv
<1>3. /\ next[w] \in Nat /\ rank[w] \in Nat
      /\ part[w].start \in Nat /\ part[w].stop \in Nat
  BY OneWorker DEF Configured
<1>4. Inside(w)
  BY <1>1, <1>2 DEF Sound
<1>5. TypeOK'
  BY <1>1, <1>2 DEF TypeOK, Worker, Interval, Phases
<1>6. \A v \in Worker \ {w} : Kept(v)
  BY <1>1, <1>2 DEF Kept, TypeOK
<1>7. phase'[w] = "between"
  BY <1>1, <1>2 DEF TypeOK
<1>8. /\ PartOf(w)' = PartOf(w) /\ Mine(w)' = Mine(w)
  BY <1>1 DEF PartOf, Mine, Cut
<1>9. Between(w)'
  <2>1. rank[w] = Smaller(next[w], part[w].stop)
    BY <1>1, <1>3, <1>4 DEF Inside, Smaller
  <2> QED BY <1>1, <1>4, <2>1 DEF Between, Inside, Smaller
<1>10. Sound(w)'
  BY <1>1, <1>2, <1>7, <1>8, <1>9 DEF Sound
<1> QED BY <1>1, <1>5, <1>6, <1>10, OneMoves

LEMMA EndPartKeeps ==
  ASSUME IInv, NEW w \in Worker, EndPart(w)
  PROVE  IInv'
<1>1. /\ count' = count /\ workers' = workers
      /\ phase' = [phase EXCEPT ![w] = "done"]
      /\ UNCHANGED <<part, size, next, batch, rank, seen, deaths>>
      /\ phase[w] = "between" /\ next[w] >= part[w].stop
  BY DEF EndPart
<1>2. TypeOK /\ Sound(w)
  BY DEF IInv
<1>3. /\ next[w] \in Nat /\ part[w].stop \in Nat
      /\ part[w].start = Cut(w) /\ part[w].stop = Cut(w + 1)
  BY <1>1, OneWorker DEF Configured
<1>4. TypeOK'
  BY <1>1, <1>2 DEF TypeOK, Worker, Interval, Phases
<1>5. \A v \in Worker \ {w} : Kept(v)
  BY <1>1, <1>2 DEF Kept, TypeOK
<1>6. phase'[w] = "done"
  BY <1>1, <1>2 DEF TypeOK
<1>7. /\ PartOf(w)' = PartOf(w) /\ Mine(w)' = Mine(w)
  BY <1>1 DEF PartOf, Mine, Cut
<1>8. Mine(w) \subseteq seen[w]
  <2>1. Between(w)
    BY <1>1, <1>2 DEF Sound
  <2>2. Smaller(next[w], part[w].stop) = part[w].stop
    BY <1>1, <1>3 DEF Smaller
  <2> QED BY <1>3, <2>1, <2>2 DEF Between, Mine
<1>9. Sound(w)'
  BY <1>1, <1>2, <1>6, <1>7, <1>8 DEF Sound
<1> QED BY <1>1, <1>4, <1>5, <1>9, OneMoves

LEMMA DieKeeps ==
  ASSUME IInv, NEW w \in Worker, Die(w)
  PROVE  IInv'
<1>1. /\ count' = count /\ workers' = workers
      /\ phase' = [phase EXCEPT ![w] = "off"]
      /\ UNCHANGED <<part, size, next, batch, rank, seen>>
      /\ deaths < MaxDeaths /\ deaths' = deaths + 1
  BY DEF Die
<1>2. TypeOK /\ Sound(w)
  BY DEF IInv
<1>3. TypeOK'
  BY <1>1, <1>2, DeathsAssumption DEF TypeOK, Worker, Interval, Phases
<1>4. \A v \in Worker \ {w} : Kept(v)
  BY <1>1, <1>2 DEF Kept, TypeOK
<1>5. phase'[w] = "off"
  BY <1>1, <1>2 DEF TypeOK
<1>6. Mine(w)' = Mine(w)
  BY <1>1 DEF Mine, Cut
<1>7. Sound(w)'
  BY <1>1, <1>2, <1>5, <1>6 DEF Sound
<1> QED BY <1>1, <1>3, <1>4, <1>7, OneMoves

LEMMA NextInv == IInv /\ [Next]_vars => IInv'
<1> SUFFICES ASSUME IInv, [Next]_vars PROVE IInv'
  OBVIOUS
<1>1. CASE UNCHANGED vars
  BY <1>1 DEF vars, IInv, TypeOK, Sound, Worker, Interval, Between, Inside,
              Mine, PartOf, Cut, Smaller
<1>2. ASSUME NEW w \in Worker, Step(w) \/ Die(w) PROVE IInv'
  BY <1>2, DivideKeeps, TakeBatchKeeps, YieldKeeps, EndBatchKeeps, EndPartKeeps,
     DieKeeps DEF Step
<1> QED BY <1>1, <1>2 DEF Next

\* The inductive invariant holds of every behaviour.
THEOREM Soundness == Spec => []IInv
BY InitInv, NextInv, PTL DEF Spec

-----------------------------------------------------------------------------
\* Types are kept; the intervals lie within the space.
THEOREM PartitionTypes == Spec => []TypeOK
BY Soundness, PTL DEF IInv

\* Workers never yield the same rank (335-340), whatever has died.
THEOREM Disjoint == Spec => []NoOverlap
<1>1. IInv => NoOverlap
  <2> SUFFICES ASSUME IInv, NEW v \in Worker, NEW w \in Worker, v # w,
                      NEW r \in seen[v], r \in seen[w]
               PROVE  FALSE
    BY DEF NoOverlap
  <2>1. Configured /\ v \in Nat /\ w \in Nat
    BY OneWorker
  <2>2. r \in Mine(v) /\ r \in Mine(w)
    BY DEF IInv, Sound
  <2>3. /\ Cut(v) \in Int /\ Cut(w) \in Int
        /\ Cut(v + 1) \in Int /\ Cut(w + 1) \in Int
    BY OneWorker
  <2>4. v + 1 <= w => Cut(v + 1) <= Cut(w)
    BY <2>1, CutFacts
  <2>5. w + 1 <= v => Cut(w + 1) <= Cut(v)
    BY <2>1, CutFacts
  <2>6. v + 1 <= w \/ w + 1 <= v
    BY <2>1
  <2> QED BY <2>2, <2>3, <2>4, <2>5, <2>6 DEF Mine
<1> QED BY <1>1, Soundness, PTL

\* When all are done, the space has been yielded.
THEOREM Complete == Spec => []Covered
<1>1. IInv => Covered
  <2> SUFFICES ASSUME IInv, \A w \in Worker : phase[w] = "done"
               PROVE  UNION {seen[w] : w \in Worker} = 0..count - 1
    BY DEF Covered
  <2>1. Configured
    BY CountsAssumption, CrewsAssumption DEF IInv, TypeOK, Configured
  <2>2. ASSUME NEW w \in Worker PROVE seen[w] = Mine(w) /\ seen[w] \subseteq 0..count - 1
    BY DEF IInv, Sound, TypeOK
  <2>3. ASSUME NEW r \in 0..count - 1 PROVE \E w \in Worker : r \in seen[w]
    <3>1. PICK w \in Worker : Cut(w) <= r /\ r < Cut(w + 1)
      BY <2>1, CutsCover
    <3>2. r \in Mine(w)
      BY <3>1, OneWorker DEF Mine, Configured
    <3> QED BY <2>2, <3>2
  <2> QED BY <2>2, <2>3
<1> QED BY <1>1, Soundness, PTL

\* The load of two workers differs by one rank at most.
THEOREM Even == Spec => []Balanced
<1>1. IInv => Balanced
  <2> SUFFICES ASSUME IInv, NEW v \in Worker, NEW w \in Worker,
                      phase[v] # "off", phase[w] # "off"
               PROVE  Length(v) - Length(w) <= 1
    BY DEF Balanced
  <2>1. Configured /\ v \in Nat /\ w \in Nat
    BY OneWorker
  <2>2. /\ Length(v) = Cut(v + 1) - Cut(v) /\ Length(v) \in Int
        /\ Length(w) = Cut(w + 1) - Cut(w) /\ Length(w) \in Int
    BY OneWorker DEF Length
  <2>3. /\ count \div workers <= Cut(w + 1) - Cut(w)
        /\ Cut(v + 1) - Cut(v) <= count \div workers + 1
    BY <2>1, CutFacts
  <2>4. count \div workers \in Int
    BY <2>1, FloorDiv DEF Configured
  <2> QED BY <2>2, <2>3, <2>4
<1> QED BY <1>1, Soundness, PTL

\* The batches of a worker join, and none of them is refused.
THEOREM Seamless == Spec => [](Joined /\ NeverRefused)
<1>1. IInv => Joined /\ NeverRefused
  BY DEF IInv, Sound, Between, Inside, Joined, NeverRefused
<1> QED BY <1>1, Soundness, PTL

-----------------------------------------------------------------------------
(* Payloads: digits of a number *)

\* There is one multiple of n that an integer lies on or less than n above.
LEMMA FloorUnique ==
  ASSUME NEW a \in Int, NEW n \in Nat, n > 0, NEW q \in Int, n * q <= a, a < n * q + n
  PROVE  a \div n = q
<1> DEFINE p == a \div n
<1>1. p \in Int /\ n * p <= a /\ a < n * p + n
  BY FloorDiv
<1> HIDE DEF p
<1>2. n * p \in Int /\ n * q \in Int
  BY <1>1
<1>3. ~ (p < q) /\ ~ (q < p)
  BY <1>1, <1>2, StepUp
<1> QED BY <1>1, <1>3 DEF p

\* Dividing twice is dividing by the product.
LEMMA FloorTwice ==
  ASSUME NEW a \in Nat, NEW m \in Nat, m > 0, NEW n \in Nat, n > 0
  PROVE  a \div (n * m) = (a \div m) \div n
<1>1. PICK p \in Int : p = a \div m /\ m * p <= a /\ a < m * p + m
  BY FloorDiv
<1>2. PICK q \in Int : q = p \div n /\ n * q <= p /\ p < n * q + n
  BY FloorDiv
<1>3. PICK s \in Int : s = n * q
  OBVIOUS
<1>4. m * s <= m * p
  <2>1. CASE s = p
    BY <2>1
  <2>2. CASE s # p
    <3>1. m * s + m <= m * p
      BY <1>2, <1>3, <2>2, StepUp
    <3>2. m * s \in Int /\ m * p \in Int
      OBVIOUS
    <3> QED BY <3>1, <3>2
  <2> QED BY <2>1, <2>2
<1>5. m * p + m <= m * (s + n)
  BY <1>2, <1>3, StepUp
<1>6. PICK nm \in Nat : nm = n * m /\ nm > 0
  <2>1. n * m \in Nat /\ n * m > 0
    <3>1. PICK k \in Nat : n = k + 1
      <4>1. n - 1 \in Nat /\ n = (n - 1) + 1
        OBVIOUS
      <4> QED BY <4>1
    <3>2. n * m = k * m + m /\ k * m \in Nat
      BY <3>1
    <3> QED BY <3>2
  <2> QED BY <2>1
<1>7. nm * q = m * s /\ m * (s + n) = m * s + nm
  BY <1>3, <1>6
<1>8. m * s \in Int /\ m * p \in Int
  OBVIOUS
<1>9. nm * q <= a /\ a < nm * q + nm
  BY <1>1, <1>4, <1>5, <1>6, <1>7, <1>8
<1>10. a \div nm = q
  BY <1>6, <1>9, FloorUnique
<1> QED BY <1>1, <1>2, <1>6, <1>10

\* The power in the instance is the power of the lemmas.
LEMMA SamePower == \A r, n : Pay!Power(r, n) = Power(r, n)
BY DEF Pay!Power, Power

\* A radix, as Payload has one.
LEMMA RadixFacts ==
  ASSUME ByteBits \in Nat \ {0}
  PROVE  /\ Pay!Radix \in Nat \ {0}
         /\ Pay!Radix = Power(2, ByteBits)
         /\ \A n \in Nat : Power(Pay!Radix, n) \in Nat \ {0}
<1>1. Pay!Radix = Power(2, ByteBits)
  BY SamePower DEF Pay!Radix
<1>2. Power(2, ByteBits) \in Nat \ {0}
  BY PowerFacts
<1> QED BY <1>1, <1>2, PowerFacts

\* The number that each prefix of a payload stands for.
Prefixes(p, n, f) ==
  /\ f \in [0..n -> Nat] /\ f[0] = 0
  /\ \A i \in 1..n : f[i] = f[i - 1] * Pay!Radix + p[i]

\* FromBytes computes the last of them.
LEMMA FromBytesFacts ==
  ASSUME ByteBits \in Nat \ {0}, NEW n \in Nat, NEW p \in [1..n -> Pay!Byte]
  PROVE  Len(p) = n /\ \E f : Prefixes(p, n, f) /\ Pay!FromBytes(p) = f[n]
<1>1. PICK radix \in Nat \ {0} : radix = Pay!Radix
  BY RadixFacts
<1>2. p \in Seq(Pay!Byte) /\ Len(p) = n
  <2>1. p \in Seq(Pay!Byte)
    BY SeqDef
  <2>2. DOMAIN p = 1..Len(p) /\ Len(p) \in Nat
    BY <2>1, LenProperties
  <2> QED BY <2>1, <2>2
<1>3. \A i \in 1..n : p[i] \in Nat
  BY <1>1 DEF Pay!Byte
<1> DEFINE h == [i \in 1..n |-> [x \in Int |-> x * radix + p[i]]]
<1>4. h \in [1..n -> [Int -> Int]]
  BY <1>3
<1>5. \A i \in 1..n : \A x \in Int : h[i][x] = x * radix + p[i]
  OBVIOUS
<1> HIDE DEF h
<1>6. PICK f \in [0..n -> Int] : f[0] = 0 /\ \A i \in 1..n : f[i] = h[i][f[i - 1]]
  <2>1. PICK z \in Int : z = 0
    OBVIOUS
  <2>2. \E f \in [0..n -> Int] : f[0] = z /\ \A i \in 1..n : f[i] = h[i][f[i - 1]]
    BY <1>4, Recurrence
  <2> QED BY <2>1, <2>2
<1>7. \A i \in 1..n : f[i] = f[i - 1] * radix + p[i]
  <2>1. \A i \in 1..n : i - 1 \in 0..n
    OBVIOUS
  <2> QED BY <1>5, <1>6, <2>1
<1> DEFINE N == {i \in 0..n : f[i] \in Nat}
<1>8. 0 \in N
  BY <1>6
<1>9. ASSUME NEW i \in 0..n - 1, i \in N PROVE i + 1 \in N
  <2>1. i + 1 \in 0..n /\ i + 1 \in 1..n /\ (i + 1) - 1 = i
    OBVIOUS
  <2>2. f[i + 1] = f[i] * radix + p[i + 1] /\ p[i + 1] \in Nat
    BY <1>3, <1>7, <2>1
  <2>3. \A x, y \in Nat : x * radix + y \in Nat
    OBVIOUS
  <2> QED BY <1>9, <2>1, <2>2, <2>3
<1> HIDE DEF N
<1>10. \A i \in 0..n : i \in N
  BY <1>8, <1>9, Upwards
<1>11. f \in [0..n -> Nat]
  BY <1>6, <1>10 DEF N
<1>12. Prefixes(p, n, f)
  BY <1>1, <1>6, <1>7, <1>11 DEF Prefixes
<1> DEFINE g == CHOOSE k : k = [i \in 0..Len(p) |-> IF i = 0 THEN 0 ELSE k[i - 1] * Pay!Radix + p[i]]
<1>13. Pay!FromBytes(p) = g[Len(p)]
  BY DEF Pay!FromBytes
<1>14. f = [i \in 0..Len(p) |-> IF i = 0 THEN 0 ELSE f[i - 1] * Pay!Radix + p[i]]
  <2>1. \A i \in 0..n : f[i] = IF i = 0 THEN 0 ELSE f[i - 1] * Pay!Radix + p[i]
    <3>1. ASSUME NEW i \in 0..n PROVE f[i] = IF i = 0 THEN 0 ELSE f[i - 1] * Pay!Radix + p[i]
      <4>1. CASE i = 0
        BY <1>6, <4>1
      <4>2. CASE i # 0
        <5>1. i \in 1..n
          BY <4>2
        <5> QED BY <1>1, <1>7, <4>2, <5>1
      <4> QED BY <4>1, <4>2
    <3> QED BY <3>1
  <2>2. f = [i \in 0..n |-> f[i]]
    OBVIOUS
  <2> QED BY <1>2, <2>1, <2>2
<1>15. g = [i \in 0..Len(p) |-> IF i = 0 THEN 0 ELSE g[i - 1] * Pay!Radix + p[i]]
  BY <1>14, Zenon
<1> HIDE DEF g
<1> DEFINE S == {i \in 0..n : g[i] = f[i]}
<1>16. 0 \in S
  BY <1>2, <1>6, <1>15
<1>17. ASSUME NEW i \in 0..n - 1, i \in S PROVE i + 1 \in S
  <2>1. i + 1 \in 0..n /\ i + 1 \in 1..n /\ (i + 1) - 1 = i /\ i + 1 # 0
    OBVIOUS
  <2>2. g[i + 1] = g[i] * Pay!Radix + p[i + 1]
    BY <1>2, <1>15, <2>1
  <2>3. f[i + 1] = f[i] * Pay!Radix + p[i + 1]
    BY <1>1, <1>7, <2>1
  <2> QED BY <1>17, <2>1, <2>2, <2>3
<1> HIDE DEF S
<1>18. \A i \in 0..n : i \in S
  BY <1>16, <1>17, Upwards
<1>19. n \in 0..n
  OBVIOUS
<1>20. g[n] = f[n]
  BY <1>18, <1>19 DEF S
<1> QED BY <1>2, <1>12, <1>13, <1>20

\* The digits that ToBytes writes are bytes.
LEMMA DigitsAreBytes ==
  ASSUME ByteBits \in Nat \ {0}, NEW n \in Nat, NEW w \in Nat
  PROVE  Pay!ToBytes(n, w) \in [1..w -> Pay!Byte]
<1>1. PICK radix \in Nat \ {0} : radix = Pay!Radix
  BY RadixFacts
<1>2. \A a \in Int : a % radix \in 0..radix - 1
  OBVIOUS
<1>3. ASSUME NEW i \in 1..w PROVE (n \div Pay!Power(Pay!Radix, w - i)) % Pay!Radix \in Pay!Byte
  <2>1. w - i \in Nat
    OBVIOUS
  <2>2. PICK q \in Nat \ {0} : q = Pay!Power(Pay!Radix, w - i)
    BY <2>1, RadixFacts, SamePower
  <2>3. n \div q \in Int
    OBVIOUS
  <2> QED BY <1>1, <1>2, <2>2, <2>3 DEF Pay!Byte
<1> QED BY <1>3 DEF Pay!ToBytes

\* One digit down: the powers of the radix that two neighbouring digits stand for.
LEMMA OneDigit ==
  ASSUME ByteBits \in Nat \ {0}, NEW n \in Nat, NEW w \in Nat, NEW k \in 0..w - 1
  PROVE  n \div Power(Pay!Radix, w - k)
           = (n \div Power(Pay!Radix, w - (k + 1))) \div Pay!Radix
<1>1. PICK radix \in Nat \ {0} : radix = Pay!Radix
  BY RadixFacts
<1>2. PICK e \in Nat : e = w - (k + 1) /\ e + 1 = w - k
  OBVIOUS
<1>3. PICK q \in Nat \ {0} : q = Power(radix, e) /\ Power(radix, e + 1) = radix * q
  BY PowerFacts
<1>4. n \div (radix * q) = (n \div q) \div radix
  BY FloorTwice
<1> QED BY <1>1, <1>2, <1>3, <1>4

\* A number that fits comes back from its payload.
LEMMA NumberReturns ==
  ASSUME ByteBits \in Nat \ {0}, NEW n \in Nat, NEW w \in Nat, n < Power(Pay!Radix, w)
  PROVE  Pay!FromBytes(Pay!ToBytes(n, w)) = n
<1>1. PICK radix \in Nat \ {0} : radix = Pay!Radix
  BY RadixFacts
<1>2. PICK p \in [1..w -> Pay!Byte] : p = Pay!ToBytes(n, w)
  BY DigitsAreBytes
<1>3. PICK f : Prefixes(p, w, f) /\ Pay!FromBytes(p) = f[w]
  BY FromBytesFacts
<1> DEFINE q == [k \in 0..w |-> n \div Power(radix, w - k)]
           S == {k \in 0..w : f[k] = q[k]}
<1>4. 0 \in S
  <2>1. w - 0 = w /\ 0 \in 0..w
    OBVIOUS
  <2>2. PICK a \in Nat \ {0} : a = Power(radix, w) /\ n < a
    BY <1>1, PowerFacts
  <2>3. n \div a = 0
    BY <2>2, FloorUnique
  <2> QED BY <1>3, <2>1, <2>2, <2>3 DEF Prefixes
<1>5. ASSUME NEW k \in 0..w - 1, k \in S PROVE k + 1 \in S
  <2>1. k + 1 \in 1..w /\ k + 1 \in 0..w /\ k \in 0..w /\ (k + 1) - 1 = k /\ w - (k + 1) \in Nat
    OBVIOUS
  <2>2. f[k + 1] = f[k] * radix + p[k + 1]
    BY <1>1, <1>3, <2>1 DEF Prefixes
  <2>3. PICK b \in Nat \ {0} : b = Power(radix, w - (k + 1))
    BY <2>1, PowerFacts
  <2>4. PICK m \in Int : m = n \div b
    OBVIOUS
  <2>5. p[k + 1] = m % radix
    BY <1>1, <1>2, <2>1, <2>3, <2>4, SamePower DEF Pay!ToBytes
  <2>6. q[k + 1] = m
    BY <2>1, <2>3, <2>4
  <2>7. q[k] = m \div radix
    <3>1. n \div Power(radix, w - k) = (n \div Power(radix, w - (k + 1))) \div radix
      BY <1>1, OneDigit
    <3>2. n \div Power(radix, w - k) = m \div radix
      BY <2>3, <2>4, <3>1
    <3> QED BY <2>1, <3>2
  <2>8. (m \div radix) * radix + (m % radix) = m
    <3>1. m = radix * (m \div radix) + (m % radix)
      OBVIOUS
    <3>2. PICK d \in Int, e \in Int : d = m \div radix /\ e = m % radix
      OBVIOUS
    <3>3. radix * d = d * radix
      OBVIOUS
    <3> QED BY <3>1, <3>2, <3>3
  <2>9. f[k] = q[k]
    BY <1>5
  <2>10. f[k + 1] = q[k + 1]
    BY <2>2, <2>5, <2>6, <2>7, <2>8, <2>9
  <2> QED BY <2>1, <2>10
<1>6. q[w] = n
  <2>1. w - w = 0 /\ w \in 0..w
    OBVIOUS
  <2>2. Power(radix, 0) = 1
    BY PowerFacts
  <2>3. n \div 1 = n
    OBVIOUS
  <2> QED BY <2>1, <2>2, <2>3
<1> HIDE DEF S
<1>7. \A k \in 0..w : k \in S
  BY <1>4, <1>5, Upwards
<1>8. f[w] = q[w]
  <2>1. w \in 0..w
    OBVIOUS
  <2> QED BY <1>7, <2>1 DEF S
<1> QED BY <1>2, <1>3, <1>6, <1>8

\* A payload is the only one for its number.
LEMMA PayloadReturns ==
  ASSUME ByteBits \in Nat \ {0}, NEW w \in Nat, NEW p \in [1..w -> Pay!Byte]
  PROVE  Pay!ToBytes(Pay!FromBytes(p), w) = p /\ Pay!FromBytes(p) \in Nat
<1>1. PICK radix \in Nat \ {0} : radix = Pay!Radix
  BY RadixFacts
<1>2. PICK f : Prefixes(p, w, f) /\ Pay!FromBytes(p) = f[w]
  BY FromBytesFacts
<1>3. PICK n \in Nat : n = f[w]
  BY <1>2 DEF Prefixes
<1>4. \A k \in 0..w : f[k] \in Nat
  BY <1>2 DEF Prefixes
<1>5. ASSUME NEW k \in 1..w
      PROVE  f[k - 1] = f[k] \div radix /\ p[k] = f[k] % radix
  <2>1. PICK a \in Nat, b \in Nat, d \in 0..radix - 1 : a = f[k - 1] /\ b = f[k] /\ d = p[k]
    <3>1. k \in 0..w /\ k - 1 \in 0..w
      OBVIOUS
    <3>2. p[k] \in 0..radix - 1
      BY <1>1 DEF Pay!Byte
    <3> QED BY <1>4, <3>1, <3>2
  <2>2. b = a * radix + d
    BY <1>1, <1>2, <2>1 DEF Prefixes
  <2>3. a * radix = radix * a /\ radix * a \in Int
    OBVIOUS
  <2>4. b \div radix = a
    BY <2>2, <2>3, FloorUnique
  <2>5. b = radix * (b \div radix) + (b % radix) /\ b % radix \in Int
    OBVIOUS
  <2>6. b % radix = d
    BY <2>2, <2>3, <2>4, <2>5
  <2> QED BY <2>1, <2>4, <2>6
<1> DEFINE S == {k \in 0..w : f[k] = n \div Power(radix, w - k)}
<1>6. w \in S
  <2>1. w - w = 0 /\ w \in 0..w
    OBVIOUS
  <2>2. Power(radix, 0) = 1
    BY PowerFacts
  <2>3. n \div 1 = n
    OBVIOUS
  <2> QED BY <1>3, <2>1, <2>2, <2>3
<1>7. ASSUME NEW k \in 0..w - 1, k + 1 \in S PROVE k \in S
  <2>1. k + 1 \in 1..w /\ k \in 0..w /\ (k + 1) - 1 = k
    OBVIOUS
  <2>2. f[k] = f[k + 1] \div radix
    BY <1>5, <2>1
  <2>3. f[k + 1] = n \div Power(radix, w - (k + 1))
    BY <1>7
  <2>4. n \div Power(radix, w - k) = (n \div Power(radix, w - (k + 1))) \div radix
    BY <1>1, OneDigit
  <2> QED BY <2>1, <2>2, <2>3, <2>4
<1> HIDE DEF S
<1>8. \A k \in 0..w : k \in S
  BY <1>6, <1>7, Downwards
<1>9. ASSUME NEW k \in 1..w PROVE p[k] = (n \div Power(radix, w - k)) % radix
  <2>1. k \in 0..w
    OBVIOUS
  <2>2. f[k] = n \div Power(radix, w - k)
    BY <1>8, <2>1 DEF S
  <2> QED BY <1>5, <2>2
<1>10. Pay!ToBytes(n, w) = [k \in 1..w |-> p[k]]
  BY <1>1, <1>9, SamePower DEF Pay!ToBytes
<1> QED BY <1>2, <1>3, <1>10

\* The width computed from the last rank: it holds every rank.
LEMMA WidthFits ==
  ASSUME ByteBits \in Nat \ {0}, count \in Nat \ {0}
  PROVE  /\ Pay!Width \in Nat \ {0}
         /\ \A n \in 0..count - 1 : n < Power(Pay!Radix, Pay!Width)
<1>1. PICK last \in Nat : last = count - 1
  OBVIOUS
<1>2. PICK bits \in Nat : bits = Pay!Bits /\ last < Power(2, bits)
  <2>1. Pay!BitLength(last) = BitLength(last)
    BY DEF Pay!BitLength, BitLength, Pay!Power, Power
  <2>2. BitLength(last) \in 0..last /\ last < Power(2, BitLength(last))
    BY BitLengthFacts
  <2> QED BY <1>1, <2>1, <2>2 DEF Pay!Bits
<1>3. PICK bytes \in Int : /\ bytes = (bits + ByteBits - 1) \div ByteBits
                           /\ bits + ByteBits - 1 < ByteBits * bytes + ByteBits
  <2>1. PICK a \in Int : a = bits + ByteBits - 1
    OBVIOUS
  <2>2. (a \div ByteBits) \in Int /\ a < ByteBits * (a \div ByteBits) + ByteBits
    BY FloorDiv
  <2> QED BY <2>1, <2>2
<1>4. bytes \in Nat
  <2>1. (bits + ByteBits - 1) \div ByteBits >= 0
    OBVIOUS
  <2> QED BY <1>3, <2>1
<1>5. PICK width \in Nat \ {0} : width = Pay!Width /\ bytes <= width
  <2>1. Pay!Max({1, bytes}) = Max({1, bytes})
    BY DEF Pay!Max, Max
  <2>2. {1, bytes} \in SUBSET (0..bytes + 1) /\ {1, bytes} # {} /\ bytes + 1 \in Nat
    BY <1>4
  <2>3. Max({1, bytes}) \in {1, bytes} /\ \A x \in {1, bytes} : x <= Max({1, bytes})
    BY <2>2, MaxFacts
  <2>4. PICK width : width = Max({1, bytes})
    OBVIOUS
  <2>5. width \in Nat \ {0} /\ bytes <= width
    BY <1>4, <2>3, <2>4
  <2> QED BY <1>2, <1>3, <2>1, <2>4, <2>5 DEF Pay!Width
<1>6. PICK total \in Nat : total = ByteBits * width /\ bits <= total
  <2>1. ByteBits * bytes <= ByteBits * width
    <3>1. CASE bytes = width
      BY <3>1
    <3>2. CASE bytes < width
      <4>1. ByteBits * bytes + ByteBits <= ByteBits * width
        BY <1>4, <3>2, StepUp
      <4>2. ByteBits * bytes \in Int /\ ByteBits * width \in Int
        BY <1>4
      <4> QED BY <4>1, <4>2
    <3> QED BY <1>4, <1>5, <3>1, <3>2
  <2>2. PICK x \in Int, y \in Nat : x = ByteBits * bytes /\ y = ByteBits * width
    BY <1>4
  <2> QED BY <1>3, <2>1, <2>2
<1>7. Power(2, bits) <= Power(2, total)
  BY <1>6, PowerMono
<1>8. Power(2, total) = Power(Pay!Radix, width)
  BY <1>6, RadixFacts, PowerOfPower
<1>9. PICK p \in Nat, t \in Nat : p = Power(2, bits) /\ t = Power(2, total)
  <2>1. \A n \in Nat : Power(2, n) \in Nat
    <3>1. 2 \in Nat \ {0}
      OBVIOUS
    <3> QED BY <3>1, PowerFacts
  <2> QED BY <2>1
<1>10. last < t
  BY <1>2, <1>7, <1>9
<1>11. ASSUME NEW n \in 0..count - 1 PROVE n < t
  BY <1>1, <1>10
<1> QED BY <1>5, <1>8, <1>9, <1>11

-----------------------------------------------------------------------------
\* What is true of a payload between two steps of Payload.
PayInv ==
  /\ count \in Counts
  /\ given \in {-1} \cup 0..count - 1
  /\ step \in {"new", "encoded", "received", "refused", "decoded", "again"}
  /\ step \in {"new", "received"} => given = -1
  /\ step = "refused" => given = -1
  /\ given # -1 => wire = Pay!ToBytes(given, Pay!Width)
  /\ step # "new" => \E n \in Nat : wire \in [1..n -> Pay!Byte]
  /\ step = "encoded" => given # -1
  /\ step \in {"decoded", "again"} =>
       /\ wire \in [1..Pay!Width -> Pay!Byte]
       /\ decoded = Pay!FromBytes(wire) /\ decoded \in 0..count - 1
       /\ given # -1 => decoded = given
  /\ step = "again" => second = wire

\* A rank that the schema has fits its width.
LEMMA NeverTooBig ==
  ASSUME ByteBits \in Nat \ {0}, count \in Counts, NEW n \in 0..count - 1
  PROVE  ~Pay!TooBig(n, Pay!Width)
<1>1. count \in Nat \ {0}
  BY CountsAssumption
<1>2. PICK t \in Nat : t = Power(Pay!Radix, Pay!Width) /\ n < t
  <2>1. Power(Pay!Radix, Pay!Width) \in Nat
    BY <1>1, WidthFits, RadixFacts
  <2> QED BY <1>1, <2>1, WidthFits
<1>3. n \in Nat
  BY <1>1
<1> QED BY <1>2, <1>3, SamePower DEF Pay!TooBig

\* Whatever decode_rank takes has the width.
LEMMA Takes ==
  ASSUME ByteBits \in Nat \ {0}, NEW n \in Nat, wire \in [1..n -> Pay!Byte], ~Pay!WrongWidth
  PROVE  wire \in [1..Pay!Width -> Pay!Byte]
<1>1. Len(wire) = n
  BY FromBytesFacts
<1> QED BY <1>1 DEF Pay!WrongWidth

LEMMA PayEncode ==
  ASSUME ByteBits \in Nat \ {0}, PayInv, NEW n \in 0..count - 1, Pay!Encode(n)
  PROVE  PayInv'
<1>1. count \in Nat \ {0} /\ Pay!Width \in Nat \ {0} /\ n \in Nat /\ n # -1
  BY CountsAssumption, WidthFits DEF PayInv
<1>2. ~Pay!TooBig(n, Pay!Width)
  BY NeverTooBig DEF PayInv
<1>3. /\ count' = count /\ given' = n /\ step' = "encoded"
      /\ wire' = Pay!ToBytes(n, Pay!Width)
  BY <1>2 DEF Pay!Encode
<1>4. wire' \in [1..Pay!Width -> Pay!Byte]
  BY <1>1, <1>3, DigitsAreBytes
<1>5. Pay!Width' = Pay!Width
  BY <1>3 DEF Pay!Width, Pay!Bits
<1>6. Pay!ToBytes(given', Pay!Width') = Pay!ToBytes(n, Pay!Width)
  BY <1>3, <1>5
<1> QED BY <1>1, <1>3, <1>4, <1>5, <1>6 DEF PayInv

LEMMA PayReceive ==
  ASSUME MaxBytes \in Nat, PayInv, NEW p \in Pay!Payloads, Pay!Receive(p)
  PROVE  PayInv'
<1>1. /\ step = "new" /\ step' = "received" /\ wire' = p
      /\ UNCHANGED <<count, given, decoded, second>>
  BY DEF Pay!Receive
<1>2. given = -1
  BY <1>1 DEF PayInv
<1>3. \E n \in Nat : p \in [1..n -> Pay!Byte]
  BY DEF Pay!Payloads
<1> QED BY <1>1, <1>2, <1>3 DEF PayInv

LEMMA PayDecode ==
  ASSUME ByteBits \in Nat \ {0}, PayInv, Pay!Decode
  PROVE  PayInv'
<1>1. step \in {"encoded", "received"} /\ UNCHANGED <<count, given, wire, second>>
  BY DEF Pay!Decode
<1>2. count \in Nat \ {0} /\ Pay!Width \in Nat \ {0}
  BY CountsAssumption, WidthFits DEF PayInv
<1>3. Pay!Width' = Pay!Width
  BY <1>1 DEF Pay!Width, Pay!Bits
<1>4. PICK n \in Nat : wire \in [1..n -> Pay!Byte]
  BY <1>1 DEF PayInv
<1>5. given # -1 => ~Pay!WrongWidth /\ Pay!FromBytes(wire) = given
  <2>1. SUFFICES ASSUME given # -1 PROVE ~Pay!WrongWidth /\ Pay!FromBytes(wire) = given
    OBVIOUS
  <2>2. PICK m \in Nat : m = given /\ m \in 0..count - 1
    BY <1>2, <2>1 DEF PayInv
  <2>3. wire = Pay!ToBytes(m, Pay!Width)
    BY <2>1, <2>2 DEF PayInv
  <2>4. wire \in [1..Pay!Width -> Pay!Byte]
    BY <1>2, <2>3, DigitsAreBytes
  <2>5. Len(wire) = Pay!Width
    BY <1>2, <2>4, FromBytesFacts
  <2>6. m < Power(Pay!Radix, Pay!Width)
    BY <1>2, <2>2, WidthFits
  <2>7. Pay!FromBytes(wire) = m
    BY <1>2, <2>3, <2>6, NumberReturns
  <2> QED BY <2>2, <2>5, <2>7 DEF Pay!WrongWidth
<1>6. given # -1 => given \in 0..count - 1
  BY DEF PayInv
<1>7. CASE Pay!WrongWidth \/ Pay!NotAnIndex
  <2>1. step' = "refused" /\ decoded' = decoded
    BY <1>7 DEF Pay!Decode
  <2>2. given = -1
    BY <1>5, <1>6, <1>7 DEF Pay!NotAnIndex
  <2> QED BY <1>1, <1>4, <2>1, <2>2 DEF PayInv
<1>8. CASE ~(Pay!WrongWidth \/ Pay!NotAnIndex)
  <2>1. step' = "decoded" /\ decoded' = Pay!FromBytes(wire)
    BY <1>8 DEF Pay!Decode
  <2>2. wire \in [1..Pay!Width -> Pay!Byte]
    BY <1>4, <1>8, Takes
  <2>3. Pay!FromBytes(wire) \in 0..count - 1
    BY <1>8 DEF Pay!NotAnIndex
  <2>4. wire' \in [1..Pay!Width' -> Pay!Byte] /\ Pay!FromBytes(wire') = Pay!FromBytes(wire)
    BY <1>1, <1>3, <2>2
  <2>5. given' # -1 => wire' = Pay!ToBytes(given', Pay!Width')
    BY <1>1, <1>3 DEF PayInv
  <2>6. given' # -1 => decoded' = given'
    BY <1>1, <1>5, <2>1
  <2> QED BY <1>1, <1>2, <1>3, <2>1, <2>2, <2>3, <2>4, <2>5, <2>6 DEF PayInv
<1> QED BY <1>7, <1>8

LEMMA PayAgain ==
  ASSUME ByteBits \in Nat \ {0}, PayInv, Pay!Again
  PROVE  PayInv'
<1>1. step = "decoded" /\ UNCHANGED <<count, given, wire, decoded>>
  BY DEF Pay!Again
<1>2. count \in Nat \ {0} /\ Pay!Width \in Nat \ {0}
  BY CountsAssumption, WidthFits DEF PayInv
<1>3. /\ wire \in [1..Pay!Width -> Pay!Byte]
      /\ decoded = Pay!FromBytes(wire) /\ decoded \in 0..count - 1
      /\ given # -1 => decoded = given
  BY <1>1 DEF PayInv
<1>4. ~Pay!TooBig(decoded, Pay!Width)
  BY <1>3, NeverTooBig DEF PayInv
<1>5. step' = "again" /\ second' = Pay!ToBytes(decoded, Pay!Width)
  BY <1>4 DEF Pay!Again
<1>6. second' = wire
  BY <1>2, <1>3, <1>5, PayloadReturns
<1>7. Pay!Width' = Pay!Width
  BY <1>1 DEF Pay!Width, Pay!Bits
<1>8. given' # -1 => wire' = Pay!ToBytes(given', Pay!Width')
  BY <1>1, <1>7 DEF PayInv
<1>9. wire' \in [1..Pay!Width' -> Pay!Byte] /\ decoded' = Pay!FromBytes(wire')
  BY <1>1, <1>3, <1>7
<1> QED BY <1>1, <1>2, <1>3, <1>5, <1>6, <1>8, <1>9 DEF PayInv

\* For every size of the space, every size of a byte and payloads of every
\* length: no rank overflows the width that encode_rank computes from the last
\* one, each rank comes back from its payload, and whatever decode_rank accepts
\* is what encode_rank makes of it.
THEOREM PayloadsAreUnique ==
  ASSUME ByteBits \in Nat \ {0}, MaxBytes \in Nat
  PROVE  Pay!Spec => []Pay!OnePayloadEach
<1>1. Pay!Init => PayInv
  BY DEF Pay!Init, PayInv
<1>2. PayInv /\ [Pay!Next]_(Pay!vars) => PayInv'
  <2>1. SUFFICES ASSUME PayInv, [Pay!Next]_(Pay!vars) PROVE PayInv'
    OBVIOUS
  <2>2. CASE \E n \in 0..count - 1 : Pay!Encode(n)
    BY <2>1, <2>2, PayEncode
  <2>3. CASE \E p \in Pay!Payloads : Pay!Receive(p)
    BY <2>1, <2>3, PayReceive
  <2>4. CASE Pay!Decode
    BY <2>1, <2>4, PayDecode
  <2>5. CASE Pay!Again
    BY <2>1, <2>5, PayAgain
  <2>6. CASE UNCHANGED Pay!vars
    <3>1. UNCHANGED <<count, step, given, wire, decoded, second>>
      BY <2>6 DEF Pay!vars
    <3>2. Pay!Width' = Pay!Width
      BY <3>1 DEF Pay!Width, Pay!Bits
    <3> QED BY <2>1, <3>1, <3>2 DEF PayInv
  <2> QED BY <2>1, <2>2, <2>3, <2>4, <2>5, <2>6 DEF Pay!Next
<1>3. PayInv => Pay!OnePayloadEach
  BY DEF PayInv, Pay!OnePayloadEach
<1> QED BY <1>1, <1>2, <1>3, PTL DEF Pay!Spec

-----------------------------------------------------------------------------
(* An interval of ranks, written to a file (finspace export) *)

\* What the command may be given: spaces with a number of records, whole numbers, and
\* at most one stop and one limit.
AtMostOne(S) == S = {} \/ \E k \in Int : S = {k}
ExportAssumption ==
  /\ \A s \in Spaces : Len(s) \in Nat
  /\ Starts \subseteq Int
  /\ \A S \in Stops \cup Limits : AtMostOne(S)

\* A row as it stands in the file, and all rows of the file.
Line(k) == File!Written(File!RowOf(k))
Lines == {Line(k) : k \in Int}
Right(k) == File!InSpace(k) /\ File!Fits(File!RowOf(k))
IsFile(rows, m) ==
  /\ rows \in Seq(Lines) /\ Len(rows) = m
  /\ \A i \in 1..m : Right(start + i - 1) /\ rows[i] = Line(start + i - 1)

HasRows(m) == \E rows : file = {rows} /\ IsFile(rows, m)

Positive(k) == IF k > 0 THEN k ELSE 0

\* Why an export may fail.
Reason ==
  \/ ~ (0 <= start /\ start <= stop /\ stop <= File!Count)
  \/ /\ format = "csv"
     /\ \E k \in Int : /\ start <= k /\ k < stop
                       /\ ~ (DOMAIN File!RowOf(k) \subseteq DOMAIN File!RowOf(start))

\* The invariant of an export.
ExportInv ==
  /\ space \in Spaces /\ start \in Int /\ stop \in Int /\ next \in Int
  /\ format \in {"jsonl", "csv"}
  /\ pc \in {"open", "lines", "columns", "close", "end"}
  /\ status \in {"none", "ok", "error"} /\ (status # "none" => pc = "end")
  /\ pc = "open" => next = start /\ file = {}
  /\ pc = "lines" => format = "jsonl"
  /\ pc = "columns" => header = DOMAIN File!RowOf(start)
  /\ pc \in {"lines", "columns"} =>
       /\ start <= next /\ (next <= stop \/ next = start)
       /\ \E m \in Nat : m = next - start /\ HasRows(m)
  /\ pc = "close" \/ status = "ok" => \E m \in Nat : m = Positive(stop - start) /\ HasRows(m)
  /\ status = "ok" => printed = {stop - start}
  /\ status = "error" =>
       /\ Reason
       /\ file = {} \/ \E m \in Nat : HasRows(m)

\* The larger and the smaller of two numbers.
LEMMA TwoNumbers ==
  ASSUME NEW a \in Int, NEW b \in Int
  PROVE  /\ File!Min({a, b}) \in Int
         /\ File!Max({0, a}) = Positive(a)
<1>1. \E x \in {a, b} : \A y \in {a, b} : x =< y
  OBVIOUS
<1>2. File!Min({a, b}) \in {a, b}
  BY <1>1 DEF File!Min
<1>3. PICK x : x = File!Max({0, a})
  OBVIOUS
<1>4. \E m \in {0, a} : \A y \in {0, a} : m >= y
  OBVIOUS
<1>5. x \in {0, a} /\ \A y \in {0, a} : x >= y
  BY <1>3, <1>4 DEF File!Max
<1> QED BY <1>2, <1>3, <1>5 DEF Positive

\* The arguments of the command make one interval.
LEMMA IntervalFacts ==
  ASSUME ExportAssumption, NEW until \in Stops, NEW limit \in Limits, start \in Int, space \in Spaces
  PROVE  LET end == IF until = {} THEN File!Count ELSE CHOOSE s \in until : TRUE
         IN  File!Min({end} \cup {start + l : l \in limit}) \in Int
<1> DEFINE end == IF until = {} THEN File!Count ELSE CHOOSE s \in until : TRUE
<1>1. AtMostOne(until) /\ AtMostOne(limit)
  BY DEF ExportAssumption
<1>2. PICK e \in Int : e = end
  <2>1. CASE until = {}
    BY <2>1 DEF ExportAssumption, File!Count
  <2>2. CASE until # {}
    <3>1. PICK k \in Int : until = {k}
      BY <1>1, <2>2 DEF AtMostOne
    <3>2. end = k
      BY <2>2, <3>1
    <3> QED BY <3>2
  <2> QED BY <2>1, <2>2
<1> HIDE DEF end
<1>3. \E b \in Int : {e} \cup {start + l : l \in limit} = {e, b}
  <2>1. CASE limit = {}
    BY <2>1
  <2>2. CASE limit # {}
    <3>1. PICK k \in Int : limit = {k}
      BY <1>1, <2>2 DEF AtMostOne
    <3>2. {e} \cup {start + l : l \in limit} = {e, start + k} /\ start + k \in Int
      BY <3>1
    <3> QED BY <3>2
  <2> QED BY <2>1, <2>2
<1>4. File!Min({end} \cup {start + l : l \in limit}) \in Int
  BY <1>2, <1>3, TwoNumbers
<1> QED BY <1>4 DEF end

\* What is read from a line is what the format keeps of the row.
LEMMA ReadsBack ==
  ASSUME NEW k \in Int, Right(k)
  PROVE  File!Read(Line(k)) = File!Kept(File!RowOf(k))
<1>1. PICK row : row = File!RowOf(k)
  OBVIOUS
<1>2. CASE format = "jsonl"
  BY <1>1, <1>2 DEF Line, File!Written, File!Read, File!Kept
<1>3. CASE format # "jsonl"
  <2>1. DOMAIN row \subseteq header
    BY <1>1, <1>3 DEF Right, File!Fits
  <2>2. PICK line : line = [c \in header |-> IF c \in DOMAIN row THEN Text(row[c]) ELSE Blank]
    OBVIOUS
  <2>3. Line(k) = line
    BY <1>1, <1>3, <2>2 DEF Line, File!Written
  <2>4. PICK texts : texts = [c \in DOMAIN row |-> Text(row[c])]
    OBVIOUS
  <2>5. File!Printed(row) = texts
    BY <2>4 DEF File!Printed
  <2>6. DOMAIN line = header /\ DOMAIN texts = DOMAIN row
    BY <2>2, <2>4
  <2>7. \A c \in DOMAIN row : line[c] = texts[c]
    BY <2>1, <2>2, <2>4
  <2>8. \A c \in header : c \notin DOMAIN row => line[c] = Blank
    BY <2>2
  <2>9. {d \in DOMAIN line : line[d] # Blank} = {d \in DOMAIN texts : texts[d] # Blank}
    BY <2>1, <2>6, <2>7, <2>8
  <2>10. File!NotBlank(line) = File!NotBlank(texts)
    BY <2>6, <2>7, <2>9 DEF File!NotBlank
  <2> QED BY <1>1, <1>3, <2>3, <2>5, <2>10 DEF File!Read, File!Kept
<1> QED BY <1>2, <1>3

\* The file before its first row.
LEMMA NoRows == IsFile(<<>>, 0)
BY DEF IsFile

\* One row more.
LEMMA OneRowMore ==
  ASSUME NEW m \in Nat, NEW rows, IsFile(rows, m), start \in Int, Right(start + m)
  PROVE  IsFile(Append(rows, Line(start + m)), m + 1)
<1>1. Line(start + m) \in Lines
  BY DEF Lines
<1>2. rows \in Seq(Lines) /\ Len(rows) = m
  BY DEF IsFile
<1> DEFINE more == Append(rows, Line(start + m))
<1>3. /\ more \in Seq(Lines) /\ Len(more) = m + 1
      /\ \A i \in 1..m : more[i] = rows[i]
      /\ more[m + 1] = Line(start + m)
  BY <1>1, <1>2, AppendProperties
<1> HIDE DEF more
<1>4. ASSUME NEW i \in 1..m + 1 PROVE Right(start + i - 1) /\ more[i] = Line(start + i - 1)
  <2>1. CASE i = m + 1
    <3>1. start + i - 1 = start + m
      BY <2>1
    <3> QED BY <1>3, <2>1, <3>1
  <2>2. CASE i # m + 1
    <3>1. i \in 1..m
      BY <2>2
    <3> QED BY <1>3, <3>1 DEF IsFile
  <2> QED BY <2>1, <2>2
<1>5. IsFile(more, m + 1)
  BY <1>3, <1>4 DEF IsFile
<1> QED BY <1>5 DEF more

\* What is asked for, and how the rows are written, stays.
SameExport == UNCHANGED <<space, format, start, stop>>

LEMMA ExportStays ==
  ASSUME SameExport
  PROVE  /\ Reason' <=> Reason
         /\ \A k : File!RowOf(k)' = File!RowOf(k)
         /\ File!RowOf(start)' = File!RowOf(start)
         /\ header' = header => \A rows, m : IsFile(rows, m)' <=> IsFile(rows, m)
<1>1. \A k : File!RowOf(k)' = File!RowOf(k)
  BY DEF SameExport, File!RowOf
<1>2. File!RowOf(start)' = File!RowOf(start)
  BY DEF SameExport, File!RowOf
<1>3. Reason' <=> Reason
  BY <1>1, <1>2 DEF SameExport, Reason, File!Count
<1>4. ASSUME header' = header, NEW rows, NEW m PROVE IsFile(rows, m)' <=> IsFile(rows, m)
  <2>1. \A k : Line(k)' = Line(k)
    BY <1>1, <1>4 DEF SameExport, Line, File!Written
  <2>2. \A k : Right(k)' <=> Right(k)
    BY <1>1, <1>4 DEF SameExport, Right, File!InSpace, File!Fits, File!Count
  <2>3. Lines' = Lines
    BY <2>1 DEF Lines
  <2>4. start' = start
    BY DEF SameExport
  <2> QED BY <2>1, <2>2, <2>3, <2>4 DEF IsFile
<1> QED BY <1>1, <1>2, <1>3, <1>4

\* What is written stays as well.
LEMMA RowsStay ==
  ASSUME SameExport, header' = header, file' = file
  PROVE  \A m : HasRows(m)' <=> HasRows(m)
BY ExportStays DEF HasRows

LEMMA ExportOpenLines ==
  ASSUME ExportInv, File!OpenLines
  PROVE  ExportInv'
<1>1. /\ SameExport /\ pc = "open" /\ format = "jsonl" /\ file' = {<<>>} /\ pc' = "lines"
      /\ next' = next /\ status' = status
  BY DEF File!OpenLines, SameExport
<1>2. next = start /\ status = "none" /\ start \in Int
  BY <1>1 DEF ExportInv
<1>3. HasRows(0)'
  <2>1. IsFile(<<>>, 0)'
    BY NoRows DEF IsFile
  <2>2. PICK rows : rows = <<>> /\ file' = {rows}
    BY <1>1
  <2> QED BY <2>1, <2>2 DEF HasRows
<1>4. start' = start /\ next' - start' = 0 /\ start' <= next'
  BY <1>1, <1>2 DEF SameExport
<1>5. \E m \in Nat : m = next' - start' /\ HasRows(m)'
  BY <1>3, <1>4
<1> QED BY <1>1, <1>2, <1>4, <1>5 DEF ExportInv, SameExport

LEMMA ExportOpenColumns ==
  ASSUME ExportAssumption, ExportInv, File!OpenColumns
  PROVE  ExportInv'
<1>1. SameExport /\ pc = "open" /\ format = "csv"
  BY DEF File!OpenColumns, SameExport
<1>2. next = start /\ status = "none" /\ file = {} /\ start \in Int /\ stop \in Int
  BY <1>1 DEF ExportInv
<1>3. CASE start >= stop
  <2>1. pc' = "close" /\ file' = {<<>>} /\ UNCHANGED <<next, header, status, printed>>
    BY <1>3 DEF File!OpenColumns
  <2>2. Positive(stop - start)' = 0
    BY <1>1, <1>2, <1>3 DEF Positive, SameExport
  <2>3. HasRows(0)'
    <3>1. IsFile(<<>>, 0)'
      BY NoRows DEF IsFile
    <3>2. PICK rows : rows = <<>> /\ file' = {rows}
      BY <2>1
    <3> QED BY <3>1, <3>2 DEF HasRows
  <2>4. \E m \in Nat : m = Positive(stop - start)' /\ HasRows(m)'
    BY <2>2, <2>3
  <2> QED BY <1>1, <1>2, <2>1, <2>4 DEF ExportInv, SameExport
<1>4. CASE start < stop /\ ~File!InSpace(start)
  <2>1. pc' = "end" /\ status' = "error" /\ UNCHANGED <<next, header, file>>
    BY <1>2, <1>4 DEF File!OpenColumns, File!Fail
  <2>2. Reason
    BY <1>2, <1>4 DEF Reason, File!InSpace, File!Count, ExportAssumption, ExportInv
  <2> QED BY <1>1, <1>2, <2>1, <2>2, ExportStays DEF ExportInv, SameExport
<1>5. CASE start < stop /\ File!InSpace(start)
  <2>1. /\ header' = DOMAIN File!RowOf(start) /\ file' = {<<File!Printed(File!RowOf(start))>>}
        /\ next' = start + 1 /\ pc' = "columns" /\ UNCHANGED <<status, printed>>
    BY <1>2, <1>5 DEF File!OpenColumns
  <2>2. File!RowOf(start)' = File!RowOf(start) /\ start' = start /\ format' = "csv"
    BY <1>1, ExportStays DEF SameExport
  <2>3. Line(start)' = File!Printed(File!RowOf(start))
    <3>1. Line(start)' = [c \in header' |-> IF c \in DOMAIN File!RowOf(start)
                                              THEN Text(File!RowOf(start)[c]) ELSE Blank]
      BY <2>2 DEF Line, File!Written
    <3> QED BY <2>1, <3>1 DEF File!Printed
  <2>4. Right(start)'
    BY <1>1, <1>5, <2>1, <2>2 DEF Right, File!Fits, File!InSpace, File!Count, SameExport
  <2>5. PICK rows : rows = <<File!Printed(File!RowOf(start))>> /\ file' = {rows}
    BY <2>1
  <2>6. IsFile(rows, 1)'
    <3>1. Line(start)' \in Lines'
      BY <1>2, <2>2 DEF Lines
    <3>2. rows \in Seq(Lines') /\ Len(rows) = 1 /\ rows[1] = Line(start)'
      BY <2>3, <2>5, <3>1
    <3>3. ASSUME NEW i \in 1..1 PROVE i = 1 /\ start + i - 1 = start
      BY <1>2
    <3> QED BY <2>2, <2>4, <3>2, <3>3 DEF IsFile
  <2>7. next' - start' = 1 /\ start' <= next' /\ next' <= stop' /\ next' \in Int
    BY <1>1, <1>2, <1>5, <2>1 DEF SameExport
  <2>8. HasRows(1)'
    BY <2>5, <2>6 DEF HasRows
  <2>9. \E m \in Nat : m = next' - start' /\ HasRows(m)'
    BY <2>7, <2>8
  <2>10. header' = DOMAIN File!RowOf(start)'
    BY <1>1, <2>1, ExportStays
  <2> QED BY <1>1, <1>2, <2>1, <2>2, <2>7, <2>9, <2>10 DEF ExportInv, SameExport
<1> QED BY <1>2, <1>3, <1>4, <1>5

LEMMA ExportWriteRow ==
  ASSUME ExportAssumption, ExportInv, File!WriteRow
  PROVE  ExportInv'
<1>1. SameExport /\ header' = header /\ pc \in {"lines", "columns"} /\ next < stop
  BY DEF File!WriteRow, SameExport
<1>2. /\ start \in Int /\ stop \in Int /\ next \in Int /\ start <= next
      /\ status = "none" /\ space \in Spaces
  BY <1>1 DEF ExportInv
<1>3. PICK m \in Nat : m = next - start /\ HasRows(m)
  BY <1>1 DEF ExportInv
<1>4. start + m = next
  BY <1>2, <1>3
<1>5. CASE ~File!InSpace(next) \/ ~File!Fits(File!RowOf(next))
  <2>1. pc' = "end" /\ status' = "error" /\ UNCHANGED <<next, file>>
    BY <1>5 DEF File!WriteRow, File!Fail
  <2>2. Reason
    <3>1. CASE ~File!InSpace(next)
      BY <1>1, <1>2, <3>1 DEF Reason, File!InSpace, File!Count, ExportAssumption
    <3>2. CASE ~File!Fits(File!RowOf(next))
      <4>1. format = "csv" /\ ~ (DOMAIN File!RowOf(next) \subseteq header)
        BY <3>2 DEF File!Fits, ExportInv
      <4>2. header = DOMAIN File!RowOf(start)
        BY <1>1, <4>1 DEF ExportInv
      <4> QED BY <1>1, <1>2, <4>1, <4>2 DEF Reason
    <3> QED BY <1>5, <3>1, <3>2
  <2>3. HasRows(m)' /\ Reason'
    BY <1>1, <1>3, <2>1, <2>2, ExportStays, RowsStay
  <2> QED BY <1>1, <1>2, <2>1, <2>3 DEF ExportInv, SameExport
<1>6. CASE File!InSpace(next) /\ File!Fits(File!RowOf(next))
  <2>1. /\ file' = {Append(r, File!Written(File!RowOf(next))) : r \in file}
        /\ next' = next + 1 /\ UNCHANGED <<pc, status, printed>>
    BY <1>6 DEF File!WriteRow
  <2>2. PICK rows : file = {rows} /\ IsFile(rows, m)
    BY <1>3 DEF HasRows
  <2>3. PICK more : more = Append(rows, Line(start + m)) /\ file' = {more}
    BY <1>4, <2>1, <2>2 DEF Line
  <2>4. IsFile(more, m + 1)
    BY <1>2, <1>4, <1>6, <2>2, <2>3, OneRowMore DEF Right
  <2>5. HasRows(m + 1)'
    BY <1>1, <2>3, <2>4, ExportStays DEF HasRows
  <2>6. next' - start' = m + 1 /\ start' <= next' /\ next' <= stop' /\ next' \in Int
    BY <1>1, <1>2, <1>3, <1>4, <2>1 DEF SameExport
  <2>7. \E k \in Nat : k = next' - start' /\ HasRows(k)'
    BY <2>5, <2>6
  <2>8. pc' = "lines" => format' = "jsonl"
    BY <1>1, <2>1 DEF ExportInv, SameExport
  <2>9. pc' = "columns" => header' = DOMAIN File!RowOf(start)'
    BY <1>1, <2>1, ExportStays DEF ExportInv, SameExport
  <2> QED BY <1>1, <1>2, <2>1, <2>6, <2>7, <2>8, <2>9 DEF ExportInv, SameExport
<1> QED BY <1>5, <1>6

LEMMA ExportClose ==
  ASSUME ExportInv, File!Close
  PROVE  ExportInv'
<1>1. /\ SameExport /\ pc \in {"lines", "columns"} /\ next >= stop /\ pc' = "close"
      /\ UNCHANGED <<next, header, file, status>>
  BY DEF File!Close, SameExport
<1>2. /\ start \in Int /\ stop \in Int /\ next \in Int /\ start <= next
      /\ next <= stop \/ next = start
      /\ status = "none"
  BY <1>1 DEF ExportInv
<1>3. PICK m \in Nat : m = next - start /\ HasRows(m)
  BY <1>1 DEF ExportInv
<1>4. m = Positive(stop - start)'
  BY <1>1, <1>2, <1>3 DEF Positive, SameExport
<1>5. HasRows(m)'
  BY <1>1, <1>3, RowsStay
<1> QED BY <1>1, <1>2, <1>4, <1>5 DEF ExportInv, SameExport

LEMMA ExportReport ==
  ASSUME ExportInv, File!Report
  PROVE  ExportInv'
<1>1. /\ SameExport /\ pc = "close" /\ printed' = {stop - start} /\ status' = "ok" /\ pc' = "end"
      /\ UNCHANGED <<next, header, file>>
  BY DEF File!Report, SameExport
<1>2. PICK m \in Nat : m = Positive(stop - start) /\ HasRows(m)
  BY <1>1 DEF ExportInv
<1>3. m = Positive(stop - start)' /\ printed' = {stop' - start'}
  BY <1>1, <1>2 DEF Positive, SameExport
<1>4. HasRows(m)'
  BY <1>1, <1>2, RowsStay
<1> QED BY <1>1, <1>3, <1>4 DEF ExportInv, SameExport

\* An export that succeeds is complete, whatever the space, its values, the interval,
\* the format and the texts of values: the file holds the ranks of the interval in their
\* order, in lines each with its whole record, in columns with the text of each value that
\* is not written as an empty cell, and the count that is printed is theirs.  One that
\* fails has a reason and leaves no row but those of a beginning of the interval.
THEOREM ExportsAreComplete ==
  ASSUME ExportAssumption
  PROVE  File!Spec => []File!ExportIsComplete
<1>1. File!Init => ExportInv
  <2>1. SUFFICES ASSUME File!Init PROVE ExportInv
    OBVIOUS
  <2>2. space \in Spaces /\ start \in Starts
    BY <2>1 DEF File!Init
  <2>3. start \in Int
    BY <2>2 DEF ExportAssumption
  <2>4. PICK until \in Stops, limit \in Limits :
          LET end == IF until = {} THEN File!Count ELSE CHOOSE s \in until : TRUE
          IN  stop = File!Min({end} \cup {start + l : l \in limit})
    BY <2>1 DEF File!Init
  <2>5. stop \in Int
    BY <2>2, <2>3, <2>4, IntervalFacts
  <2> QED BY <2>1, <2>2, <2>3, <2>5 DEF File!Init, ExportInv
<1>2. ExportInv /\ [File!Next]_(File!vars) => ExportInv'
  <2>1. SUFFICES ASSUME ExportInv, [File!Next]_(File!vars) PROVE ExportInv'
    OBVIOUS
  <2>2. CASE File!OpenLines
    BY <2>1, <2>2, ExportOpenLines
  <2>3. CASE File!OpenColumns
    BY <2>1, <2>3, ExportOpenColumns
  <2>4. CASE File!WriteRow
    BY <2>1, <2>4, ExportWriteRow
  <2>5. CASE File!Close
    BY <2>1, <2>5, ExportClose
  <2>6. CASE File!Report
    BY <2>1, <2>6, ExportReport
  <2>7. CASE UNCHANGED File!vars
    <3>1. SameExport /\ UNCHANGED <<pc, next, header, file, status, printed>>
      BY <2>7 DEF File!vars, SameExport
    <3>2. (\A m : HasRows(m)' <=> HasRows(m)) /\ (Reason' <=> Reason)
      BY <3>1, ExportStays, RowsStay
    <3>3. File!RowOf(start)' = File!RowOf(start)
      BY <3>1, ExportStays
    <3>4. UNCHANGED <<space, format, start, stop>> /\ Positive(stop - start)' = Positive(stop - start)
      BY <3>1 DEF SameExport, Positive
    <3> QED BY <2>1, <3>1, <3>2, <3>3, <3>4 DEF ExportInv
  <2> QED BY <2>1, <2>2, <2>3, <2>4, <2>5, <2>6, <2>7 DEF File!Next
<1>3. ExportInv => File!ExportIsComplete
  <2>1. SUFFICES ASSUME ExportInv PROVE File!ExportIsComplete
    OBVIOUS
  <2>2. space \in Spaces /\ start \in Int /\ stop \in Int
    BY <2>1 DEF ExportInv
  <2>3. ASSUME NEW rows, NEW m \in Nat, IsFile(rows, m), NEW i \in 1..m
        PROVE  File!InSpace(start + i - 1) /\ File!Read(rows[i]) = File!Kept(File!RowOf(start + i - 1))
    <3>1. Right(start + i - 1) /\ rows[i] = Line(start + i - 1) /\ start + i - 1 \in Int
      BY <2>2, <2>3 DEF IsFile
    <3>2. File!Read(Line(start + i - 1)) = File!Kept(File!RowOf(start + i - 1))
      BY <2>2, <3>1, ReadsBack
    <3> QED BY <3>1, <3>2 DEF Right
  <2>4. ASSUME NEW rows, NEW m \in Nat, IsFile(rows, m) PROVE DOMAIN rows = 1..m
    BY <2>4 DEF IsFile
  <2>5. PICK length \in Nat : length = Positive(stop - start) /\ (start <= stop => length = stop - start)
    BY <2>2 DEF Positive
  <2>6. File!Asked = [i \in 1..length |-> start + i - 1]
    <3>1. stop - start \in Int
      BY <2>2
    <3>2. File!Max({0, stop - start}) = length
      BY <2>5, <3>1, TwoNumbers
    <3> QED BY <3>2 DEF File!Asked
  <2>7. ASSUME status = "ok", NEW rows \in file
        PROVE  /\ [i \in DOMAIN rows |-> File!Read(rows[i])]
                    = [i \in DOMAIN File!Asked |-> File!Kept(File!RowOf(File!Asked[i]))]
               /\ start <= stop => printed = {Len(rows)}
    <3>1. IsFile(rows, length) /\ printed = {stop - start}
      BY <2>1, <2>5, <2>7 DEF ExportInv, HasRows
    <3>2. DOMAIN rows = 1..length /\ Len(rows) = length
      BY <2>4, <3>1 DEF IsFile
    <3>3. DOMAIN File!Asked = 1..length /\ \A i \in 1..length : File!Asked[i] = start + i - 1
      BY <2>6
    <3>4. \A i \in 1..length : File!Read(rows[i]) = File!Kept(File!RowOf(File!Asked[i]))
      BY <2>3, <3>1, <3>3
    <3>5. [i \in 1..length |-> File!Read(rows[i])] = [i \in 1..length |-> File!Kept(File!RowOf(File!Asked[i]))]
      BY <3>4
    <3> QED BY <2>5, <3>1, <3>2, <3>3, <3>5
  <2>8. ASSUME status = "error", NEW rows \in file, NEW i \in DOMAIN rows
        PROVE  File!InSpace(start + i - 1) /\ File!Read(rows[i]) = File!Kept(File!RowOf(start + i - 1))
    <3>1. PICK m \in Nat : IsFile(rows, m)
      BY <2>1, <2>8 DEF ExportInv, HasRows
    <3> QED BY <2>3, <2>4, <3>1
  <2>9. ASSUME status = "error"
        PROVE  \/ ~ (0 <= start /\ start <= stop /\ stop <= File!Count)
               \/ /\ format = "csv"
                  /\ \E r \in File!ToSet(File!Asked) :
                       ~ (DOMAIN File!RowOf(r) \subseteq DOMAIN File!RowOf(start))
    <3>1. Reason
      BY <2>1, <2>9 DEF ExportInv
    <3>2. ASSUME NEW k \in Int, start <= k, k < stop PROVE k \in File!ToSet(File!Asked)
      <4>1. k - start + 1 \in 1..length /\ start + (k - start + 1) - 1 = k
        BY <2>2, <2>5, <3>2
      <4>2. PICK i \in 1..length : start + i - 1 = k
        BY <4>1
      <4>3. i \in DOMAIN File!Asked /\ File!Asked[i] = k
        BY <2>6, <4>2
      <4> QED BY <4>3 DEF File!ToSet
    <3> QED BY <3>1, <3>2 DEF Reason
  <2> QED BY <2>7, <2>8, <2>9 DEF File!ExportIsComplete
<1> QED BY <1>1, <1>2, <1>3, PTL DEF File!Spec

-----------------------------------------------------------------------------
\* The m sequences of P hold each rank below k at one place, and nothing else.
Once(P, m, k) ==
  /\ P \in [1..m -> Seq(0..k - 1)]
  /\ \A r \in 0..k - 1 : \E w \in 1..m : \E i \in DOMAIN P[w] :
       /\ P[w][i] = r
       /\ \A v \in 1..m : \A j \in DOMAIN P[v] : P[v][j] = r => v = w /\ j = i

\* The places of a rank are then one.
LEMMA OncePlace ==
  ASSUME NEW P, NEW m \in Nat, NEW k \in Nat, Once(P, m, k), NEW r \in 0..k - 1
  PROVE  Cardinality({p \in UNION {{w} \X DOMAIN P[w] : w \in 1..m} : P[p[1]][p[2]] = r}) = 1
<1> DEFINE U == UNION {{w} \X DOMAIN P[w] : w \in 1..m}
           T == {p \in U : P[p[1]][p[2]] = r}
<1>1. PICK w \in 1..m : \E i \in DOMAIN P[w] :
        /\ P[w][i] = r
        /\ \A v \in 1..m : \A j \in DOMAIN P[v] : P[v][j] = r => v = w /\ j = i
  BY DEF Once
<1>2. PICK i \in DOMAIN P[w] :
        /\ P[w][i] = r
        /\ \A v \in 1..m : \A j \in DOMAIN P[v] : P[v][j] = r => v = w /\ j = i
  BY <1>1
<1>3. <<w, i>> \in T
  BY <1>2
<1>4. ASSUME NEW p \in T PROVE p = <<w, i>>
  <2>1. PICK v \in 1..m : p \in {v} \X DOMAIN P[v]
    OBVIOUS
  <2>2. p[1] = v /\ p[2] \in DOMAIN P[v] /\ p = <<p[1], p[2]>>
    BY <2>1
  <2>3. v = w /\ p[2] = i
    BY <1>2, <2>2
  <2> QED BY <2>2, <2>3
<1>5. T = {<<w, i>>}
  BY <1>3, <1>4
<1>6. Cardinality(T) = 1
  BY <1>5, FS_Singleton
<1> QED BY <1>6

\* The next rank at the end of one of the sequences.
LEMMA OnceMore ==
  ASSUME NEW P, NEW m \in Nat, NEW k \in Nat, Once(P, m, k), NEW w \in 1..m
  PROVE  Once([P EXCEPT ![w] = Append(@, k)], m, k + 1)
<1> DEFINE Q == [P EXCEPT ![w] = Append(@, k)]
<1>1. P \in [1..m -> Seq(0..k - 1)]
  BY DEF Once
<1>2. ASSUME NEW v \in 1..m
      PROVE  /\ P[v] \in Seq(0..k) /\ P[v] \in Seq(0..k - 1)
             /\ Q[v] = IF v = w THEN Append(P[w], k) ELSE P[v]
  <2>1. P[v] \in Seq(0..k - 1)
    BY <1>1
  <2>2. P[v] \in Seq(0..k)
    BY <2>1
  <2> QED BY <1>1, <2>1, <2>2
<1>3. P[w] \in Seq(0..k) /\ P[w] \in Seq(0..k - 1) /\ Q[w] = Append(P[w], k)
  BY <1>2
<1>4. /\ Q[w] \in Seq(0..k) /\ DOMAIN Q[w] = 1..Len(P[w]) + 1
      /\ Q[w][Len(P[w]) + 1] = k
      /\ \A j \in 1..Len(P[w]) : Q[w][j] = P[w][j]
      /\ DOMAIN P[w] = 1..Len(P[w]) /\ Len(P[w]) \in Nat
  <2>1. PICK s \in Seq(0..k) : s = P[w]
    BY <1>3
  <2>2. /\ Append(s, k) \in Seq(0..k) /\ Len(Append(s, k)) = Len(s) + 1
        /\ Append(s, k)[Len(s) + 1] = k /\ \A j \in 1..Len(s) : Append(s, k)[j] = s[j]
        /\ DOMAIN s = 1..Len(s) /\ Len(s) \in Nat
    <3>1. k \in 0..k
      OBVIOUS
    <3> QED BY <3>1, AppendProperties
  <2>3. DOMAIN Append(s, k) = 1..Len(s) + 1
    BY <2>2
  <2>4. Q[w] = Append(s, k)
    BY <1>3, <2>1
  <2> QED BY <2>1, <2>2, <2>3, <2>4
<1>5. Q \in [1..m -> Seq(0..k)]
  BY <1>1, <1>2, <1>4
<1>6. ASSUME NEW v \in 1..m, NEW j \in DOMAIN Q[v]
      PROVE  \/ j \in DOMAIN P[v] /\ Q[v][j] = P[v][j] /\ P[v][j] \in 0..k - 1
             \/ v = w /\ j = Len(P[w]) + 1 /\ Q[v][j] = k
  <2>1. CASE v = w
    <3>1. CASE j = Len(P[w]) + 1
      BY <1>4, <2>1, <3>1
    <3>2. CASE j # Len(P[w]) + 1
      <4>1. j \in 1..Len(P[w])
        BY <1>4, <2>1, <3>2
      <4>2. P[w][j] \in 0..k - 1
        BY <1>3, <4>1
      <4> QED BY <1>4, <2>1, <4>1, <4>2
    <3> QED BY <3>1, <3>2
  <2>2. CASE v # w
    <3>1. Q[v] = P[v] /\ P[v] \in Seq(0..k - 1)
      BY <1>2, <2>2
    <3> QED BY <3>1
  <2> QED BY <2>1, <2>2
<1>7. ASSUME NEW r \in 0..k
      PROVE  \E v \in 1..m : \E i \in DOMAIN Q[v] :
               /\ Q[v][i] = r
               /\ \A u \in 1..m : \A j \in DOMAIN Q[u] : Q[u][j] = r => u = v /\ j = i
  <2>1. CASE r = k
    <3>1. Len(P[w]) + 1 \in DOMAIN Q[w]
      BY <1>4
    <3>2. ASSUME NEW u \in 1..m, NEW j \in DOMAIN Q[u], Q[u][j] = k
          PROVE  u = w /\ j = Len(P[w]) + 1
      BY <1>6, <3>2
    <3>3. Q[w][Len(P[w]) + 1] = k
      BY <1>4
    <3> HIDE DEF Q
    <3> QED BY <2>1, <3>1, <3>2, <3>3
  <2>2. CASE r # k
    <3>1. r \in 0..k - 1
      BY <2>2
    <3>2. PICK v \in 1..m : \E i \in DOMAIN P[v] :
            /\ P[v][i] = r
            /\ \A u \in 1..m : \A j \in DOMAIN P[u] : P[u][j] = r => u = v /\ j = i
      BY <3>1 DEF Once
    <3>3. PICK i \in DOMAIN P[v] :
            /\ P[v][i] = r
            /\ \A u \in 1..m : \A j \in DOMAIN P[u] : P[u][j] = r => u = v /\ j = i
      BY <3>2
    <3>4. i \in DOMAIN Q[v] /\ Q[v][i] = r
      <4>1. CASE v = w
        BY <1>4, <3>3, <4>1
      <4>2. CASE v # w
        BY <1>2, <3>3, <4>2
      <4> QED BY <4>1, <4>2
    <3>5. ASSUME NEW u \in 1..m, NEW j \in DOMAIN Q[u], Q[u][j] = r
          PROVE  u = v /\ j = i
      <4>1. j \in DOMAIN P[u] /\ Q[u][j] = P[u][j]
        BY <1>6, <2>2, <3>5
      <4> QED BY <3>3, <3>5, <4>1
    <3> HIDE DEF Q
    <3> QED BY <3>4, <3>5
  <2> QED BY <2>1, <2>2
<1>8. 0..(k + 1) - 1 = 0..k
  OBVIOUS
<1> HIDE DEF Q
<1>9. Once(Q, m, k + 1)
  BY <1>5, <1>7, <1>8 DEF Once
<1> QED BY <1>9 DEF Q

\* A list that has every rank once, edges that go up, and the list cut at them.
Listing(f, n) ==
  /\ f \in [1..n -> 0..n - 1]
  /\ \A p, q \in 1..n : f[p] = f[q] => p = q
  /\ \A r \in 0..n - 1 : \E p \in 1..n : f[p] = r

Edges(E, n, m) ==
  /\ E \in [0..m -> 0..n]
  /\ E[0] = 0 /\ E[m] = n
  /\ \A j, k \in 0..m : j <= k => E[j] <= E[k]

CutAt(P, f, E, n, m) ==
  /\ P \in [1..m -> Seq(0..n - 1)]
  /\ \A w \in 1..m : /\ Len(P[w]) = E[w] - E[w - 1]
                      /\ \A i \in 1..Len(P[w]) : P[w][i] = f[E[w - 1] + i]

LEMMA OnceCut ==
  ASSUME NEW n \in Nat, NEW m \in Nat, m > 0, NEW f, NEW E, NEW P,
         Listing(f, n), Edges(E, n, m), CutAt(P, f, E, n, m)
  PROVE  Once(P, m, n)
<1>0. ASSUME NEW w \in 1..m
      PROVE  /\ w \in 0..m /\ w - 1 \in 0..m /\ E[w] \in 0..n /\ E[w - 1] \in 0..n /\ E[w - 1] <= E[w]
             /\ Len(P[w]) = E[w] - E[w - 1] /\ DOMAIN P[w] = 1..Len(P[w])
  <2>1. w \in 0..m /\ w - 1 \in 0..m /\ w - 1 <= w
    OBVIOUS
  <2>2. E[w] \in 0..n /\ E[w - 1] \in 0..n /\ E[w - 1] <= E[w]
    BY <2>1 DEF Edges
  <2>3. P[w] \in Seq(0..n - 1) /\ Len(P[w]) = E[w] - E[w - 1]
    BY DEF CutAt
  <2>4. DOMAIN P[w] = 1..Len(P[w])
    BY <2>3
  <2> QED BY <2>1, <2>2, <2>3, <2>4
<1>1. ASSUME NEW v \in 1..m, NEW j \in DOMAIN P[v]
      PROVE  /\ E[v - 1] + j \in 1..n /\ P[v][j] = f[E[v - 1] + j]
             /\ E[v - 1] < E[v - 1] + j /\ E[v - 1] + j <= E[v]
  <2>1. /\ E[v] \in 0..n /\ E[v - 1] \in 0..n /\ DOMAIN P[v] = 1..Len(P[v])
        /\ Len(P[v]) = E[v] - E[v - 1]
    BY <1>0
  <2>2. j \in 1..Len(P[v])
    BY <2>1
  <2>3. j \in Int /\ 1 <= j /\ j <= E[v] - E[v - 1]
    BY <2>1, <2>2
  <2>4. P[v][j] = f[E[v - 1] + j]
    BY <2>2 DEF CutAt
  <2>5. E[v - 1] < E[v - 1] + j /\ E[v - 1] + j <= E[v] /\ E[v - 1] + j \in 1..n
    BY <2>1, <2>3
  <2> QED BY <2>4, <2>5
<1>2. ASSUME NEW r \in 0..n - 1
      PROVE  \E w \in 1..m : \E i \in DOMAIN P[w] :
               /\ P[w][i] = r
               /\ \A v \in 1..m : \A j \in DOMAIN P[v] : P[v][j] = r => v = w /\ j = i
  <2>1. PICK p \in 1..n : f[p] = r
    BY DEF Listing
  <2> DEFINE T == {w \in 1..m : p <= E[w]}
  <2>2. m \in T /\ T \subseteq Nat /\ T # {}
    <3>1. m \in 1..m /\ p <= E[m]
      BY DEF Edges
    <3> QED BY <3>1
  <2>3. PICK w \in T : \A k \in T : w <= k
    BY <2>2, LeastNat
  <2>4. w \in 1..m /\ p <= E[w]
    OBVIOUS
  <2>5. E[w - 1] < p
    <3>1. CASE w = 1
      BY <3>1 DEF Edges
    <3>2. CASE w # 1
      <4>1. w - 1 \in 1..m /\ w - 1 \notin T
        BY <2>3, <2>4, <3>2
      <4>2. E[w - 1] \in 0..n
        BY <1>0, <2>4
      <4> QED BY <4>1, <4>2
    <3> QED BY <3>1, <3>2
  <2> HIDE DEF T
  <2>6. PICK i \in Nat : p = E[w - 1] + i
    <3>1. E[w - 1] \in 0..n
      BY <1>0, <2>4
    <3>2. p - E[w - 1] \in Nat /\ p = E[w - 1] + (p - E[w - 1])
      BY <2>5, <3>1
    <3> QED BY <3>2
  <2>7. i \in DOMAIN P[w] /\ P[w][i] = r
    <3>1. E[w] \in 0..n /\ E[w - 1] \in 0..n
      BY <1>0, <2>4
    <3>2. i \in 1..E[w] - E[w - 1]
      <4>1. PICK a, b \in Int : a = E[w - 1] /\ b = E[w]
        BY <3>1
      <4>2. p <= b /\ a < p /\ p = a + i
        BY <2>4, <2>5, <2>6, <4>1
      <4> QED BY <4>1, <4>2
    <3>3. i \in DOMAIN P[w]
      BY <1>0, <2>4, <3>2
    <3> QED BY <1>1, <2>1, <2>4, <2>6, <3>3
  <2>8. ASSUME NEW v \in 1..m, NEW j \in DOMAIN P[v], P[v][j] = r
        PROVE  v = w /\ j = i
    <3>1. /\ E[v - 1] + j \in 1..n /\ f[E[v - 1] + j] = r
          /\ E[v - 1] < E[v - 1] + j /\ E[v - 1] + j <= E[v]
      BY <1>1, <2>8
    <3>2. E[v - 1] + j = p
      <4>1. PICK q \in 1..n : q = E[v - 1] + j
        BY <3>1
      <4>2. f[q] = f[p]
        BY <2>1, <3>1, <4>1
      <4>3. q = p
        BY <4>2 DEF Listing
      <4> QED BY <4>1, <4>3
    <3>3. /\ E[v] \in 0..n /\ E[v - 1] \in 0..n /\ E[w] \in 0..n /\ E[w - 1] \in 0..n
          /\ v \in 0..m /\ v - 1 \in 0..m /\ w \in 0..m /\ w - 1 \in 0..m
      BY <1>0, <2>4
    <3>9. j \in Int
      <4>1. DOMAIN P[v] = 1..Len(P[v]) /\ Len(P[v]) = E[v] - E[v - 1]
        BY <1>0
      <4> QED BY <3>3, <4>1
    <3>4. ~ (v < w)
      <4>1. SUFFICES ASSUME v < w PROVE FALSE
        OBVIOUS
      <4>2. v <= w - 1
        BY <2>4, <4>1
      <4>3. E[v] <= E[w - 1]
        BY <3>3, <4>2 DEF Edges
      <4> QED BY <2>5, <3>1, <3>2, <3>3, <4>3
    <3>5. ~ (w < v)
      <4>1. SUFFICES ASSUME w < v PROVE FALSE
        OBVIOUS
      <4>2. w <= v - 1
        BY <2>4, <4>1
      <4>3. E[w] <= E[v - 1]
        BY <3>3, <4>2 DEF Edges
      <4> QED BY <2>4, <3>1, <3>2, <3>3, <4>3
    <3>6. v = w
      BY <2>4, <3>4, <3>5
    <3>7. E[w - 1] + j = E[w - 1] + i
      BY <2>6, <3>2, <3>6
    <3>8. j = i
      <4>1. PICK a \in Int : a = E[w - 1]
        BY <3>3
      <4> QED BY <3>7, <3>9, <4>1
    <3> QED BY <3>6, <3>8
  <2> QED BY <2>4, <2>7, <2>8
<1> QED BY <1>2 DEF Once, CutAt

\* A list of n different ranks has them all.
LEMMA ListingOf ==
  ASSUME NEW n \in Nat, NEW f \in [1..n -> 0..n - 1],
         \A p, q \in 1..n : f[p] = f[q] => p = q
  PROVE  Listing(f, n)
<1>1. /\ IsFiniteSet(1..n) /\ Cardinality(1..n) = n
      /\ IsFiniteSet(0..n - 1) /\ Cardinality(0..n - 1) = n
  <2>1. 1 \in Int /\ 0 \in Int /\ n \in Int /\ n - 1 \in Int
    OBVIOUS
  <2>2. /\ IsFiniteSet(1..n) /\ Cardinality(1..n) = IF 1 > n THEN 0 ELSE n - 1 + 1
        /\ IsFiniteSet(0..n - 1) /\ Cardinality(0..n - 1) = IF 0 > n - 1 THEN 0 ELSE n - 1 - 0 + 1
    BY <2>1, FS_Interval
  <2> QED BY <2>2
<1>2. f \in Injection(1..n, 0..n - 1)
  BY DEF Injection, IsInjective
<1>3. f \in Surjection(1..n, 0..n - 1)
  BY <1>1, <1>2, FS_Injection
<1>4. \A r \in 0..n - 1 : \E p \in 1..n : f[p] = r
  BY <1>3 DEF Surjection
<1> QED BY <1>4 DEF Listing

\* The edges of m almost equal intervals.
LEMMA EdgesOf ==
  ASSUME NEW n \in Nat, NEW m \in Nat, m > 0
  PROVE  Edges([k \in 0..m |-> (k * n) \div m], n, m)
<1> DEFINE E == [k \in 0..m |-> (k * n) \div m]
<1>1. ASSUME NEW j \in 0..m, NEW k \in 0..m, j <= k
      PROVE  (j * n) \div m \in Int /\ (j * n) \div m <= (k * n) \div m
  <2>1. j * n \in Int /\ k * n \in Int /\ j * n <= k * n
    <3>1. PICK d \in Nat : k = j + d
      <4>1. k - j \in Nat /\ k = j + (k - j)
        BY <1>1
      <4> QED BY <4>1
    <3>2. k * n = j * n + d * n /\ d * n \in Nat /\ j * n \in Int
      BY <3>1
    <3> QED BY <3>2
  <2> QED BY <2>1, FloorMono, FloorDiv
<1>2. (m * n) \div m = n
  BY FloorExact
<1>3. (0 * n) \div m = 0
  <2>1. PICK z \in Int : z = 0
    OBVIOUS
  <2>2. (m * z) \div m = z
    BY <2>1, FloorExact
  <2>3. 0 * n = m * z
    BY <2>1
  <2> QED BY <2>1, <2>2, <2>3
<1>4. ASSUME NEW k \in 0..m PROVE (k * n) \div m \in 0..n
  <2>1. 0 \in 0..m /\ m \in 0..m /\ 0 <= k /\ k <= m
    OBVIOUS
  <2>2. /\ (k * n) \div m \in Int /\ (0 * n) \div m <= (k * n) \div m
        /\ (k * n) \div m <= (m * n) \div m
    BY <1>1, <2>1
  <2> QED BY <1>2, <1>3, <2>2
<1>5. E \in [0..m -> 0..n]
  BY <1>4
<1>6. E[0] = 0 /\ E[m] = n
  BY <1>2, <1>3
<1>7. \A j, k \in 0..m : j <= k => E[j] <= E[k]
  BY <1>1
<1> HIDE DEF E
<1>8. Edges(E, n, m)
  BY <1>5, <1>6, <1>7 DEF Edges
<1> QED BY <1>8 DEF E

-----------------------------------------------------------------------------
(* The affine permutation *)

\* What the remainder of a sum of multiples is.
LEMMA Multiple ==
  ASSUME NEW n \in Nat, n > 0, NEW x \in Int, x % n = 0
  PROVE  \E q \in Int : x = n * q
<1>1. x = n * (x \div n) + (x % n) /\ x \div n \in Int
  OBVIOUS
<1> QED BY <1>1

LEMMA MultipleOf ==
  ASSUME NEW n \in Nat, n > 0, NEW q \in Int
  PROVE  (n * q) % n = 0
<1>1. PICK x \in Int : x = n * q
  OBVIOUS
<1>2. x = n * (x \div n) + (x % n) /\ x \div n \in Int
  OBVIOUS
<1>3. x \div n = q
  BY <1>1, FloorExact
<1>4. x = n * q + (x % n) /\ n * q \in Int /\ x % n \in Int
  BY <1>2, <1>3
<1> QED BY <1>1, <1>4

\* The same remainder means a difference that is a multiple.
LEMMA SameRemainder ==
  ASSUME NEW n \in Nat, n > 0, NEW x \in Int, NEW y \in Int, x % n = y % n
  PROVE  (x - y) % n = 0
<1>1. /\ x = n * (x \div n) + (x % n) /\ y = n * (y \div n) + (y % n)
      /\ x \div n \in Int /\ y \div n \in Int /\ x % n \in Int
  OBVIOUS
<1>2. PICK p, q, r \in Int : x = n * p + r /\ y = n * q + r
  BY <1>1
<1>3. x - y = n * (p - q)
  BY <1>2
<1>4. (n * (p - q)) % n = 0
  BY MultipleOf
<1> QED BY <1>3, <1>4

\* A multiplier without a common divisor with n loses no rank: the least positive
\* k for which n divides a * k divides n and, with it, a.
LEMMA Coprime ==
  ASSUME NEW n \in Nat, n > 0, NEW a \in Nat, a > 0,
         \A d \in 1..n : a % d = 0 /\ n % d = 0 => d = 1,
         NEW k \in 1..n, (a * k) % n = 0
  PROVE  k = n
<1> DEFINE T == {j \in 1..n : (a * j) % n = 0}
<1>1. T \subseteq Nat /\ k \in T
  OBVIOUS
<1>2. PICK g \in T : \A j \in T : g <= j
  BY <1>1, LeastNat
<1>3. g \in 1..n /\ g \in Nat /\ g > 0 /\ (a * g) % n = 0
  OBVIOUS
<1>4. ASSUME NEW j \in T PROVE j % g = 0
  <2>1. j \in 1..n /\ (a * j) % n = 0
    OBVIOUS
  <2>2. PICK q, r \in Int : j = g * q + r /\ r = j % g /\ r \in 0..g - 1
    <3>1. j = g * (j \div g) + (j % g) /\ j \div g \in Int /\ j % g \in 0..g - 1
      BY <1>3, <2>1
    <3> QED BY <3>1
  <2>3. PICK u \in Int : a * j = n * u
    <3>1. a * j \in Int
      BY <2>1
    <3> QED BY <2>1, <3>1, Multiple
  <2>4. PICK v \in Int : a * g = n * v
    <3>1. a * g \in Int
      BY <1>3
    <3> QED BY <1>3, <3>1, Multiple
  <2>5. a * r = n * (u - v * q)
    <3>1. a * j = (a * g) * q + a * r
      BY <1>3, <2>2
    <3>2. n * u = (n * v) * q + a * r
      BY <2>3, <2>4, <3>1
    <3>3. (n * v) * q = n * (v * q) /\ n * (u - v * q) = n * u - n * (v * q)
      OBVIOUS
    <3>4. n * u \in Int /\ n * (v * q) \in Int /\ a * r \in Int
      OBVIOUS
    <3> QED BY <3>2, <3>3, <3>4
  <2>6. (a * r) % n = 0
    BY <2>5, MultipleOf
  <2>7. ~ (r \in T)
    <3>1. r \in T => g <= r
      BY <1>2
    <3> QED BY <1>3, <2>2, <3>1
  <2>8. r = 0
    BY <1>3, <2>2, <2>6, <2>7
  <2> QED BY <2>2, <2>8
<1>5. n \in T
  <2>1. a * n = n * a
    OBVIOUS
  <2>2. (n * a) % n = 0
    BY MultipleOf
  <2> QED BY <2>1, <2>2
<1>6. n % g = 0 /\ k % g = 0
  BY <1>1, <1>4, <1>5
<1> HIDE DEF T
<1>7. PICK d \in Int : n = g * d
  BY <1>3, <1>6, Multiple
<1>8. d \in 1..n
  <2>1. ~ (d <= 0)
    BY <1>3, <1>7
  <2>2. ~ (d > n)
    BY <1>3, <1>7
  <2> QED BY <2>1, <2>2
<1>9. PICK c \in Int : a * g = n * c
  <2>1. a * g \in Int /\ (a * g) % n = 0
    BY <1>3
  <2> QED BY <2>1, Multiple
<1>10. a = d * c
  <2>1. g * a = g * (d * c)
    BY <1>3, <1>7, <1>9
  <2> QED BY <1>3, <1>8, <2>1
<1>11. a % d = 0 /\ n % d = 0
  <2>1. (d * c) % d = 0 /\ (d * g) % d = 0
    BY <1>3, <1>8, MultipleOf
  <2>2. n = d * g
    BY <1>3, <1>7, <1>8
  <2> QED BY <1>10, <2>1, <2>2
<1>12. d = 1
  BY <1>8, <1>11
<1>13. g = n
  BY <1>3, <1>7, <1>12
<1> QED BY <1>1, <1>2, <1>13 DEF T

\* math.gcd, as far as the loop of affine_permutation asks.
LEMMA GcdIsOne ==
  ASSUME NEW n \in Nat, n > 0, NEW a \in Nat, Alloc!Gcd(a, n) = 1
  PROVE  \A d \in 1..n : a % d = 0 /\ n % d = 0 => d = 1
<1> DEFINE D == {d \in 1..n : a % d = 0 /\ n % d = 0}
<1>1. 1 \in D
  <2>1. a % 1 = 0 /\ n % 1 = 0
    OBVIOUS
  <2> QED BY <2>1
<1>2. D \in SUBSET (0..n) /\ D # {}
  BY <1>1
<1>3. \A x \in D : x <= Max(D)
  BY <1>2, MaxFacts
<1>4. Alloc!Gcd(a, n) = Max(D)
  BY DEF Alloc!Gcd, Alloc!Max, Max
<1>5. ASSUME NEW d \in D PROVE d = 1
  <2>1. d \in 1..n /\ d <= Max(D)
    BY <1>3
  <2>2. Max(D) = 1
    BY <1>4
  <2> QED BY <2>1, <2>2
<1> QED BY <1>5

\* The permutation of affine_permutation maps 0..n - 1 onto itself.
LEMMA AffineListing ==
  ASSUME NEW n \in Nat, n > 0, NEW a \in Nat, a > 0, NEW c \in Nat, Alloc!Gcd(a, n) = 1
  PROVE  Listing([p \in 1..n |-> (a * (p - 1) + c) % n], n)
<1> DEFINE f == [p \in 1..n |-> (a * (p - 1) + c) % n]
<1>1. f \in [1..n -> 0..n - 1]
  <2>1. ASSUME NEW p \in 1..n PROVE (a * (p - 1) + c) % n \in 0..n - 1
    <3>1. a * (p - 1) + c \in Int
      OBVIOUS
    <3> QED BY <3>1
  <2> QED BY <2>1
<1>2. ASSUME NEW p \in 1..n, NEW q \in 1..n, f[p] = f[q] PROVE p <= q
  <2>1. SUFFICES ASSUME q < p PROVE FALSE
    OBVIOUS
  <2>2. PICK x, y \in Int : x = a * (p - 1) + c /\ y = a * (q - 1) + c
    OBVIOUS
  <2>3. (x - y) % n = 0
    BY <1>2, <2>2, SameRemainder
  <2>4. PICK k \in 1..n : k = p - q
    BY <2>1
  <2>5. x - y = a * k
    BY <2>2, <2>4
  <2>6. k = n
    BY <2>3, <2>5, GcdIsOne, Coprime
  <2> QED BY <2>4, <2>6
<1>3. \A p, q \in 1..n : f[p] = f[q] => p = q
  BY <1>2
<1> HIDE DEF f
<1>4. Listing(f, n)
  BY <1>1, <1>3, ListingOf
<1> QED BY <1>4 DEF f

-----------------------------------------------------------------------------
\* What is known of a schema, which the constructor has accepted: it has a record,
\* the intervals of the root's branches follow one another and end at the count
\* (pdrs_v2.py 397-407), and ranks have finitely many features.
MeasuredSchema(s) ==
  /\ s.count \in Nat \ {0}
  /\ s.intervals \in Seq(SUBSET (0..s.count - 1)) /\ Len(s.intervals) > 0
  /\ \A i, k \in DOMAIN s.intervals : i # k => s.intervals[i] \cap s.intervals[k] = {}
  /\ \A r \in 0..s.count - 1 : \E i \in DOMAIN s.intervals : r \in s.intervals[i]
  /\ s.boundary \subseteq 0..s.count - 1
  /\ \A r \in 0..s.count - 1 : IsFiniteSet(s.features[r])

AllocationAssumption ==
  /\ \A s \in Schemas : MeasuredSchema(s)
  /\ Budgets \subseteq Nat
  /\ Window \in Nat \ {0}

Hired == schema.count \in Nat /\ schema.count > 0 /\ workers \in Nat /\ workers > 0

LEMMA SequenceOf ==
  ASSUME NEW S, NEW n \in Nat, NEW f \in [1..n -> S]
  PROVE  f \in Seq(S) /\ Len(f) = n
OBVIOUS

LEMMA Piece ==
  ASSUME NEW S, NEW n \in Nat, NEW f \in [1..n -> S], NEW a \in 0..n, NEW b \in 0..n, a <= b
  PROVE  /\ SubSeq(f, a + 1, b) \in Seq(S)
         /\ Len(SubSeq(f, a + 1, b)) = b - a
         /\ \A i \in 1..b - a : SubSeq(f, a + 1, b)[i] = f[a + i]
<1>1. f \in Seq(S) /\ Len(f) = n
  BY SequenceOf
<1>2. \A i \in a + 1..b : f[i] \in S
  OBVIOUS
<1> QED BY <1>1, <1>2

\* The sequences of Cut lie between the edges.
LEMMA CutsAreCut ==
  ASSUME Hired, NEW f, Listing(f, schema.count)
  PROVE  Once([w \in 1..workers |-> Alloc!Cut(f, w)], workers, schema.count)
<1> DEFINE n == schema.count
           m == workers
           E == [k \in 0..m |-> (k * n) \div m]
           P == [w \in 1..m |-> Alloc!Cut(f, w)]
<1>1. n \in Nat /\ n > 0 /\ m \in Nat /\ m > 0
  BY DEF Hired
<1>2. Edges(E, n, m)
  BY <1>1, EdgesOf
<1>3. f \in [1..n -> 0..n - 1] /\ Listing(f, n)
  BY DEF Listing
<1>4. ASSUME NEW w \in 1..m
      PROVE  /\ P[w] \in Seq(0..n - 1)
             /\ Len(P[w]) = E[w] - E[w - 1]
             /\ \A i \in 1..Len(P[w]) : P[w][i] = f[E[w - 1] + i]
  <2>1. w \in 0..m /\ w - 1 \in 0..m /\ w - 1 <= w
    BY <1>1
  <2>2. E[w - 1] = ((w - 1) * n) \div m /\ E[w] = (w * n) \div m
    BY <2>1
  <2>3. P[w] = SubSeq(f, E[w - 1] + 1, E[w])
    BY <2>2 DEF Alloc!Cut, Alloc!N
  <2> HIDE DEF E, P
  <2>4. PICK a, b \in 0..n : a = E[w - 1] /\ b = E[w] /\ a <= b
    BY <1>2, <2>1 DEF Edges
  <2> HIDE DEF n, m
  <2>6. /\ SubSeq(f, a + 1, b) \in Seq(0..n - 1)
        /\ Len(SubSeq(f, a + 1, b)) = b - a
        /\ \A i \in 1..b - a : SubSeq(f, a + 1, b)[i] = f[a + i]
    <3>1. PICK k \in Nat : k = n
      BY <1>1
    <3> DEFINE S == 0..n - 1
    <3> HIDE DEF S
    <3>2. f \in [1..k -> S] /\ a \in 0..k /\ b \in 0..k /\ a <= b
      BY <1>3, <2>4, <3>1 DEF S
    <3>3. /\ SubSeq(f, a + 1, b) \in Seq(S)
          /\ Len(SubSeq(f, a + 1, b)) = b - a
          /\ \A i \in 1..b - a : SubSeq(f, a + 1, b)[i] = f[a + i]
      BY <3>2, Piece
    <3> QED BY <3>1, <3>3 DEF S
  <2> QED BY <2>3, <2>4, <2>6
<1>5. P \in [1..m -> Seq(0..n - 1)]
  BY <1>4
<1> HIDE DEF n, m, E, P
<1>6. CutAt(P, f, E, n, m)
  BY <1>4, <1>5 DEF CutAt
<1>7. Once(P, m, n)
  BY <1>1, <1>2, <1>3, <1>6, OnceCut
<1> QED BY <1>7 DEF P, m, n

LEMMA ContiguousOnce ==
  ASSUME Hired
  PROVE  Once(Alloc!Contiguous, workers, schema.count)
<1> DEFINE n == schema.count
           f == [i \in 1..n |-> i - 1]
<1>1. f \in [1..n -> 0..n - 1] /\ \A p, q \in 1..n : f[p] = f[q] => p = q
  BY DEF Hired
<1>2. n \in Nat
  BY DEF Hired
<1>3. Listing(f, n)
  BY <1>1, <1>2, ListingOf
<1>4. Alloc!InOrder = f
  BY DEF Alloc!InOrder, Alloc!N
<1> HIDE DEF f
<1>5. Once([w \in 1..workers |-> Alloc!Cut(f, w)], workers, n)
  BY <1>3, CutsAreCut
<1> QED BY <1>4, <1>5 DEF Alloc!Contiguous

LEMMA CentralOnce ==
  ASSUME Hired, NEW order \in Alloc!SetToSeqs(Alloc!Ranks)
  PROVE  Once(Alloc!Central(order), workers, schema.count)
<1>1. schema.count \in Nat
  BY DEF Hired
<1>2. Alloc!Cardinality(Alloc!Ranks) = schema.count
  <2>1. PICK n \in Nat : n = schema.count
    BY <1>1
  <2>2. Cardinality(0..n - 1) = n
    <3>1. PICK z \in Int : z = 0
      OBVIOUS
    <3>2. Cardinality(z..n - 1) = IF z > n - 1 THEN 0 ELSE n - 1 - z + 1
      BY FS_Interval
    <3> QED BY <3>1, <3>2
  <2>3. Alloc!Cardinality(0..n - 1) = Cardinality(0..n - 1)
    BY DEF Alloc!Cardinality, Cardinality
  <2> QED BY <2>1, <2>2, <2>3 DEF Alloc!Ranks, Alloc!N
<1>3. /\ order \in [1..schema.count -> 0..schema.count - 1]
      /\ \A p, q \in 1..schema.count : order[p] = order[q] => p = q
  BY <1>2 DEF Alloc!SetToSeqs, Alloc!Ranks, Alloc!N
<1>4. Listing(order, schema.count)
  BY <1>1, <1>3, ListingOf
<1> QED BY <1>4, CutsAreCut DEF Alloc!Central

LEMMA PermutedOnce ==
  ASSUME Hired, NEW offset \in Alloc!Ranks, multiplier \in Nat, multiplier > 0,
         Alloc!Gcd(multiplier, schema.count) = 1
  PROVE  Once(Alloc!Permuted(offset), workers, schema.count)
<1> DEFINE n == schema.count
           m == workers
           a == multiplier
           E == [k \in 0..m |-> (k * n) \div m]
           f == [p \in 1..n |-> (a * (p - 1) + offset) % n]
           P == Alloc!Permuted(offset)
           Q == Alloc!Contiguous
<1>1. n \in Nat /\ n > 0 /\ m \in Nat /\ m > 0 /\ offset \in Nat /\ a \in Nat /\ a > 0
  BY DEF Hired, Alloc!Ranks, Alloc!N
<1>2. Listing(f, n)
  BY <1>1, AffineListing
<1>3. Edges(E, n, m)
  BY <1>1, EdgesOf
<1>4. ASSUME NEW w \in 1..m
      PROVE  /\ P[w] \in Seq(0..n - 1)
             /\ Len(P[w]) = E[w] - E[w - 1]
             /\ \A i \in 1..Len(P[w]) : P[w][i] = f[E[w - 1] + i]
  <2>1. w \in 0..m /\ w - 1 \in 0..m /\ w - 1 <= w
    BY <1>1
  <2>2. E[w - 1] = ((w - 1) * n) \div m /\ E[w] = (w * n) \div m
    BY <2>1
  <2>3. Q[w] = SubSeq([i \in 1..n |-> i - 1], E[w - 1] + 1, E[w])
    BY <2>2 DEF Alloc!Contiguous, Alloc!Cut, Alloc!InOrder, Alloc!N
  <2>4. P[w] = [i \in DOMAIN Q[w] |-> (a * Q[w][i] + offset) % n]
    BY DEF Alloc!Permuted, Alloc!N
  <2>5. f \in [1..n -> 0..n - 1] /\ \A p \in 1..n : f[p] = (a * (p - 1) + offset) % n
    BY <1>2 DEF Listing
  <2> HIDE DEF E, P, Q, f
  <2>6. PICK x, y \in 0..n : x = E[w - 1] /\ y = E[w] /\ x <= y
    BY <1>3, <2>1 DEF Edges
  <2> HIDE DEF n, m, a
  <2>7. [i \in 1..n |-> i - 1] \in [1..n -> Int]
    BY <1>1
  <2>8. /\ Len(Q[w]) = y - x /\ DOMAIN Q[w] = 1..y - x
        /\ \A i \in 1..y - x : Q[w][i] = x + i - 1
    <3>1. PICK s : s = [i \in 1..n |-> i - 1] /\ s \in [1..n -> Int]
      BY <2>7
    <3>2. /\ Len(SubSeq(s, x + 1, y)) = y - x /\ SubSeq(s, x + 1, y) \in Seq(Int)
          /\ \A i \in 1..y - x : SubSeq(s, x + 1, y)[i] = s[x + i]
      <4>1. PICK k \in Nat : k = n
        BY <1>1
      <4> DEFINE S == Int
      <4> HIDE DEF S
      <4>2. s \in [1..k -> S] /\ x \in 0..k /\ y \in 0..k /\ x <= y
        BY <2>6, <3>1, <4>1 DEF S
      <4>3. /\ SubSeq(s, x + 1, y) \in Seq(S)
            /\ Len(SubSeq(s, x + 1, y)) = y - x
            /\ \A i \in 1..y - x : SubSeq(s, x + 1, y)[i] = s[x + i]
        BY <4>2, Piece
      <4> QED BY <4>1, <4>3 DEF S
    <3>3. \A i \in 1..y - x : s[x + i] = x + i - 1
      <4>1. ASSUME NEW i \in 1..y - x PROVE s[x + i] = x + i - 1
        <5>1. x + i \in 1..n
          BY <1>1, <2>6
        <5> QED BY <3>1, <5>1
      <4> QED BY <4>1
    <3>4. Q[w] = SubSeq(s, x + 1, y)
      BY <2>3, <2>6, <3>1
    <3>5. DOMAIN SubSeq(s, x + 1, y) = 1..y - x
      BY <3>2
    <3> QED BY <3>2, <3>3, <3>4, <3>5
  <2>9. ASSUME NEW i \in 1..y - x
        PROVE  x + i \in 1..n /\ P[w][i] = f[x + i] /\ P[w][i] \in 0..n - 1
    <3>1. x + i \in 1..n
      BY <1>1, <2>6
    <3>2. P[w][i] = (a * (x + i - 1) + offset) % n
      BY <2>4, <2>8
    <3>3. f[x + i] = (a * (x + i - 1) + offset) % n /\ f[x + i] \in 0..n - 1
      BY <2>5, <3>1
    <3> QED BY <3>1, <3>2, <3>3
  <2>10. P[w] \in [1..y - x -> 0..n - 1]
    BY <2>4, <2>8, <2>9
  <2>11. y - x \in Nat
    BY <1>1, <2>6
  <2>12. P[w] \in Seq(0..n - 1) /\ Len(P[w]) = y - x
    BY <2>10, <2>11, SequenceOf
  <2> QED BY <2>6, <2>9, <2>12
<1>5. P \in [1..m -> Seq(0..n - 1)]
  BY <1>4 DEF Alloc!Permuted
<1> HIDE DEF n, m, a, E, f, P, Q
<1>6. CutAt(P, f, E, n, m)
  BY <1>4, <1>5 DEF CutAt
<1>7. Once(P, m, n)
  BY <1>1, <1>2, <1>3, <1>6, OnceCut
<1> QED BY <1>7 DEF P, m, n

LEMMA Remainder ==
  ASSUME NEW b \in Nat, NEW n \in Nat, n > 0
  PROVE  b \div n \in Nat /\ b % n \in Nat /\ b % n < n /\ b = n * (b \div n) + (b % n)
<1>1. b = n * (b \div n) + (b % n) /\ b \div n \in Int /\ b % n \in 0..n - 1
  OBVIOUS
<1>2. ~ (b \div n < 0)
  <2>1. SUFFICES ASSUME b \div n < 0 PROVE FALSE
    OBVIOUS
  <2>2. n * (b \div n) + n <= n * 0
    BY <1>1, <2>1, StepUp
  <2>3. PICK e \in Int : e = n * (b \div n)
    BY <1>1
  <2> QED BY <1>1, <2>2, <2>3
<1> QED BY <1>1, <1>2

LEMMA StridedOnce ==
  ASSUME Hired
  PROVE  Once(Alloc!Strided, workers, schema.count)
<1> DEFINE P == Alloc!Strided
<1>1. PICK n \in Nat : n = schema.count
  BY DEF Hired
<1>2. PICK m \in Nat : m = workers /\ m > 0
  BY DEF Hired
<1> DEFINE L(w) == (n - w + m) \div m
<1>3. P = [w \in 1..m |-> [i \in 1..L(w) |-> (w - 1) + (i - 1) * m]]
  BY <1>1, <1>2 DEF Alloc!Strided, Alloc!N
<1>4. ASSUME NEW w \in 1..m
      PROVE  L(w) \in Nat /\ m * L(w) <= n - w + m /\ n - w < m * L(w)
  <2>1. n - w + m \in Int
    BY <1>2
  <2>2. L(w) \in Int /\ m * L(w) <= n - w + m /\ n - w + m < m * L(w) + m
    BY <1>2, <2>1, FloorDiv
  <2> HIDE DEF L
  <2>3. n - w < m * L(w)
    <3>1. PICK e \in Int : e = m * L(w)
      BY <2>2
    <3> QED BY <2>2, <3>1
  <2>4. ~ (L(w) < 0)
    <3>1. SUFFICES ASSUME L(w) < 0 PROVE FALSE
      OBVIOUS
    <3>2. m * L(w) + m <= m * 0
      BY <2>2, <3>1, StepUp
    <3>3. PICK e \in Int : e = m * L(w)
      BY <2>2
    <3>4. e + m <= 0
      BY <3>2, <3>3
    <3> QED BY <1>2, <2>3, <3>3, <3>4
  <2> QED BY <2>2, <2>3, <2>4
<1> HIDE DEF L, P
\* i is a place of worker w exactly when the rank there is below n.
<1>5. ASSUME NEW w \in 1..m, NEW i \in Nat, i > 0
      PROVE  i <= L(w) <=> (w - 1) + (i - 1) * m < n
  <2>1. PICK e \in Int : e = (i - 1) * m
    OBVIOUS
  <2>2. PICK d \in Int : d = m * L(w)
    BY <1>4
  <2>3. ASSUME i <= L(w) PROVE (w - 1) + e < n
    <3>1. i - 1 < L(w)
      BY <1>4, <2>3
    <3>2. m * (i - 1) + m <= m * L(w)
      BY <1>4, <3>1, StepUp
    <3>3. m * (i - 1) = e
      BY <2>1
    <3> QED BY <1>2, <1>4, <2>2, <3>2, <3>3
  <2>4. ASSUME ~ (i <= L(w)) PROVE ~ ((w - 1) + e < n)
    <3>1. L(w) <= i - 1
      BY <1>4, <2>4
    <3>2. CASE L(w) = i - 1
      <4>1. d = e
        BY <2>1, <2>2, <3>2
      <4> QED BY <1>2, <1>4, <2>2, <4>1
    <3>3. CASE L(w) < i - 1
      <4>1. m * L(w) + m <= m * (i - 1)
        BY <1>4, <3>3, StepUp
      <4>2. m * (i - 1) = e
        BY <2>1
      <4> QED BY <1>2, <1>4, <2>2, <4>1, <4>2
    <3> QED BY <1>4, <3>1, <3>2, <3>3
  <2> QED BY <2>1, <2>3, <2>4
<1>6. ASSUME NEW w \in 1..m
      PROVE  /\ P[w] \in Seq(0..n - 1) /\ DOMAIN P[w] = 1..L(w)
             /\ \A i \in 1..L(w) : P[w][i] = (w - 1) + (i - 1) * m
  <2>1. P[w] = [i \in 1..L(w) |-> (w - 1) + (i - 1) * m]
    BY <1>3
  <2>2. ASSUME NEW i \in 1..L(w) PROVE (w - 1) + (i - 1) * m \in 0..n - 1
    <3>1. i \in Nat /\ i > 0 /\ i <= L(w)
      BY <1>4
    <3>2. (w - 1) + (i - 1) * m < n
      BY <1>5, <3>1
    <3>3. (i - 1) * m \in Nat
      BY <1>2, <3>1
    <3> QED BY <1>1, <3>2, <3>3
  <2>3. P[w] \in [1..L(w) -> 0..n - 1]
    BY <2>1, <2>2
  <2>4. P[w] \in Seq(0..n - 1)
    BY <1>4, <2>3, SequenceOf
  <2> QED BY <2>1, <2>4
<1>7. P \in [1..m -> Seq(0..n - 1)]
  BY <1>3, <1>6
<1>8. ASSUME NEW r \in 0..n - 1
      PROVE  \E w \in 1..m : \E i \in DOMAIN P[w] :
               /\ P[w][i] = r
               /\ \A v \in 1..m : \A j \in DOMAIN P[v] : P[v][j] = r => v = w /\ j = i
  <2>1. /\ r = m * (r \div m) + (r % m) /\ r \div m \in Int /\ r % m \in 0..m - 1
        /\ r \div m >= 0
    BY <1>2, Remainder
  <2>3. PICK w \in 1..m : w = (r % m) + 1
    BY <1>2, <2>1
  <2>4. PICK i \in Nat : i = (r \div m) + 1 /\ i > 0
    BY <2>1
  <2>5. r = (w - 1) + (i - 1) * m
    BY <1>2, <2>1, <2>3, <2>4
  <2>6. i \in 1..L(w)
    BY <1>4, <1>5, <2>4, <2>5
  <2>7. i \in DOMAIN P[w] /\ P[w][i] = r
    BY <1>6, <2>5, <2>6
  <2>8. ASSUME NEW v \in 1..m, NEW j \in DOMAIN P[v], P[v][j] = r
        PROVE  v = w /\ j = i
    <3>1. j \in 1..L(v) /\ r = (v - 1) + (j - 1) * m
      BY <1>6, <2>8
    <3>2. j \in Nat /\ j > 0
      BY <1>4, <3>1
    <3>3. PICK e, d \in Int : e = m * (i - 1) /\ d = m * (j - 1)
      BY <3>2
    <3>4. (v - 1) + d = (w - 1) + e
      BY <2>5, <3>1, <3>2, <3>3
    <3>5. ~ (i - 1 < j - 1)
      <4>1. SUFFICES ASSUME i - 1 < j - 1 PROVE FALSE
        OBVIOUS
      <4>2. e + m <= d
        BY <3>2, <3>3, <4>1, StepUp
      <4> QED BY <1>2, <3>4, <4>2
    <3>6. ~ (j - 1 < i - 1)
      <4>1. SUFFICES ASSUME j - 1 < i - 1 PROVE FALSE
        OBVIOUS
      <4>2. d + m <= e
        BY <3>2, <3>3, <4>1, StepUp
      <4> QED BY <1>2, <3>4, <4>2
    <3>7. j = i
      BY <3>2, <3>5, <3>6
    <3> QED BY <1>2, <3>3, <3>4, <3>7
  <2> QED BY <2>7, <2>8
<1>9. Once(P, m, n)
  BY <1>7, <1>8 DEF Once
<1> QED BY <1>1, <1>2, <1>9 DEF P

-----------------------------------------------------------------------------
(* Samples and lists *)

Elements(s) == {s[i] : i \in DOMAIN s}
Different(s) == \A i, j \in DOMAIN s : s[i] = s[j] => i = j

LEMMA SameNames ==
  /\ \A S : Alloc!Cardinality(S) = Cardinality(S)
  /\ \A s : Alloc!ToSet(s) = Elements(s)
  /\ \A s : Alloc!IsInjective(s) <=> Different(s)
<1>1. \A S : Alloc!Cardinality(S) = Cardinality(S)
  BY DEF Alloc!Cardinality, Cardinality
<1>2. \A s : Alloc!ToSet(s) = Elements(s)
  BY DEF Alloc!ToSet, Elements
<1>3. \A s : Alloc!IsInjective(s) <=> Different(s)
  BY DEF Alloc!IsInjective, Different
<1> QED BY <1>1, <1>2, <1>3

LEMMA LesserOf ==
  ASSUME NEW a \in Int, NEW b \in Int
  PROVE  Alloc!Min({a, b}) = IF a <= b THEN a ELSE b
<1>1. CASE a <= b
  <2>1. \A y \in {a, b} : a =< y
    BY <1>1
  <2>2. \A x \in {a, b} : (\A y \in {a, b} : x =< y) => x = a
    BY <1>1
  <2> QED BY <1>1, <2>1, <2>2 DEF Alloc!Min
<1>2. CASE ~ (a <= b)
  <2>1. \A y \in {a, b} : b =< y
    BY <1>2
  <2>2. \A x \in {a, b} : (\A y \in {a, b} : x =< y) => x = b
    BY <1>2
  <2> QED BY <1>2, <2>1, <2>2 DEF Alloc!Min
<1> QED BY <1>1, <1>2

LEMMA LeastOf ==
  ASSUME NEW T, T \subseteq Nat, T # {}
  PROVE  Alloc!Min(T) \in T
<1>1. \E m \in T : \A k \in T : m =< k
  BY LeastNat
<1> QED BY <1>1 DEF Alloc!Min

\* rng.shuffle: a set as a list.
LEMMA ShuffledSet ==
  ASSUME NEW S, IsFiniteSet(S), NEW order \in Alloc!SetToSeqs(S)
  PROVE  /\ order \in Seq(S) /\ Len(order) = Cardinality(S)
         /\ Different(order) /\ Elements(order) = S
<1> DEFINE n == Cardinality(S)
<1>1. n \in Nat
  BY FS_CardinalityType
<1>2. /\ order \in [1..n -> S]
      /\ \A i, j \in 1..n : i # j => order[i] # order[j]
  BY SameNames DEF Alloc!SetToSeqs
<1> HIDE DEF n
<1>3. order \in Seq(S) /\ Len(order) = n
  BY <1>1, <1>2, SequenceOf
<1>4. Different(order)
  BY <1>2 DEF Different
<1>5. IsFiniteSet(1..n) /\ Cardinality(1..n) = n
  <2>1. PICK o \in Int : o = 1
    OBVIOUS
  <2>2. IsFiniteSet(o..n) /\ Cardinality(o..n) = IF o > n THEN 0 ELSE n - o + 1
    BY <1>1, FS_Interval
  <2> QED BY <1>1, <2>1, <2>2
<1>6. order \in Injection(1..n, S)
  BY <1>2, <1>4 DEF Injection, IsInjective, Different
<1>7. order \in Surjection(1..n, S)
  BY <1>5, <1>6, FS_Injection DEF n
<1>8. Elements(order) = S
  BY <1>2, <1>7 DEF Elements, Surjection
<1> QED BY <1>3, <1>4, <1>8 DEF n

\* One round of Floyd's loop adds one rank, and none above n - k.
LEMMA FloydRound ==
  ASSUME NEW n \in Nat, NEW k \in 1..n, NEW S \in SUBSET (0..n - k - 1), IsFiniteSet(S),
         NEW c \in 0..n - k
  PROVE  LET T == Alloc!FloydAdd(S, n - k, c)
         IN  T \subseteq 0..n - (k - 1) - 1 /\ IsFiniteSet(T) /\ Cardinality(T) = Cardinality(S) + 1
<1> DEFINE x == IF c \in S THEN n - k ELSE c
           T == S \cup {x}
<1>1. x \in 0..n - k
  OBVIOUS
<1>2. x \notin S
  <2>1. n - k \notin 0..n - k - 1
    OBVIOUS
  <2> QED BY <2>1
<1>3. S \subseteq 0..n - k
  OBVIOUS
<1> HIDE DEF x
<1>4. T \subseteq 0..n - k
  BY <1>1, <1>3
<1>5. n - (k - 1) - 1 = n - k
  OBVIOUS
<1>6. IsFiniteSet(T) /\ Cardinality(T) = Cardinality(S) + 1
  BY <1>2, FS_AddElement
<1>7. Alloc!FloydAdd(S, n - k, c) = T
  BY DEF Alloc!FloydAdd, x
<1> HIDE DEF T
<1> QED BY <1>4, <1>5, <1>6, <1>7

\* One of finitely many numbers is the largest.
LEMMA Largest ==
  ASSUME NEW k \in Nat, k > 0, NEW F, \A i \in 1..k : F[i] \in Nat
  PROVE  \E i \in 1..k : \A j \in 1..k : F[j] <= F[i]
<1> DEFINE S == {m \in 0..k - 1 : \E i \in 1..m + 1 : \A j \in 1..m + 1 : F[j] <= F[i]}
<1>0. k - 1 \in Nat
  OBVIOUS
<1>1. 0 \in S
  <2>1. 1 \in 1..0 + 1 /\ \A j \in 1..0 + 1 : F[j] <= F[1]
    <3>1. F[1] \in Nat /\ 1..0 + 1 = {1}
      OBVIOUS
    <3> QED BY <3>1
  <2> QED BY <1>0, <2>1
<1>2. ASSUME NEW m \in 0..(k - 1) - 1, m \in S PROVE m + 1 \in S
  <2>1. PICK i \in 1..m + 1 : \A j \in 1..m + 1 : F[j] <= F[i]
    BY <1>2
  <2>2. /\ i \in 1..k /\ m + 2 \in 1..k /\ F[i] \in Nat /\ F[m + 2] \in Nat
        /\ \A j \in 1..(m + 1) + 1 : j \in 1..m + 1 \/ j = m + 2
        /\ \A j \in 1..m + 1 : F[j] \in Nat
    <3>1. i \in 1..k /\ m + 2 \in 1..k /\ \A j \in 1..m + 1 : j \in 1..k
      OBVIOUS
    <3> QED BY <3>1
  <2>3. CASE F[m + 2] <= F[i]
    <3>1. \A j \in 1..(m + 1) + 1 : F[j] <= F[i]
      BY <2>1, <2>2, <2>3
    <3>2. i \in 1..(m + 1) + 1
      OBVIOUS
    <3> QED BY <3>1, <3>2
  <2>4. CASE ~ (F[m + 2] <= F[i])
    <3>1. \A j \in 1..m + 1 : F[j] <= F[m + 2]
      BY <2>1, <2>2, <2>4
    <3>2. \A j \in 1..(m + 1) + 1 : F[j] <= F[m + 2]
      BY <2>2, <3>1
    <3>3. m + 2 \in 1..(m + 1) + 1
      OBVIOUS
    <3> QED BY <3>2, <3>3
  <2> QED BY <2>3, <2>4
<1> HIDE DEF S
<1>3. k - 1 \in S
  <2>1. \A m \in 0..k - 1 : m \in S
    BY <1>0, <1>1, <1>2, Upwards
  <2> QED BY <1>0, <2>1
<1>4. (k - 1) + 1 = k
  OBVIOUS
<1> QED BY <1>3, <1>4 DEF S

\* candidates.pop(i)
LEMMA Popped ==
  ASSUME NEW S, NEW s \in Seq(S), Different(s), NEW i \in 1..Len(s)
  PROVE  LET t == Alloc!RemoveAt(s, i)
         IN  /\ t \in Seq(S) /\ Len(t) = Len(s) - 1
             /\ Different(t) /\ Elements(t) = Elements(s) \ {s[i]}
<1>1. PICK n \in Nat : n = Len(s) /\ DOMAIN s = 1..n /\ s \in [1..n -> S]
  BY DEF Seq
<1>2. i \in 1..n
  BY <1>1
<1> DEFINE a == SubSeq(s, 1, i - 1)
           b == SubSeq(s, i + 1, Len(s))
           t == a \o b
<1>3. /\ a \in Seq(S) /\ Len(a) = i - 1 /\ \A j \in 1..i - 1 : a[j] = s[j]
  <2>1. PICK x, y \in 0..n : x = 0 /\ y = i - 1 /\ x <= y
    BY <1>1, <1>2
  <2>2. /\ SubSeq(s, x + 1, y) \in Seq(S) /\ Len(SubSeq(s, x + 1, y)) = y - x
        /\ \A j \in 1..y - x : SubSeq(s, x + 1, y)[j] = s[x + j]
    BY <1>1, <2>1, Piece
  <2> QED BY <1>2, <2>1, <2>2
<1>4. /\ b \in Seq(S) /\ Len(b) = n - i /\ \A j \in 1..n - i : b[j] = s[i + j]
  <2>1. PICK x, y \in 0..n : x = i /\ y = n /\ x <= y
    <3>1. i \in 0..n /\ n \in 0..n /\ i <= n
      BY <1>2
    <3> QED BY <3>1
  <2>2. /\ SubSeq(s, x + 1, y) \in Seq(S) /\ Len(SubSeq(s, x + 1, y)) = y - x
        /\ \A j \in 1..y - x : SubSeq(s, x + 1, y)[j] = s[x + j]
    <3>1. s \in [1..n -> S]
      BY <1>1
    <3> QED BY <2>1, <3>1, Piece
  <2> QED BY <1>1, <1>2, <2>1, <2>2
<1> HIDE DEF a, b
<1>5. /\ t \in Seq(S) /\ Len(t) = n - 1 /\ DOMAIN t = 1..n - 1
      /\ \A j \in 1..n - 1 : t[j] = IF j <= i - 1 THEN s[j] ELSE s[j + 1]
  <2>1. t \in Seq(S) /\ Len(t) = Len(a) + Len(b)
    BY <1>3, <1>4
  <2>2. Len(t) = n - 1
    BY <1>2, <1>3, <1>4, <2>1
  <2>3. DOMAIN t = 1..n - 1
    BY <2>1, <2>2
  <2>4. ASSUME NEW j \in 1..n - 1 PROVE t[j] = IF j <= i - 1 THEN s[j] ELSE s[j + 1]
    <3>1. CASE j <= i - 1
      <4>1. t[j] = a[j]
        BY <1>2, <1>3, <1>4, <3>1
      <4> QED BY <1>2, <1>3, <3>1, <4>1
    <3>2. CASE ~ (j <= i - 1)
      <4>1. PICK k \in 1..n - i : k = j - (i - 1)
        BY <1>2, <3>2
      <4>2. t[j] = b[k]
        <5>1. j > Len(a) /\ j <= Len(a) + Len(b) /\ j - Len(a) = k
          BY <1>2, <1>3, <1>4, <3>2, <4>1
        <5> QED BY <1>3, <1>4, <5>1
      <4>3. b[k] = s[i + k] /\ i + k = j + 1
        BY <1>2, <1>4, <4>1
      <4> QED BY <3>2, <4>2, <4>3
    <3> QED BY <3>1, <3>2
  <2> QED BY <2>1, <2>2, <2>3, <2>4
<1>6. t = Alloc!RemoveAt(s, i)
  BY DEF Alloc!RemoveAt, a, b
<1> HIDE DEF t
<1>7. Different(t)
  <2>1. SUFFICES ASSUME NEW j \in 1..n - 1, NEW k \in 1..n - 1, t[j] = t[k] PROVE j = k
    BY <1>5 DEF Different
  <2> DEFINE At(x) == IF x <= i - 1 THEN x ELSE x + 1
  <2>2. /\ At(j) \in 1..n /\ At(k) \in 1..n /\ t[j] = s[At(j)] /\ t[k] = s[At(k)]
    BY <1>2, <1>5
  <2>3. At(j) = At(k)
    BY <1>1, <2>1, <2>2 DEF Different
  <2> QED BY <1>2, <2>3
<1>8. Elements(t) = Elements(s) \ {s[i]}
  <2>1. ASSUME NEW x \in Elements(t) PROVE x \in Elements(s) \ {s[i]}
    <3>1. PICK j \in 1..n - 1 : x = t[j]
      BY <1>5 DEF Elements
    <3>2. PICK k \in 1..n : k = (IF j <= i - 1 THEN j ELSE j + 1) /\ k # i
      BY <1>2
    <3>3. x = s[k]
      BY <1>5, <3>1, <3>2
    <3>4. s[k] # s[i]
      BY <1>1, <1>2, <3>2 DEF Different
    <3> QED BY <1>1, <3>3, <3>4 DEF Elements
  <2>2. ASSUME NEW x \in Elements(s) \ {s[i]} PROVE x \in Elements(t)
    <3>1. PICK k \in 1..n : x = s[k] /\ k # i
      BY <1>1 DEF Elements
    <3>2. PICK j \in 1..n - 1 : k = IF j <= i - 1 THEN j ELSE j + 1
      <4>1. CASE k < i
        <5>1. k \in 1..n - 1 /\ k <= i - 1
          BY <1>2, <4>1
        <5> QED BY <5>1
      <4>2. CASE k > i
        <5>1. k - 1 \in 1..n - 1 /\ ~ (k - 1 <= i - 1) /\ k = (k - 1) + 1
          BY <1>2, <4>2
        <5> QED BY <5>1
      <4> QED BY <1>2, <3>1, <4>1, <4>2
    <3>3. x = t[j]
      BY <1>5, <3>1, <3>2
    <3> QED BY <1>5, <3>3 DEF Elements
  <2> QED BY <2>1, <2>2
<1> QED BY <1>1, <1>5, <1>6, <1>7, <1>8

LEMMA Appended ==
  ASSUME NEW S, NEW s \in Seq(S), Different(s), NEW x \in S, x \notin Elements(s)
  PROVE  LET t == Append(s, x)
         IN  /\ t \in Seq(S) /\ Len(t) = Len(s) + 1
             /\ Different(t) /\ Elements(t) = Elements(s) \cup {x}
<1> DEFINE t == Append(s, x)
<1>1. PICK n \in Nat : n = Len(s) /\ DOMAIN s = 1..n
  OBVIOUS
<1>2. /\ t \in Seq(S) /\ Len(t) = n + 1 /\ DOMAIN t = 1..n + 1
      /\ t[n + 1] = x /\ \A j \in 1..n : t[j] = s[j]
  <2>1. /\ t \in Seq(S) /\ Len(t) = Len(s) + 1 /\ t[Len(s) + 1] = x
        /\ \A j \in 1..Len(s) : t[j] = s[j]
    BY AppendProperties
  <2>2. DOMAIN t = 1..Len(t)
    BY <2>1
  <2> QED BY <1>1, <2>1, <2>2
<1> HIDE DEF t
<1>3. \A j \in 1..n : s[j] # x
  BY <1>1 DEF Elements
<1>4. Different(t)
  <2>1. SUFFICES ASSUME NEW j \in 1..n + 1, NEW k \in 1..n + 1, t[j] = t[k] PROVE j = k
    BY <1>2 DEF Different
  <2>2. (j \in 1..n \/ j = n + 1) /\ (k \in 1..n \/ k = n + 1)
    OBVIOUS
  <2> QED BY <1>1, <1>2, <1>3, <2>1, <2>2 DEF Different
<1>5. Elements(t) = Elements(s) \cup {x}
  <2>1. ASSUME NEW y \in Elements(t) PROVE y \in Elements(s) \cup {x}
    <3>1. PICK j \in 1..n + 1 : y = t[j]
      BY <1>2 DEF Elements
    <3>2. j \in 1..n \/ j = n + 1
      OBVIOUS
    <3> QED BY <1>1, <1>2, <3>1, <3>2 DEF Elements
  <2>2. ASSUME NEW y \in Elements(s) PROVE y \in Elements(t)
    <3>1. PICK j \in 1..n : y = s[j]
      BY <1>1 DEF Elements
    <3>2. j \in 1..n + 1
      OBVIOUS
    <3> QED BY <1>2, <3>1, <3>2 DEF Elements
  <2>3. x \in Elements(t)
    <3>1. n + 1 \in 1..n + 1
      OBVIOUS
    <3> QED BY <1>2, <3>1 DEF Elements
  <2> QED BY <2>1, <2>2, <2>3
<1> QED BY <1>1, <1>2, <1>4, <1>5 DEF t

-----------------------------------------------------------------------------
(* The methods *)

Below(s) == 0..s.count - 1
Asked(s, b, j) == IF j = "coverage_guided" /\ s.count < b * 3 THEN s.count
                  ELSE IF j = "coverage_guided" THEN b * 3 ELSE b
Half(s, b) == IF Cardinality(s.boundary) <= b \div 2 THEN Cardinality(s.boundary) ELSE b \div 2
Portion(i, s, b) ==
  (b \div Len(s.intervals)) + (IF i - 1 < b % Len(s.intervals) THEN 1 ELSE 0)

\* Floyd's sample has one rank for each draw that was made, and room for the rest.
Sampled(S, l, s, b, j) ==
  /\ l \in Nat /\ l <= Asked(s, b, j) /\ Asked(s, b, j) <= s.count
  /\ S \subseteq 0..s.count - l - 1 /\ IsFiniteSet(S)
  /\ Cardinality(S) = Asked(s, b, j) - l

\* The candidates that are left are enough to fill the set.
Merging(S, c, s, b) ==
  /\ S \subseteq Below(s) /\ c \in Seq(Below(s))
  /\ Cardinality(S) <= b /\ b <= Cardinality(S \cup Elements(c))
  /\ Half(s, b) <= Cardinality(S \cap s.boundary)

\* What has been picked and what can be are the sample.
Picking(out, c, s, b) ==
  /\ out \in Seq(Below(s)) /\ c \in Seq(Below(s))
  /\ Different(out) /\ Different(c) /\ Elements(out) \cap Elements(c) = {}
  /\ Len(out) + Len(c) = Asked(s, b, "coverage_guided") /\ Len(out) <= b

Returned(out, s, b, j) ==
  /\ out \in Seq(Below(s))
  /\ Len(out) = IF j = "coverage_guided" /\ s.count < b THEN s.count ELSE b
  /\ j # "replacement" => Different(out)
  /\ j = "branch_uniform" =>
       \A i, k \in DOMAIN s.intervals :
         Cardinality(Elements(out) \cap s.intervals[i]) <= Cardinality(Elements(out) \cap s.intervals[k]) + 1
  /\ j = "boundary_biased" => Half(s, b) <= Cardinality(Elements(out) \cap s.boundary)

TooMuch(s, b) == \/ s.count < b
                 \/ \E i \in DOMAIN s.intervals : Cardinality(s.intervals[i]) < Portion(i, s, b)

Samplers == {"pdrs_no_replacement", "boundary_biased", "coverage_guided"}

AllocInv ==
  /\ schema \in Schemas /\ budget \in Nat /\ workers \in Nat /\ workers > 0
  /\ job \in Alloc!Methods \cup Alloc!Policies
  /\ pc \in {"start", "sample", "merge", "pick", "affine", "choose", "done", "refused"}
  /\ pc = "start" => left = 0 /\ selected = {} /\ output = <<>>
  /\ pc = "sample" => /\ job \in Samplers /\ output = <<>>
                      /\ Sampled(selected, left, schema, budget, job)
  /\ pc = "merge" => job = "boundary_biased" /\ Merging(selected, candidates, schema, budget)
  /\ pc = "pick" => job = "coverage_guided" /\ Picking(output, candidates, schema, budget)
  /\ pc = "affine" => job = "permuted" /\ multiplier \in Nat /\ multiplier > 0
  /\ pc = "choose" =>
       /\ job \notin Samplers
       /\ job = "permuted" => /\ multiplier \in Nat /\ multiplier > 0
                              /\ Alloc!Gcd(multiplier, schema.count) = 1
       /\ job = "hash" => left \in Nat /\ left <= schema.count /\ Once(parts, workers, left)
  /\ pc = "done" => IF job \in Alloc!Methods THEN Returned(output, schema, budget, job)
                    ELSE Once(parts, workers, schema.count)
  /\ pc = "refused" => TooMuch(schema, budget)

LEMMA RankSets ==
  ASSUME NEW s, MeasuredSchema(s)
  PROVE  /\ s.count \in Nat /\ s.count > 0 /\ IsFiniteSet(Below(s))
         /\ IsFiniteSet(s.boundary) /\ Cardinality(s.boundary) \in Nat
         /\ \A S \in SUBSET Below(s) : IsFiniteSet(S) /\ Cardinality(S) \in Nat
<1>1. s.count \in Nat /\ s.count > 0 /\ s.boundary \in SUBSET Below(s)
  BY DEF MeasuredSchema, Below
<1>2. IsFiniteSet(Below(s))
  <2>1. PICK z \in Int : z = 0
    OBVIOUS
  <2>2. IsFiniteSet(z..s.count - 1)
    BY <1>1, FS_Interval
  <2> QED BY <2>1, <2>2 DEF Below
<1>3. ASSUME NEW S \in SUBSET Below(s) PROVE IsFiniteSet(S) /\ Cardinality(S) \in Nat
  <2>1. IsFiniteSet(S)
    BY <1>2, FS_Subset
  <2> QED BY <2>1, FS_CardinalityType
<1> QED BY <1>1, <1>2, <1>3

\* A sample with its share of each branch has as many ranks as were asked for.
LEMMA SharesAddUp ==
  ASSUME NEW s, MeasuredSchema(s), NEW b \in Nat, NEW S \in SUBSET Below(s),
         \A i \in DOMAIN s.intervals : Cardinality(S \cap s.intervals[i]) = Portion(i, s, b)
  PROVE  Cardinality(S) = b
<1>1. PICK L \in Nat : L = Len(s.intervals) /\ L > 0 /\ DOMAIN s.intervals = 1..L
  BY DEF MeasuredSchema
<1>2. PICK q, e \in Nat : /\ q = b \div L /\ e = b % L /\ e < L /\ b = L * q + e
  <2>1. b \div L \in Nat /\ b % L \in Nat /\ b % L < L /\ b = L * (b \div L) + (b % L)
    BY <1>1, Remainder
  <2> QED BY <2>1
<1> DEFINE U(k) == {r \in S : \E i \in 1..k : r \in s.intervals[i]}
           Sum(k) == k * q + (IF k <= e THEN k ELSE e)
           T == {k \in 0..L : Cardinality(U(k)) = Sum(k)}
<1>3. 0 \in T
  <2>1. U(0) = {}
    OBVIOUS
  <2>2. Sum(0) = 0
    BY <1>2
  <2>3. 0 \in 0..L
    OBVIOUS
  <2> HIDE DEF U, Sum
  <2> QED BY <2>1, <2>2, <2>3, FS_EmptySet
<1>4. ASSUME NEW k \in 0..L - 1, k \in T PROVE k + 1 \in T
  <2> DEFINE A == U(k)
             B == S \cap s.intervals[k + 1]
  <2>1. k + 1 \in 1..L /\ k \in 0..L /\ Cardinality(A) = Sum(k)
    BY <1>4
  <2>2. U(k + 1) = A \cup B
    <3>1. \A i \in 1..k + 1 : i \in 1..k \/ i = k + 1
      OBVIOUS
    <3>2. \A i \in 1..k : i \in 1..k + 1
      OBVIOUS
    <3>3. k + 1 \in 1..k + 1
      OBVIOUS
    <3> QED BY <3>1, <3>2, <3>3
  <2>3. A \cap B = {}
    <3>1. ASSUME NEW i \in 1..k PROVE s.intervals[i] \cap s.intervals[k + 1] = {}
      <4>1. i \in DOMAIN s.intervals /\ k + 1 \in DOMAIN s.intervals /\ i # k + 1
        BY <1>1, <2>1
      <4> QED BY <4>1 DEF MeasuredSchema
    <3> QED BY <3>1
  <2>4. IsFiniteSet(A) /\ IsFiniteSet(B) /\ Cardinality(A) \in Nat /\ Cardinality(B) \in Nat
    BY RankSets
  <2>5. Cardinality(A \cup B) = Cardinality(A) + Cardinality(B)
    <3>1. Cardinality(A \cup B) = Cardinality(A) + Cardinality(B) - Cardinality(A \cap B)
      BY <2>4, FS_Union
    <3>2. Cardinality(A \cap B) = 0
      BY <2>3, FS_EmptySet
    <3> QED BY <2>4, <3>1, <3>2
  <2>6. Cardinality(B) = q + (IF k < e THEN 1 ELSE 0)
    <3>1. Cardinality(B) = Portion(k + 1, s, b)
      BY <1>1, <2>1
    <3>2. Portion(k + 1, s, b) = q + (IF (k + 1) - 1 < e THEN 1 ELSE 0)
      BY <1>1, <1>2 DEF Portion
    <3>3. (k + 1) - 1 = k
      OBVIOUS
    <3> QED BY <3>1, <3>2, <3>3
  <2> HIDE DEF A, B
  <2>7. Sum(k) + q + (IF k < e THEN 1 ELSE 0) = Sum(k + 1)
    <3>1. (k + 1) * q = k * q + q /\ k * q \in Nat
      OBVIOUS
    <3> QED BY <3>1
  <2>8. Cardinality(U(k + 1)) = Sum(k + 1)
    <3>1. Sum(k) \in Nat
      OBVIOUS
    <3> HIDE DEF Sum, U
    <3> QED BY <2>1, <2>2, <2>5, <2>6, <2>7, <3>1
  <2>9. k + 1 \in 0..L
    BY <2>1
  <2> HIDE DEF U, Sum
  <2> QED BY <2>8, <2>9
<1>5. L \in T
  <2> HIDE DEF T
  <2>1. \A k \in 0..L : k \in T
    BY <1>3, <1>4, Upwards
  <2> QED BY <2>1
<1>6. U(L) = S
  <2>1. ASSUME NEW r \in S PROVE \E i \in 1..L : r \in s.intervals[i]
    BY <1>1 DEF MeasuredSchema, Below
  <2> QED BY <2>1
<1>7. Sum(L) = b
  BY <1>2
<1> HIDE DEF U, Sum
<1> QED BY <1>5, <1>6, <1>7

SameJob == UNCHANGED <<schema, budget, workers, job>>

\* What holds in every state of one job.
LEMMA OneJob ==
  ASSUME AllocationAssumption, AllocInv
  PROVE  /\ MeasuredSchema(schema) /\ schema.count \in Nat /\ schema.count > 0
         /\ Hired
         /\ Alloc!N = schema.count /\ Alloc!Ranks = Below(schema)
         /\ Alloc!Drawn = Asked(schema, budget, job)
         /\ Asked(schema, budget, job) \in Nat
         /\ \A i \in DOMAIN schema.intervals : Alloc!Share(i) = Portion(i, schema, budget)
<1>1. MeasuredSchema(schema) /\ budget \in Nat /\ workers \in Nat /\ workers > 0
  BY DEF AllocationAssumption, AllocInv
<1>2. schema.count \in Nat /\ schema.count > 0
  BY <1>1, RankSets
<1>3. Hired
  BY <1>1, <1>2 DEF Hired
<1>4. Alloc!N = schema.count /\ Alloc!Ranks = Below(schema)
  BY DEF Alloc!N, Alloc!Ranks, Below
<1>5. budget * 3 \in Nat
  BY <1>1
<1>6. Alloc!Min({schema.count, budget * 3}) =
        IF schema.count <= budget * 3 THEN schema.count ELSE budget * 3
  BY <1>2, <1>5, LesserOf
<1>7. Alloc!Drawn = Asked(schema, budget, job)
  BY <1>2, <1>4, <1>5, <1>6 DEF Alloc!Drawn, Asked
<1>8. Asked(schema, budget, job) \in Nat
  BY <1>1, <1>2, <1>5 DEF Asked
<1>9. \A i \in DOMAIN schema.intervals : Alloc!Share(i) = Portion(i, schema, budget)
  BY DEF Alloc!Share, Portion
<1> QED BY <1>1, <1>2, <1>3, <1>4, <1>7, <1>8, <1>9

LEMMA AllocInit ==
  ASSUME AllocationAssumption, Alloc!Init
  PROVE  AllocInv
<1>1. /\ schema \in Schemas /\ pc = "start" /\ left = 0 /\ selected = {} /\ output = <<>>
      /\ job \in Alloc!Methods \cup Alloc!Policies
      /\ (budget \in Budgets /\ workers = 1) \/ (budget = 0 /\ workers \in Crews)
  BY DEF Alloc!Init
<1>2. budget \in Nat /\ workers \in Nat /\ workers > 0
  <2>1. Budgets \subseteq Nat
    BY DEF AllocationAssumption
  <2>2. Crews \subseteq Nat \ {0}
    BY CrewsAssumption
  <2>3. CASE budget \in Budgets /\ workers = 1
    BY <2>1, <2>3
  <2>4. CASE budget = 0 /\ workers \in Crews
    <3>1. workers \in Nat \ {0}
      BY <2>2, <2>4
    <3> QED BY <2>4, <3>1
  <2> QED BY <1>1, <2>3, <2>4
<1> QED BY <1>1, <1>2 DEF AllocInv

LEMMA AllocStart ==
  ASSUME AllocationAssumption, AllocInv, Alloc!Start
  PROVE  AllocInv'
<1>1. /\ pc = "start" /\ left = 0 /\ selected = {} /\ output = <<>>
      /\ SameJob /\ UNCHANGED <<selected, candidates, output>>
      /\ parts' = IF job = "hash" THEN [w \in 1..workers |-> <<>>] ELSE parts
      /\ schema \in Schemas /\ budget \in Nat /\ workers \in Nat /\ workers > 0
      /\ job \in Alloc!Methods \cup Alloc!Policies
  BY DEF Alloc!Start, AllocInv, SameJob
<1>2. CASE job \in Samplers
  <2>1. /\ pc' = IF Alloc!Drawn \in 0..Alloc!N THEN "sample" ELSE "refused"
        /\ left' = Alloc!Drawn
    BY <1>2 DEF Alloc!Start, Samplers
  <2>2. PICK d, n \in Nat : d = Alloc!Drawn /\ n = Alloc!N
    BY OneJob
  <2>3. CASE d \in 0..n
    <3>1. Sampled({}, d, schema, budget, job)
      <4>1. {} \subseteq 0..schema.count - d - 1 /\ IsFiniteSet({}) /\ Cardinality({}) = 0
        BY FS_EmptySet
      <4>2. /\ Asked(schema, budget, job) = d /\ schema.count = n
        BY <2>2, OneJob
      <4> QED BY <2>3, <4>1, <4>2 DEF Sampled
    <3>2. pc' = "sample" /\ left' = d /\ selected' = {} /\ output' = <<>>
      BY <1>1, <2>1, <2>2, <2>3
    <3> QED BY <1>1, <1>2, <3>1, <3>2 DEF AllocInv, SameJob
  <2>4. CASE ~ (d \in 0..n)
    <3>1. n < d
      BY <2>4
    <3>2. TooMuch(schema, budget)
      <4>1. d = Asked(schema, budget, job) /\ n = schema.count /\ budget \in Nat
        BY <1>1, <2>2, OneJob
      <4>2. schema.count < budget
        BY <3>1, <4>1 DEF Asked
      <4> QED BY <4>2 DEF TooMuch
    <3>3. pc' = "refused"
      BY <2>1, <2>2, <2>4
    <3> QED BY <1>1, <3>2, <3>3 DEF AllocInv, SameJob
  <2> QED BY <2>3, <2>4
<1>3. CASE job = "permuted"
  <2>1. multiplier' \in 1..Alloc!Max({2, Alloc!N}) - 1 /\ pc' = "affine"
    BY <1>3 DEF Alloc!Start
  <2>2. PICK n \in Nat : n = Alloc!N
    BY OneJob
  <2>3. Alloc!Max({2, n}) \in {2, n}
    <3>1. CASE n <= 2
      <4>1. \A y \in {2, n} : 2 >= y
        BY <3>1
      <4> QED BY <4>1 DEF Alloc!Max
    <3>2. CASE ~ (n <= 2)
      <4>1. \A y \in {2, n} : n >= y
        BY <3>2
      <4> QED BY <4>1 DEF Alloc!Max
    <3> QED BY <3>1, <3>2
  <2>4. PICK x \in Int : x = Alloc!Max({2, n})
    BY <2>3
  <2>5. multiplier' \in 1..x - 1
    BY <2>1, <2>2, <2>4
  <2>6. multiplier' \in Nat /\ multiplier' > 0
    BY <2>5
  <2> QED BY <1>1, <1>3, <2>1, <2>6 DEF AllocInv, SameJob
<1>4. CASE job \notin Samplers /\ job # "permuted"
  <2>1. pc' = "choose" /\ UNCHANGED <<left, multiplier>>
    BY <1>4 DEF Alloc!Start, Samplers
  <2>2. ASSUME job = "hash"
        PROVE  left' \in Nat /\ left' <= schema.count /\ Once(parts', workers, left')
    <3>1. parts' = [w \in 1..workers |-> <<>>] /\ left' = 0
      BY <1>1, <2>1, <2>2
    <3>2. Once([w \in 1..workers |-> <<>>], workers, 0)
      <4>1. [w \in 1..workers |-> <<>>] \in [1..workers -> Seq(0..0 - 1)]
        OBVIOUS
      <4>2. 0..0 - 1 = {}
        OBVIOUS
      <4> QED BY <4>1, <4>2 DEF Once
    <3> QED BY <3>1, <3>2, OneJob
  <2> QED BY <1>1, <1>4, <2>1, <2>2 DEF AllocInv, SameJob
<1> QED BY <1>2, <1>3, <1>4

LEMMA AllocDraw ==
  ASSUME AllocationAssumption, AllocInv, Alloc!Draw
  PROVE  AllocInv'
<1>1. /\ pc = "sample" /\ left > 0 /\ left' = left - 1 /\ pc' = pc
      /\ SameJob /\ UNCHANGED <<candidates, output, multiplier, parts>>
      /\ \E c \in 0..Alloc!N - left : selected' = Alloc!FloydAdd(selected, Alloc!N - left, c)
  BY DEF Alloc!Draw, SameJob
<1>2. /\ job \in Samplers /\ output = <<>> /\ Sampled(selected, left, schema, budget, job)
  BY <1>1 DEF AllocInv
<1>3. PICK n, d, k \in Nat : /\ n = Alloc!N /\ n = schema.count
                             /\ d = Asked(schema, budget, job) /\ k = left
  BY <1>2, OneJob DEF Sampled
<1>4. PICK c \in 0..n - k : selected' = Alloc!FloydAdd(selected, n - k, c)
  BY <1>1, <1>3
<1>5. /\ k <= d /\ d <= n /\ k \in 1..n /\ selected \in SUBSET (0..n - k - 1)
      /\ IsFiniteSet(selected) /\ Cardinality(selected) = d - k
  BY <1>1, <1>2, <1>3 DEF Sampled
<1>6. /\ selected' \subseteq 0..n - (k - 1) - 1 /\ IsFiniteSet(selected')
      /\ Cardinality(selected') = (d - k) + 1
  <2>1. PICK S \in SUBSET (0..n - k - 1) : S = selected /\ IsFiniteSet(S)
    BY <1>5
  <2>2. PICK T : T = Alloc!FloydAdd(S, n - k, c)
    OBVIOUS
  <2>3. /\ T \subseteq 0..n - (k - 1) - 1 /\ IsFiniteSet(T) /\ Cardinality(T) = Cardinality(S) + 1
    BY <1>5, <2>1, <2>2, FloydRound
  <2>4. selected' = T
    BY <1>4, <2>1, <2>2
  <2> QED BY <1>5, <2>1, <2>3, <2>4
<1>7. Sampled(selected', left', schema, budget, job)
  <2>1. left' = k - 1 /\ k - 1 \in Nat /\ k - 1 <= d /\ (d - k) + 1 = d - (k - 1)
    BY <1>1, <1>3, <1>5
  <2> QED BY <1>3, <1>5, <1>6, <2>1 DEF Sampled
<1> QED BY <1>1, <1>2, <1>7 DEF AllocInv, SameJob

\* The sample is over: what it is, and the list it becomes.
LEMMA SampleDone ==
  ASSUME AllocationAssumption, AllocInv, pc = "sample", left = 0
  PROVE  /\ selected \subseteq Below(schema) /\ IsFiniteSet(selected)
         /\ Cardinality(selected) = Asked(schema, budget, job)
         /\ Asked(schema, budget, job) <= schema.count
<1>1. Sampled(selected, left, schema, budget, job)
  BY DEF AllocInv
<1>2. PICK n, d \in Nat : n = schema.count /\ d = Asked(schema, budget, job)
  BY OneJob
<1>3. d <= n /\ selected \subseteq 0..n - 0 - 1 /\ IsFiniteSet(selected) /\ Cardinality(selected) = d - 0
  BY <1>1, <1>2 DEF Sampled
<1> QED BY <1>2, <1>3 DEF Below

LEMMA AllocShuffle ==
  ASSUME AllocationAssumption, AllocInv, Alloc!Shuffle
  PROVE  AllocInv'
<1>1. /\ pc = "sample" /\ left = 0 /\ SameJob /\ UNCHANGED <<left, multiplier, parts>>
  BY DEF Alloc!Shuffle, SameJob
<1>2. /\ job \in Samplers /\ output = <<>> /\ schema \in Schemas /\ budget \in Nat
      /\ workers \in Nat /\ workers > 0 /\ job \in Alloc!Methods \cup Alloc!Policies
  BY <1>1 DEF AllocInv
<1>3. /\ selected \subseteq Below(schema) /\ IsFiniteSet(selected)
      /\ Cardinality(selected) = Asked(schema, budget, job)
      /\ Asked(schema, budget, job) <= schema.count
  BY <1>1, SampleDone
<1>4. PICK order \in Alloc!SetToSeqs(selected) :
        CASE job = "pdrs_no_replacement" ->
               /\ output' = order
               /\ pc' = "done"
               /\ UNCHANGED <<candidates, selected>>
          [] job = "coverage_guided" ->
               /\ candidates' = order
               /\ pc' = "pick"
               /\ UNCHANGED <<output, selected>>
          [] job = "boundary_biased" ->
               /\ candidates' = order
               /\ selected' \in Alloc!kSubset(Alloc!Min({Alloc!Cardinality(schema.boundary), budget \div 2}),
                                              schema.boundary)
               /\ pc' = "merge"
               /\ UNCHANGED output
  BY DEF Alloc!Shuffle
<1>5. /\ order \in Seq(Below(schema)) /\ Len(order) = Asked(schema, budget, job)
      /\ Different(order) /\ Elements(order) = selected
  <2>1. /\ order \in Seq(selected) /\ Len(order) = Cardinality(selected)
        /\ Different(order) /\ Elements(order) = selected
    BY <1>3, ShuffledSet
  <2>2. order \in Seq(Below(schema))
    BY <1>3, <2>1
  <2> QED BY <1>3, <2>1, <2>2
<1>6. CASE job = "pdrs_no_replacement"
  <2>1. output' = order /\ pc' = "done"
    BY <1>4, <1>6
  <2>2. Returned(order, schema, budget, job)
    BY <1>5, <1>6 DEF Returned, Asked
  <2>3. job \in Alloc!Methods
    BY <1>6 DEF Alloc!Methods
  <2> QED BY <1>1, <1>2, <2>1, <2>2, <2>3 DEF AllocInv, SameJob
<1>7. CASE job = "coverage_guided"
  <2>1. candidates' = order /\ pc' = "pick" /\ output' = <<>>
    BY <1>2, <1>4, <1>7
  <2>2. Picking(<<>>, order, schema, budget)
    <3>1. <<>> \in Seq(Below(schema)) /\ Different(<<>>) /\ Elements(<<>>) = {} /\ Len(<<>>) = 0
      BY DEF Different, Elements
    <3>2. Asked(schema, budget, "coverage_guided") \in Nat
      BY <1>7, OneJob
    <3> QED BY <1>2, <1>5, <1>7, <3>1, <3>2 DEF Picking
  <2> QED BY <1>1, <1>2, <1>7, <2>1, <2>2 DEF AllocInv, SameJob
<1>8. CASE job = "boundary_biased"
  <2>1. /\ candidates' = order /\ pc' = "merge" /\ output' = <<>>
        /\ selected' \in Alloc!kSubset(Alloc!Min({Alloc!Cardinality(schema.boundary), budget \div 2}),
                                       schema.boundary)
    BY <1>2, <1>4, <1>8
  <2>2. MeasuredSchema(schema)
    BY OneJob
  <2>3. PICK c, h \in Nat : c = Cardinality(schema.boundary) /\ h = budget \div 2 /\ h <= budget
    <3>1. budget \div 2 \in Nat /\ budget \div 2 <= budget
      BY <1>2
    <3> QED BY <2>2, <3>1, RankSets
  <2>4. Alloc!Min({Alloc!Cardinality(schema.boundary), budget \div 2}) = Half(schema, budget)
    <3>1. Alloc!Cardinality(schema.boundary) = c
      BY <2>3, SameNames
    <3>2. Alloc!Min({c, h}) = IF c <= h THEN c ELSE h
      BY LesserOf
    <3> QED BY <2>3, <3>1, <3>2 DEF Half
  <2>5. /\ selected' \subseteq schema.boundary /\ Cardinality(selected') = Half(schema, budget)
        /\ selected' \cap schema.boundary = selected'
    BY <2>1, <2>4, SameNames DEF Alloc!kSubset
  <2>6. Half(schema, budget) \in Nat /\ Half(schema, budget) <= budget
    BY <1>2, <2>3 DEF Half
  <2>7. selected' \subseteq Below(schema)
    BY <2>2, <2>5 DEF MeasuredSchema, Below
  <2>8. budget <= Cardinality(selected' \cup Elements(order))
    <3>1. Cardinality(selected) = budget
      BY <1>3, <1>8 DEF Asked
    <3>2. selected' \cup Elements(order) \subseteq Below(schema)
      BY <1>3, <1>5, <2>7
    <3>3. IsFiniteSet(selected' \cup Elements(order))
      BY <2>2, <3>2, RankSets
    <3>4. Cardinality(selected) <= Cardinality(selected' \cup Elements(order))
      BY <1>5, <3>3, FS_Subset
    <3> QED BY <3>1, <3>4
  <2>9. Merging(selected', order, schema, budget)
    <3>1. Cardinality(selected') <= budget /\ Half(schema, budget) <= Cardinality(selected' \cap schema.boundary)
      BY <2>5, <2>6
    <3> QED BY <1>5, <2>7, <2>8, <3>1 DEF Merging
  <2> QED BY <1>1, <1>2, <1>8, <2>1, <2>9 DEF AllocInv, SameJob
<1> QED BY <1>2, <1>6, <1>7, <1>8 DEF Samplers

\* A list of a set that is finished is what the method returns.
LEMMA AllocMerge ==
  ASSUME AllocationAssumption, AllocInv, Alloc!Merge
  PROVE  AllocInv'
<1>1. /\ pc = "merge" /\ SameJob /\ UNCHANGED <<left, multiplier, parts>>
      /\ IF candidates # <<>> /\ Alloc!Cardinality(selected) # budget
           THEN /\ selected' = selected \cup {Head(candidates)}
                /\ candidates' = Tail(candidates)
                /\ UNCHANGED <<pc, output>>
           ELSE /\ output' \in Alloc!SetToSeqs(selected)
                /\ pc' = "done"
                /\ UNCHANGED <<selected, candidates>>
  BY DEF Alloc!Merge, SameJob
<1>2. /\ job = "boundary_biased" /\ Merging(selected, candidates, schema, budget)
      /\ schema \in Schemas /\ budget \in Nat
      /\ workers \in Nat /\ workers > 0 /\ job \in Alloc!Methods \cup Alloc!Policies
  BY <1>1 DEF AllocInv
<1>3. MeasuredSchema(schema) /\ Alloc!Cardinality(selected) = Cardinality(selected)
  BY OneJob, SameNames
<1>4. /\ selected \subseteq Below(schema) /\ candidates \in Seq(Below(schema))
      /\ Cardinality(selected) <= budget /\ budget <= Cardinality(selected \cup Elements(candidates))
      /\ Half(schema, budget) <= Cardinality(selected \cap schema.boundary)
  BY <1>2 DEF Merging
<1>5. IsFiniteSet(selected) /\ Cardinality(selected) \in Nat
  BY <1>3, <1>4, RankSets
<1>6. CASE candidates # <<>> /\ Cardinality(selected) # budget
  <2>1. PICK c, t : c = Head(candidates) /\ t = Tail(candidates)
    OBVIOUS
  <2>2. /\ selected' = selected \cup {c} /\ candidates' = t /\ pc' = pc /\ output' = output
    BY <1>1, <1>3, <1>6, <2>1
  <2>3. /\ t \in Seq(Below(schema)) /\ c \in Below(schema)
        /\ Elements(candidates) = {c} \cup Elements(t)
    <3>1. PICK n \in Nat : n = Len(candidates) /\ n > 0 /\ DOMAIN candidates = 1..n
      BY <1>4, <1>6
    <3>2. /\ t \in Seq(Below(schema)) /\ Len(t) = n - 1
          /\ \A i \in 1..n - 1 : t[i] = candidates[i + 1]
      BY <1>4, <1>6, <2>1, <3>1
    <3>3. c = candidates[1]
      BY <1>4, <1>6, <2>1
    <3>4. DOMAIN t = 1..n - 1
      BY <3>2
    <3>5. ASSUME NEW x \in Elements(candidates) PROVE x = c \/ x \in Elements(t)
      <4>1. PICK i \in 1..n : x = candidates[i]
        BY <3>1 DEF Elements
      <4>2. CASE i = 1
        BY <3>3, <4>1, <4>2
      <4>3. CASE i # 1
        <5>1. i - 1 \in 1..n - 1 /\ (i - 1) + 1 = i
          BY <3>1, <4>3
        <5>2. t[i - 1] = x
          BY <3>2, <4>1, <5>1
        <5> QED BY <3>4, <5>1, <5>2 DEF Elements
      <4> QED BY <4>2, <4>3
    <3>6. ASSUME NEW x \in Elements(t) PROVE x \in Elements(candidates)
      <4>1. PICK i \in 1..n - 1 : x = t[i]
        BY <3>4 DEF Elements
      <4>2. i + 1 \in 1..n /\ x = candidates[i + 1]
        BY <3>1, <3>2, <4>1
      <4> QED BY <3>1, <4>2 DEF Elements
    <3>7. c \in Elements(candidates) /\ c \in Below(schema)
      <4>1. 1 \in 1..n
        BY <3>1
      <4> QED BY <1>4, <3>1, <3>3, <4>1 DEF Elements
    <3> QED BY <3>2, <3>5, <3>6, <3>7
  <2>4. Cardinality(selected \cup {c}) <= budget
    <3>1. Cardinality(selected \cup {c}) = IF c \in selected THEN Cardinality(selected) ELSE Cardinality(selected) + 1
      BY <1>5, FS_AddElement
    <3> QED BY <1>2, <1>4, <1>5, <1>6, <3>1
  <2>5. (selected \cup {c}) \cup Elements(t) = selected \cup Elements(candidates)
    BY <2>3
  <2>6. Half(schema, budget) <= Cardinality((selected \cup {c}) \cap schema.boundary)
    <3>1. (selected \cup {c}) \cap schema.boundary \subseteq Below(schema)
      BY <1>4, <2>3
    <3>2. IsFiniteSet((selected \cup {c}) \cap schema.boundary)
          /\ Cardinality((selected \cup {c}) \cap schema.boundary) \in Nat
      BY <1>3, <3>1, RankSets
    <3>3. selected \cap schema.boundary \in SUBSET ((selected \cup {c}) \cap schema.boundary)
      OBVIOUS
    <3>4. Cardinality(selected \cap schema.boundary) <= Cardinality((selected \cup {c}) \cap schema.boundary)
      BY <3>2, <3>3, FS_Subset
    <3>5. selected \cap schema.boundary \in SUBSET Below(schema)
      BY <1>4
    <3>6. Cardinality(selected \cap schema.boundary) \in Nat
      BY <1>3, <3>5, RankSets
    <3>7. Half(schema, budget) \in Int
      <4>1. budget \div 2 \in Int
        BY <1>2
      <4> QED BY <1>3, <4>1, RankSets DEF Half
    <3> QED BY <1>4, <3>2, <3>4, <3>6, <3>7
  <2>7. Merging(selected \cup {c}, t, schema, budget)
    BY <1>4, <2>3, <2>4, <2>5, <2>6 DEF Merging
  <2>8. Merging(selected', candidates', schema, budget)
    BY <2>2, <2>7
  <2> QED BY <1>1, <1>2, <2>2, <2>8 DEF AllocInv, SameJob
<1>7. CASE ~ (candidates # <<>> /\ Cardinality(selected) # budget)
  <2>1. PICK o \in Alloc!SetToSeqs(selected) : o = output' /\ pc' = "done"
    BY <1>1, <1>3, <1>7
  <2>2. /\ o \in Seq(selected) /\ Len(o) = Cardinality(selected)
        /\ Different(o) /\ Elements(o) = selected
    BY <1>5, ShuffledSet
  <2>3. o \in Seq(Below(schema))
    BY <1>4, <2>2
  <2>4. Cardinality(selected) = budget
    <3>1. CASE candidates = <<>>
      <4>1. Elements(<<>>) = {}
        BY DEF Elements
      <4>2. selected \cup Elements(candidates) = selected
        BY <3>1, <4>1
      <4>3. budget <= Cardinality(selected)
        BY <1>4, <4>2
      <4> QED BY <1>2, <1>4, <1>5, <4>3
    <3>2. CASE Cardinality(selected) = budget
      BY <3>2
    <3> QED BY <1>7, <3>1, <3>2
  <2>5. Returned(o, schema, budget, job)
    BY <1>2, <1>4, <2>2, <2>3, <2>4 DEF Returned
  <2>6. job \in Alloc!Methods
    BY <1>2 DEF Alloc!Methods
  <2> QED BY <1>1, <1>2, <2>1, <2>5, <2>6 DEF AllocInv, SameJob
<1> QED BY <1>6, <1>7

LEMMA AllocPickBest ==
  ASSUME AllocationAssumption, AllocInv, Alloc!PickBest
  PROVE  AllocInv'
<1> DEFINE covered == UNION {schema.features[r] : r \in Alloc!ToSet(output)}
           New(i) == Alloc!Cardinality(schema.features[candidates[i]] \ covered)
           window == 1..Alloc!Min({Window, Len(candidates)})
           Bests == {i \in window : \A k \in window : New(k) <= New(i)}
           best == Alloc!Min(Bests)
<1>1. /\ pc = "pick" /\ candidates # <<>> /\ Len(output) < budget
      /\ SameJob /\ UNCHANGED <<pc, left, selected, multiplier, parts>>
      /\ output' = Append(output, candidates[best])
      /\ candidates' = Alloc!RemoveAt(candidates, best)
  BY DEF Alloc!PickBest, SameJob
<1>2. /\ job = "coverage_guided" /\ Picking(output, candidates, schema, budget)
      /\ schema \in Schemas /\ budget \in Nat
      /\ workers \in Nat /\ workers > 0 /\ job \in Alloc!Methods \cup Alloc!Policies
  BY <1>1 DEF AllocInv
<1>3. /\ output \in Seq(Below(schema)) /\ candidates \in Seq(Below(schema))
      /\ Different(output) /\ Different(candidates) /\ Elements(output) \cap Elements(candidates) = {}
      /\ Len(output) + Len(candidates) = Asked(schema, budget, "coverage_guided") /\ Len(output) <= budget
  BY <1>2 DEF Picking
<1>4. PICK n \in Nat : n = Len(candidates) /\ n > 0 /\ DOMAIN candidates = 1..n
  BY <1>1, <1>3
<1>5. PICK x \in Nat : window = 1..x /\ x > 0 /\ x <= n
  <2>1. PICK w \in Nat : w = Window /\ w > 0
    BY DEF AllocationAssumption
  <2>2. Alloc!Min({w, n}) = IF w <= n THEN w ELSE n
    BY LesserOf
  <2> QED BY <1>4, <2>1, <2>2
<1>6. ASSUME NEW i \in 1..x PROVE New(i) \in Nat
  <2>1. i \in DOMAIN candidates
    BY <1>4, <1>5
  <2>2. candidates[i] \in 0..schema.count - 1
    <3>1. candidates[i] \in Below(schema)
      BY <1>3, <2>1
    <3> QED BY <3>1 DEF Below
  <2>3. IsFiniteSet(schema.features[candidates[i]])
    BY <2>2, OneJob DEF MeasuredSchema
  <2> HIDE DEF covered
  <2>4. IsFiniteSet(schema.features[candidates[i]] \ covered)
    BY <2>3, FS_Difference
  <2> QED BY <2>4, FS_CardinalityType, SameNames
<1> HIDE DEF New, window
<1>7. best \in 1..x
  <2> DEFINE F == [i \in 1..x |-> New(i)]
  <2>1. \A i \in 1..x : F[i] \in Nat /\ F[i] = New(i)
    BY <1>6
  <2> HIDE DEF F
  <2>2. PICK i \in 1..x : \A j \in 1..x : F[j] <= F[i]
    BY <1>5, <2>1, Largest
  <2>3. i \in Bests
    BY <1>5, <2>1, <2>2
  <2>4. Bests \subseteq Nat /\ Bests # {}
    BY <1>5, <2>3
  <2>5. best \in Bests
    BY <2>4, LeastOf
  <2> QED BY <1>5, <2>5
<1> HIDE DEF best
<1>8. PICK b \in 1..n : b = best
  BY <1>5, <1>7
<1>9. PICK r, t, o : r = candidates[b] /\ t = Alloc!RemoveAt(candidates, b) /\ o = Append(output, r)
  OBVIOUS
<1>10. output' = o /\ candidates' = t
  BY <1>1, <1>8, <1>9
<1>11. /\ t \in Seq(Below(schema)) /\ Len(t) = n - 1
       /\ Different(t) /\ Elements(t) = Elements(candidates) \ {r}
  <2>1. b \in 1..Len(candidates)
    BY <1>4
  <2> QED BY <1>3, <1>4, <1>9, <2>1, Popped
<1>12. r \in Elements(candidates) /\ r \in Below(schema) /\ r \notin Elements(output)
  <2>1. b \in DOMAIN candidates
    BY <1>4
  <2>2. r \in Below(schema)
    BY <1>3, <1>9, <2>1
  <2>3. r \in Elements(candidates)
    BY <1>9, <2>1 DEF Elements
  <2> QED BY <1>3, <2>2, <2>3
<1>13. /\ o \in Seq(Below(schema)) /\ Len(o) = Len(output) + 1
       /\ Different(o) /\ Elements(o) = Elements(output) \cup {r}
  BY <1>3, <1>9, <1>12, Appended
<1>14. Picking(o, t, schema, budget)
  <2>1. Elements(o) \cap Elements(t) = {}
    BY <1>3, <1>11, <1>13
  <2>2. Len(output) \in Nat
    BY <1>3
  <2>3. Len(o) + Len(t) = Asked(schema, budget, "coverage_guided")
    BY <1>3, <1>4, <1>11, <1>13, <2>2
  <2>4. Len(o) <= budget
    BY <1>1, <1>2, <1>13, <2>2
  <2> QED BY <1>11, <1>13, <2>1, <2>3, <2>4 DEF Picking
<1> QED BY <1>1, <1>2, <1>10, <1>14 DEF AllocInv, SameJob

LEMMA AllocPickDone ==
  ASSUME AllocationAssumption, AllocInv, Alloc!PickDone
  PROVE  AllocInv'
<1>1. /\ pc = "pick" /\ (candidates = <<>> \/ Len(output) >= budget)
      /\ SameJob /\ UNCHANGED <<left, selected, candidates, output, multiplier, parts>>
      /\ pc' = "done"
  BY DEF Alloc!PickDone, SameJob
<1>2. /\ job = "coverage_guided" /\ Picking(output, candidates, schema, budget)
      /\ schema \in Schemas /\ budget \in Nat
      /\ workers \in Nat /\ workers > 0 /\ job \in Alloc!Methods \cup Alloc!Policies
  BY <1>1 DEF AllocInv
<1>3. PICK n, b, l, m \in Nat : /\ n = schema.count /\ b = budget
                               /\ l = Len(output) /\ m = Len(candidates)
  <2>1. output \in Seq(Below(schema)) /\ candidates \in Seq(Below(schema))
    BY <1>2 DEF Picking
  <2>2. Len(output) \in Nat /\ Len(candidates) \in Nat
    BY <2>1
  <2>3. schema.count \in Nat
    BY OneJob
  <2> QED BY <1>2, <2>2, <2>3
<1>4. /\ output \in Seq(Below(schema)) /\ Different(output)
      /\ l + m = (IF n < b * 3 THEN n ELSE b * 3) /\ l <= b
  BY <1>2, <1>3 DEF Picking, Asked
<1>5. l = IF n < b THEN n ELSE b
  <2>1. CASE candidates = <<>>
    <3>1. m = 0
      BY <1>3, <2>1
    <3> QED BY <1>4, <3>1
  <2>2. CASE Len(output) >= budget
    BY <1>3, <1>4, <2>2
  <2> QED BY <1>1, <2>1, <2>2
<1>6. Returned(output, schema, budget, job)
  BY <1>2, <1>3, <1>4, <1>5 DEF Returned
<1>7. job \in Alloc!Methods
  BY <1>2 DEF Alloc!Methods
<1> QED BY <1>1, <1>2, <1>6, <1>7 DEF AllocInv, SameJob

LEMMA AllocReplace ==
  ASSUME AllocationAssumption, AllocInv, Alloc!Replace
  PROVE  AllocInv'
<1>1. /\ pc = "choose" /\ job = "replacement" /\ output' \in [1..budget -> Alloc!Ranks]
      /\ pc' = "done"
      /\ SameJob /\ UNCHANGED <<left, selected, candidates, multiplier, parts>>
  BY DEF Alloc!Replace, SameJob
<1>2. /\ schema \in Schemas /\ budget \in Nat
      /\ workers \in Nat /\ workers > 0 /\ job \in Alloc!Methods \cup Alloc!Policies
  BY DEF AllocInv
<1>3. PICK o \in [1..budget -> Below(schema)] : o = output'
  BY <1>1, OneJob
<1>4. o \in Seq(Below(schema)) /\ Len(o) = budget
  BY <1>2, SequenceOf
<1>5. Returned(o, schema, budget, job)
  BY <1>1, <1>4 DEF Returned
<1>6. job \in Alloc!Methods
  BY <1>1 DEF Alloc!Methods
<1> QED BY <1>1, <1>2, <1>3, <1>5, <1>6 DEF AllocInv, SameJob

LEMMA AllocBranchUniform ==
  ASSUME AllocationAssumption, AllocInv, Alloc!BranchUniform
  PROVE  AllocInv'
<1> DEFINE I == schema.intervals
<1>1. /\ pc = "choose" /\ job = "branch_uniform"
      /\ SameJob /\ UNCHANGED <<left, selected, candidates, multiplier, parts>>
      /\ IF \A i \in DOMAIN I : Alloc!Share(i) <= Alloc!Cardinality(I[i])
           THEN /\ \E picked \in {p \in SUBSET Alloc!Ranks : \A i \in DOMAIN I :
                                    Alloc!Cardinality(p \cap I[i]) = Alloc!Share(i)} :
                     output' \in Alloc!SetToSeqs(picked)
                /\ pc' = "done"
           ELSE pc' = "refused" /\ UNCHANGED output
  BY DEF Alloc!BranchUniform, SameJob
<1>2. /\ schema \in Schemas /\ budget \in Nat
      /\ workers \in Nat /\ workers > 0 /\ job \in Alloc!Methods \cup Alloc!Policies
  BY DEF AllocInv
<1>3. /\ MeasuredSchema(schema)
      /\ \A i \in DOMAIN I : Alloc!Share(i) = Portion(i, schema, budget)
      /\ \A S : Alloc!Cardinality(S) = Cardinality(S)
      /\ Alloc!Ranks = Below(schema)
  BY OneJob, SameNames
<1>4. ASSUME NEW i \in DOMAIN I
      PROVE  /\ Portion(i, schema, budget) \in Nat /\ Cardinality(I[i]) \in Nat
             /\ \A k \in DOMAIN I : Portion(i, schema, budget) <= Portion(k, schema, budget) + 1
  <2>1. PICK L \in Nat : L = Len(I) /\ L > 0
    BY <1>3 DEF MeasuredSchema
  <2>2. PICK q, e \in Nat : q = budget \div L /\ e = budget % L
    BY <1>2, <2>1, Remainder
  <2>3. \A k \in DOMAIN I : Portion(k, schema, budget) = q + (IF k - 1 < e THEN 1 ELSE 0)
    BY <2>1, <2>2 DEF Portion
  <2>4. I[i] \in SUBSET Below(schema)
    BY <1>3 DEF MeasuredSchema, Below
  <2>5. Cardinality(I[i]) \in Nat
    BY <1>3, <2>4, RankSets
  <2> HIDE DEF I
  <2> QED BY <2>3, <2>5
<1>5. CASE \A i \in DOMAIN I : Alloc!Share(i) <= Alloc!Cardinality(I[i])
  <2>1. pc' = "done"
    BY <1>1, <1>5
  <2>2. PICK p \in SUBSET Below(schema) :
          /\ \A i \in DOMAIN I : Cardinality(p \cap I[i]) = Portion(i, schema, budget)
          /\ output' \in Alloc!SetToSeqs(p)
    BY <1>1, <1>3, <1>5
  <2>3. IsFiniteSet(p)
    BY <1>3, RankSets
  <2>4. Cardinality(p) = budget
    BY <1>2, <1>3, <2>2, SharesAddUp
  <2>5. PICK o \in Alloc!SetToSeqs(p) : o = output'
    BY <2>2
  <2>6. /\ o \in Seq(p) /\ Len(o) = Cardinality(p) /\ Different(o) /\ Elements(o) = p
    BY <2>3, ShuffledSet
  <2>7. o \in Seq(Below(schema))
    BY <2>6
  <2>8. ASSUME NEW i \in DOMAIN I, NEW k \in DOMAIN I
        PROVE  Cardinality(Elements(o) \cap I[i]) <= Cardinality(Elements(o) \cap I[k]) + 1
    BY <1>4, <2>2, <2>6
  <2>9. Returned(o, schema, budget, job)
    BY <1>1, <2>4, <2>6, <2>7, <2>8 DEF Returned
  <2>10. job \in Alloc!Methods
    BY <1>1 DEF Alloc!Methods
  <2> QED BY <1>1, <1>2, <2>1, <2>5, <2>9, <2>10 DEF AllocInv, SameJob
<1>6. CASE ~ \A i \in DOMAIN I : Alloc!Share(i) <= Alloc!Cardinality(I[i])
  <2>1. pc' = "refused"
    BY <1>1, <1>6
  <2>2. PICK i \in DOMAIN I : ~ (Portion(i, schema, budget) <= Cardinality(I[i]))
    BY <1>3, <1>6
  <2>3. Cardinality(I[i]) < Portion(i, schema, budget)
    BY <1>4, <2>2
  <2>4. TooMuch(schema, budget)
    BY <2>3 DEF TooMuch
  <2> QED BY <1>1, <1>2, <2>1, <2>4 DEF AllocInv, SameJob
<1> QED BY <1>5, <1>6

-----------------------------------------------------------------------------
(* The policies *)

\* The multiplier goes round without becoming 0.
LEMMA AllocAffine ==
  ASSUME AllocationAssumption, AllocInv, Alloc!Affine
  PROVE  AllocInv'
<1>1. /\ pc = "affine" /\ SameJob /\ UNCHANGED <<left, selected, candidates, output, parts>>
      /\ IF Alloc!Gcd(multiplier, Alloc!N) = 1
           THEN pc' = "choose" /\ UNCHANGED multiplier
           ELSE /\ multiplier' = IF (multiplier + 1) % Alloc!N = 0 THEN 1 ELSE (multiplier + 1) % Alloc!N
                /\ UNCHANGED pc
  BY DEF Alloc!Affine, SameJob
<1>2. /\ job = "permuted" /\ multiplier \in Nat /\ multiplier > 0
      /\ schema \in Schemas /\ budget \in Nat
      /\ workers \in Nat /\ workers > 0 /\ job \in Alloc!Methods \cup Alloc!Policies
  BY <1>1 DEF AllocInv
<1>3. PICK n \in Nat : n = Alloc!N /\ n = schema.count /\ n > 0
  BY OneJob
<1>4. CASE Alloc!Gcd(multiplier, n) = 1
  <2>1. pc' = "choose" /\ multiplier' = multiplier
    BY <1>1, <1>3, <1>4
  <2>2. job \notin Samplers /\ job # "hash"
    BY <1>2 DEF Samplers
  <2>3. Alloc!Gcd(multiplier, schema.count) = 1
    BY <1>3, <1>4
  <2> QED BY <1>1, <1>2, <2>1, <2>2, <2>3 DEF AllocInv, SameJob
<1>5. CASE ~ (Alloc!Gcd(multiplier, n) = 1)
  <2>1. /\ pc' = "affine"
        /\ multiplier' = IF (multiplier + 1) % n = 0 THEN 1 ELSE (multiplier + 1) % n
    BY <1>1, <1>3, <1>5
  <2>2. (multiplier + 1) % n \in Nat
    <3>1. multiplier + 1 \in Nat
      BY <1>2
    <3> QED BY <1>3, <3>1, Remainder
  <2>3. multiplier' \in Nat /\ multiplier' > 0
    BY <2>1, <2>2
  <2> QED BY <1>1, <1>2, <2>1, <2>3 DEF AllocInv, SameJob
<1> QED BY <1>4, <1>5

LEMMA AllocAssign ==
  ASSUME AllocationAssumption, AllocInv, Alloc!Assign
  PROVE  AllocInv'
<1>1. /\ pc = "choose" /\ job \in Alloc!Policies \ {"hash"} /\ pc' = "done"
      /\ SameJob /\ UNCHANGED <<left, selected, candidates, output, multiplier>>
      /\ Alloc!Assignment(job)
  BY DEF Alloc!Assign, SameJob
<1>2. /\ schema \in Schemas /\ budget \in Nat
      /\ workers \in Nat /\ workers > 0 /\ job \in Alloc!Methods \cup Alloc!Policies
  BY DEF AllocInv
<1>3. Hired
  BY OneJob
<1>4. Once(parts', workers, schema.count)
  <2>1. CASE job = "contiguous"
    <3>1. parts' = Alloc!Contiguous
      BY <1>1, <2>1 DEF Alloc!Assignment
    <3> QED BY <1>3, <3>1, ContiguousOnce
  <2>2. CASE job = "strided"
    <3>1. parts' = Alloc!Strided
      BY <1>1, <2>2 DEF Alloc!Assignment
    <3> QED BY <1>3, <3>1, StridedOnce
  <2>3. CASE job = "permuted"
    <3>1. PICK offset \in Alloc!Ranks : parts' = Alloc!Permuted(offset)
      BY <1>1, <2>3 DEF Alloc!Assignment
    <3>2. multiplier \in Nat /\ multiplier > 0 /\ Alloc!Gcd(multiplier, schema.count) = 1
      BY <1>1, <2>3 DEF AllocInv
    <3> QED BY <1>3, <3>1, <3>2, PermutedOnce
  <2>4. CASE job = "central_shuffle"
    <3>1. PICK order \in Alloc!SetToSeqs(Alloc!Ranks) : parts' = Alloc!Central(order)
      BY <1>1, <2>4 DEF Alloc!Assignment
    <3> QED BY <1>3, <3>1, CentralOnce
  <2> QED BY <1>1, <2>1, <2>2, <2>3, <2>4 DEF Alloc!Policies
<1>5. job \notin Alloc!Methods
  BY <1>1 DEF Alloc!Policies, Alloc!Methods
<1> QED BY <1>1, <1>2, <1>4, <1>5 DEF AllocInv, SameJob

LEMMA AllocHash ==
  ASSUME AllocationAssumption, AllocInv, Alloc!Hash
  PROVE  AllocInv'
<1>1. /\ pc = "choose" /\ job = "hash"
      /\ SameJob /\ UNCHANGED <<selected, candidates, output, multiplier>>
      /\ IF left < Alloc!N
           THEN /\ \E w \in 1..workers : parts' = [parts EXCEPT ![w] = Append(@, left)]
                /\ left' = left + 1
                /\ UNCHANGED pc
           ELSE pc' = "done" /\ UNCHANGED <<left, parts>>
  BY DEF Alloc!Hash, SameJob
<1>2. /\ schema \in Schemas /\ budget \in Nat
      /\ workers \in Nat /\ workers > 0 /\ job \in Alloc!Methods \cup Alloc!Policies
      /\ job \notin Samplers /\ left <= schema.count /\ left \in Nat /\ Once(parts, workers, left)
  BY <1>1 DEF AllocInv
<1>3. PICK n, k \in Nat : n = Alloc!N /\ n = schema.count /\ k = left /\ k <= n
  BY <1>2, OneJob
<1>4. CASE k < n
  <2>1. PICK w \in 1..workers : parts' = [parts EXCEPT ![w] = Append(@, k)]
    BY <1>1, <1>3, <1>4
  <2>2. Once(parts', workers, k + 1)
    BY <1>2, <1>3, <2>1, OnceMore
  <2>3. left' = k + 1 /\ pc' = "choose" /\ k + 1 <= n /\ k + 1 \in Nat
    BY <1>1, <1>3, <1>4
  <2> QED BY <1>1, <1>2, <1>3, <2>2, <2>3 DEF AllocInv, SameJob
<1>5. CASE ~ (k < n)
  <2>1. pc' = "done" /\ parts' = parts /\ k = n
    BY <1>1, <1>3, <1>5
  <2>2. job \notin Alloc!Methods
    BY <1>1 DEF Alloc!Methods
  <2> QED BY <1>1, <1>2, <1>3, <2>1, <2>2 DEF AllocInv, SameJob
<1> QED BY <1>4, <1>5

-----------------------------------------------------------------------------
\* Five policies assign every rank of a schema to exactly one worker, whatever the
\* seed, the hash and the order, and however many workers there are; every method
\* returns its whole budget, without a repetition unless it draws with replacement,
\* and is refused only when the schema or a branch has fewer ranks than asked for.
THEOREM RanksAreAssignedOnce ==
  ASSUME AllocationAssumption
  PROVE  Alloc!Spec => []Alloc!RanksOnce
<1>1. Alloc!Init => AllocInv
  BY AllocInit
<1>2. AllocInv /\ [Alloc!Next]_(Alloc!vars) => AllocInv'
  <2>1. SUFFICES ASSUME AllocInv, [Alloc!Next]_(Alloc!vars) PROVE AllocInv'
    OBVIOUS
  <2>2. CASE UNCHANGED Alloc!vars
    BY <2>1, <2>2 DEF AllocInv, Alloc!vars
  <2>3. CASE Alloc!Next
    BY <2>1, <2>3, AllocStart, AllocDraw, AllocShuffle, AllocMerge, AllocPickBest, AllocPickDone,
       AllocReplace, AllocBranchUniform, AllocAffine, AllocAssign, AllocHash DEF Alloc!Next
  <2> QED BY <2>1, <2>2, <2>3
<1>3. AllocInv => Alloc!RanksOnce
  <2>1. SUFFICES ASSUME AllocInv PROVE Alloc!RanksOnce
    OBVIOUS
  <2>2. ASSUME pc = "done", job \in Alloc!Methods PROVE Alloc!MethodKept
    <3>1. Returned(output, schema, budget, job) /\ budget \in Nat
      BY <2>1, <2>2 DEF AllocInv
    <3>2. MeasuredSchema(schema) /\ schema.count \in Nat /\ Alloc!N = schema.count
          /\ Alloc!Ranks = Below(schema)
      BY <2>1, OneJob
    <3>3. Len(output) = IF job = "coverage_guided" THEN Alloc!Min({budget, Alloc!N}) ELSE budget
      <4>1. Alloc!Min({budget, schema.count}) = IF budget <= schema.count THEN budget ELSE schema.count
        BY <3>1, <3>2, LesserOf
      <4> QED BY <3>1, <3>2, <4>1 DEF Returned
    <3>4. Elements(output) \subseteq Below(schema)
      BY <3>1 DEF Returned, Elements
    <3>5. ASSUME job = "branch_uniform", NEW I \in Elements(schema.intervals), NEW J \in Elements(schema.intervals)
          PROVE  Cardinality(Elements(output) \cap I) <= Cardinality(Elements(output) \cap J) + 1
      <4>1. PICK i, k \in DOMAIN schema.intervals : I = schema.intervals[i] /\ J = schema.intervals[k]
        BY DEF Elements
      <4> QED BY <3>1, <3>5, <4>1 DEF Returned
    <3>6. ASSUME job = "boundary_biased"
          PROVE  Cardinality(Elements(output) \cap schema.boundary)
                   >= Alloc!Min({Cardinality(schema.boundary), budget \div 2})
      <4>1. PICK c \in Nat : c = Cardinality(schema.boundary)
        BY <3>2, RankSets
      <4>2. PICK h \in Nat : h = budget \div 2
        BY <3>1
      <4>3. Alloc!Min({c, h}) = Half(schema, budget)
        BY <4>1, <4>2, LesserOf DEF Half
      <4>4. Half(schema, budget) <= Cardinality(Elements(output) \cap schema.boundary)
        BY <3>1, <3>6 DEF Returned
      <4>5. Elements(output) \cap schema.boundary \in SUBSET Below(schema)
        BY <3>4
      <4>6. Cardinality(Elements(output) \cap schema.boundary) \in Nat /\ Half(schema, budget) \in Nat
        BY <3>2, <4>1, <4>2, <4>5, RankSets DEF Half
      <4> QED BY <4>1, <4>2, <4>3, <4>4, <4>6
    <3>7. job # "replacement" => Different(output)
      BY <3>1 DEF Returned
    <3> QED BY <3>2, <3>3, <3>4, <3>5, <3>6, <3>7, SameNames DEF Alloc!MethodKept
  <2>3. ASSUME pc = "done", job \notin Alloc!Methods PROVE Alloc!Assigned
    <3>1. PICK n, m \in Nat : n = schema.count /\ m = workers /\ Once(parts, m, n)
      BY <2>1, <2>3, OneJob DEF AllocInv
    <3>2. parts \in [1..m -> Seq(0..n - 1)]
      BY <3>1 DEF Once
    <3>3. Len(parts) = m
      BY <3>2, SequenceOf
    <3>4. ASSUME NEW w \in 1..m PROVE Elements(parts[w]) \subseteq 0..n - 1
      <4>1. parts[w] \in Seq(0..n - 1)
        BY <3>2
      <4> QED BY <4>1 DEF Elements
    <3>5. ASSUME NEW r \in 0..n - 1
          PROVE  Cardinality({p \in UNION {{w} \X DOMAIN parts[w] : w \in 1..m} : parts[p[1]][p[2]] = r}) = 1
      BY <3>1, OncePlace
    <3>6. Alloc!Ranks = 0..n - 1 /\ Alloc!Places = UNION {{w} \X DOMAIN parts[w] : w \in 1..m}
      BY <3>1 DEF Alloc!Ranks, Alloc!N, Alloc!Places
    <3> QED BY <3>1, <3>3, <3>4, <3>5, <3>6, SameNames DEF Alloc!Assigned
  <2>4. ASSUME pc = "refused"
        PROVE  \/ budget > Alloc!N
               \/ \E i \in DOMAIN schema.intervals : Alloc!Cardinality(schema.intervals[i]) < Alloc!Share(i)
    <3>1. TooMuch(schema, budget) /\ budget \in Nat
      BY <2>1, <2>4 DEF AllocInv
    <3> QED BY <2>1, <3>1, OneJob, SameNames DEF TooMuch
  <2> QED BY <2>2, <2>3, <2>4 DEF Alloc!RanksOnce
<1> QED BY <1>1, <1>2, <1>3, PTL DEF Alloc!Spec

=============================================================================
