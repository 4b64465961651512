----------------------------- MODULE Allocation -----------------------------
(***************************************************************************)
(* How the second paper chooses ranks and hands them to workers: Floyd's   *)
(* sample, the affine permutation and the partitions of a schema           *)
(* (src/paper/arxiv_v2/src/pdrs_v2.py 339-375), and the selection methods  *)
(* and allocations of its experiments (run_phase1_9.py 261-297, 342-355).  *)
(* A draw of the random number generator is any value it can return, and   *)
(* so is the hash of a rank.                                               *)
(***************************************************************************)
EXTENDS Integers, FiniteSets, SequencesExt

CONSTANTS Schemas,   \* [count, intervals, boundary, features]: what is known of a schema
          Budgets,
          Workers,
          Window     \* how many candidates the coverage-guided method compares

Methods == {"pdrs_no_replacement", "replacement", "branch_uniform",
            "boundary_biased", "coverage_guided"}
Policies == {"contiguous", "strided", "permuted", "hash", "central_shuffle"}

VARIABLES schema, budget, workers, job, pc,
          left,        \* how many ranks a sample still has to draw, or are hashed
          selected,    \* a set, and
          candidates,  \* a list of ranks that are still to be considered
          output,      \* the sequence a method returns
          multiplier,  \* of the affine permutation
          parts        \* the parts a policy returns

vars == <<schema, budget, workers, job, pc, left, selected, candidates, output, multiplier, parts>>

N == schema.count
Ranks == 0..N - 1

\* How many ranks the sample behind a method has.
Drawn ==
  IF job = "coverage_guided" THEN Min({N, budget * 3}) ELSE budget

Init ==
  /\ schema \in Schemas
  /\ \/ job \in Methods /\ budget \in Budgets /\ workers = 1
     \/ job \in Policies /\ budget = 0 /\ workers \in Workers
  /\ pc = "start"
  /\ left = 0
  /\ selected = {}
  /\ candidates = <<>>
  /\ output = <<>>
  /\ multiplier = 0
  /\ parts = <<>>

\* The check of sample_without_replacement; the others have none of their own.
Start ==
  /\ pc = "start"
  /\ CASE job \in {"pdrs_no_replacement", "boundary_biased", "coverage_guided"} ->
            /\ pc' = IF Drawn \in 0..N THEN "sample" ELSE "refused"
            /\ left' = Drawn
            /\ UNCHANGED multiplier
       [] job = "permuted" ->
            /\ multiplier' \in 1..Max({2, N}) - 1
            /\ pc' = "affine"
            /\ UNCHANGED left
       [] OTHER -> pc' = "choose" /\ UNCHANGED <<left, multiplier>>
  /\ parts' = IF job = "hash" THEN [w \in 1..workers |-> <<>>] ELSE parts
  /\ UNCHANGED <<schema, budget, workers, job, selected, candidates, output>>

-----------------------------------------------------------------------------

\* Variation: a candidate that was drawn before is drawn again as its successor.
FloydNext(chosen, j, candidate) ==
  chosen \cup {IF candidate \in chosen THEN (candidate + 1) % (j + 1) ELSE candidate}

FloydAdd(chosen, j, candidate) ==
  chosen \cup {IF candidate \in chosen THEN j ELSE candidate}

Draw ==
  /\ pc = "sample"
  /\ left > 0
  /\ \E candidate \in 0..N - left : selected' = FloydAdd(selected, N - left, candidate)
  /\ left' = left - 1
  /\ UNCHANGED <<schema, budget, workers, job, pc, candidates, output, multiplier, parts>>

\* rng.shuffle: the set becomes a list in any order.  For the biased method
\* a set of boundary ranks is drawn first; it does not depend on the sample.
Shuffle ==
  /\ pc = "sample"
  /\ left = 0
  /\ \E order \in SetToSeqs(selected) :
       CASE job = "pdrs_no_replacement" ->
              /\ output' = order
              /\ pc' = "done"
              /\ UNCHANGED <<candidates, selected>>
         [] job = "coverage_guided" ->
              /\ candidates' = order
              /\ pc' = "pick"
              /\ UNCHANGED <<output, selected>>
         [] job = "boundary_biased" ->
              /\ candidates' = order
              /\ selected' \in kSubset(Min({Cardinality(schema.boundary), budget \div 2}), schema.boundary)
              /\ pc' = "merge"
              /\ UNCHANGED output
  /\ UNCHANGED <<schema, budget, workers, job, left, multiplier, parts>>

\* Variation: the sample goes on after the budget is met.
MergeAll ==
  /\ pc = "merge"
  /\ IF candidates # <<>>
       THEN /\ selected' = selected \cup {Head(candidates)}
            /\ candidates' = Tail(candidates)
            /\ UNCHANGED <<pc, output>>
       ELSE /\ output' \in SetToSeqs(selected)
            /\ pc' = "done"
            /\ UNCHANGED <<selected, candidates>>
  /\ UNCHANGED <<schema, budget, workers, job, left, multiplier, parts>>

Merge ==
  /\ pc = "merge"
  /\ IF candidates # <<>> /\ Cardinality(selected) # budget
       THEN /\ selected' = selected \cup {Head(candidates)}
            /\ candidates' = Tail(candidates)
            /\ UNCHANGED <<pc, output>>
       ELSE /\ output' \in SetToSeqs(selected)
            /\ pc' = "done"
            /\ UNCHANGED <<selected, candidates>>
  /\ UNCHANGED <<schema, budget, workers, job, left, multiplier, parts>>

\* The first candidate of the window with the most features not covered yet.
PickBest ==
  /\ pc = "pick"
  /\ candidates # <<>>
  /\ Len(output) < budget
  /\ LET covered == UNION {schema.features[r] : r \in ToSet(output)}
         New(i) == Cardinality(schema.features[candidates[i]] \ covered)
         window == 1..Min({Window, Len(candidates)})
         best == Min({i \in window : \A k \in window : New(k) <= New(i)})
     IN  /\ output' = Append(output, candidates[best])
         /\ candidates' = RemoveAt(candidates, best)
  /\ UNCHANGED <<schema, budget, workers, job, pc, left, selected, multiplier, parts>>

PickDone ==
  /\ pc = "pick"
  /\ candidates = <<>> \/ Len(output) >= budget
  /\ pc' = "done"
  /\ UNCHANGED <<schema, budget, workers, job, left, selected, candidates, output, multiplier, parts>>

\* replacement: every draw is a draw of its own.
Replace ==
  /\ pc = "choose"
  /\ job = "replacement"
  /\ output' \in [1..budget -> Ranks]
  /\ pc' = "done"
  /\ UNCHANGED <<schema, budget, workers, job, left, selected, candidates, multiplier, parts>>

\* How many ranks branch_uniform takes from each branch of the root.
Share(i) ==
  LET branches == Len(schema.intervals)
  IN  (budget \div branches) + (IF i - 1 < budget % branches THEN 1 ELSE 0)

\* rng.sample raises where a branch is smaller than its share.
BranchUniform ==
  /\ pc = "choose"
  /\ job = "branch_uniform"
  /\ IF \A i \in DOMAIN schema.intervals : Share(i) <= Cardinality(schema.intervals[i])
       THEN /\ \E picked \in {p \in SUBSET Ranks : \A i \in DOMAIN schema.intervals :
                                Cardinality(p \cap schema.intervals[i]) = Share(i)} :
                 output' \in SetToSeqs(picked)
            /\ pc' = "done"
       ELSE pc' = "refused" /\ UNCHANGED output
  /\ UNCHANGED <<schema, budget, workers, job, left, selected, candidates, multiplier, parts>>

-----------------------------------------------------------------------------

Gcd(a, b) == Max({d \in 1..b : a % d = 0 /\ b % d = 0})

\* The next multiplier, wrapping round to 1 and not to 0.
Affine ==
  /\ pc = "affine"
  /\ IF Gcd(multiplier, N) = 1
       THEN pc' = "choose" /\ UNCHANGED multiplier
       ELSE /\ multiplier' = IF (multiplier + 1) % N = 0 THEN 1 ELSE (multiplier + 1) % N
            /\ UNCHANGED pc
  /\ UNCHANGED <<schema, budget, workers, job, left, selected, candidates, output, parts>>

Cut(list, w) ==
  SubSeq(list, ((w - 1) * N) \div workers + 1, (w * N) \div workers)

InOrder == [i \in 1..N |-> i - 1]

Contiguous == [w \in 1..workers |-> Cut(InOrder, w)]

\* range(w - 1, N, workers)
Strided ==
  [w \in 1..workers |-> [i \in 1..(N - w + workers) \div workers |-> (w - 1) + (i - 1) * workers]]

Permuted(offset) ==
  [w \in 1..workers |->
     [i \in DOMAIN Contiguous[w] |-> (multiplier * Contiguous[w][i] + offset) % N]]

Central(order) == [w \in 1..workers |-> Cut(order, w)]

Assignment(policy) ==
  CASE policy = "contiguous" -> parts' = Contiguous
    [] policy = "strided" -> parts' = Strided
    [] policy = "permuted" -> \E offset \in Ranks : parts' = Permuted(offset)
    [] policy = "central_shuffle" -> \E order \in SetToSeqs(Ranks) : parts' = Central(order)

Assign ==
  /\ pc = "choose"
  /\ job \in Policies \ {"hash"}
  /\ Assignment(job)
  /\ pc' = "done"
  /\ UNCHANGED <<schema, budget, workers, job, left, selected, candidates, output, multiplier>>

\* The next rank, the left-th, goes to the worker its digest chooses.
Hash ==
  /\ pc = "choose"
  /\ job = "hash"
  /\ IF left < N
       THEN /\ \E w \in 1..workers : parts' = [parts EXCEPT ![w] = Append(@, left)]
            /\ left' = left + 1
            /\ UNCHANGED pc
       ELSE pc' = "done" /\ UNCHANGED <<left, parts>>
  /\ UNCHANGED <<schema, budget, workers, job, selected, candidates, output, multiplier>>

Next ==
  \/ Start \/ Draw \/ Shuffle \/ Merge \/ PickBest \/ PickDone
  \/ Replace \/ BranchUniform \/ Affine \/ Assign \/ Hash

Spec == Init /\ [][Next]_vars

-----------------------------------------------------------------------------

\* Floyd's algorithm as a function of its draws, the j-th from 0..j.
Floyd(draws) ==
  LET chosen[k \in 0..budget] ==
        IF k = 0 THEN {} ELSE FloydAdd(chosen[k - 1], N - budget + k - 1, draws[k])
  IN  chosen[budget]

Draws == {d \in [1..budget -> Ranks] : \A k \in 1..budget : d[k] <= N - budget + k - 1}

\* The sample is uniform: it has as many ranks as were asked for, and each set
\* of that size comes from the same number of equally likely draws, one for
\* each order of its members (pdrs_v2.py 340-349).
UniformSample ==
  pc = "done" /\ job = "pdrs_no_replacement" =>
    /\ ToSet(output) \in kSubset(budget, Ranks)
    /\ LET factorial[k \in 0..budget] == IF k = 0 THEN 1 ELSE k * factorial[k - 1]
       IN  Cardinality({d \in Draws : Floyd(d) = ToSet(output)}) = factorial[budget]

\* What a method returns; what a policy assigns.
MethodKept ==
  /\ Len(output) = (IF job = "coverage_guided" THEN Min({budget, N}) ELSE budget)
  /\ ToSet(output) \subseteq Ranks
  /\ job # "replacement" => IsInjective(output)
  /\ job = "branch_uniform" =>
       \A I, J \in ToSet(schema.intervals) :
         Cardinality(ToSet(output) \cap I) <= Cardinality(ToSet(output) \cap J) + 1
  /\ job = "boundary_biased" =>
       Cardinality(ToSet(output) \cap schema.boundary) >= Min({Cardinality(schema.boundary), budget \div 2})

Places == UNION {{w} \X DOMAIN parts[w] : w \in 1..workers}

Assigned ==
  /\ Len(parts) = workers
  /\ \A w \in 1..workers : ToSet(parts[w]) \subseteq Ranks
  /\ \A r \in Ranks : Cardinality({p \in Places : parts[p[1]][p[2]] = r}) = 1

\* No rank is run twice and none is lost.  The five policies assign every rank
\* exactly once (arxiv_v2/paper/main.tex:254), also with more workers than ranks.  Every
\* method but drawing with replacement returns its whole budget (the
\* coverage-guided one the whole domain, when that is less) without a
\* repetition, whatever the sample, the boundary and the features overlap in;
\* branch_uniform balances the branches to within one rank and refuses only
\* when a branch is too small for that (run_phase1_9.py 261-297, 342-355).
RanksOnce ==
  /\ pc = "done" => IF job \in Methods THEN MethodKept ELSE Assigned
  /\ pc = "refused" => \/ budget > N
                       \/ \E i \in DOMAIN schema.intervals : Cardinality(schema.intervals[i]) < Share(i)

=============================================================================
