------------------------------ MODULE Fuzzing ------------------------------
(***************************************************************************)
(* The fuzzing baselines (src/pdrs/fuzzing.py): four sources of values run *)
(* on one schema with one budget, what each run reports, and how much the  *)
(* workers of a campaign overlap.  A draw of the random number generator   *)
(* is any value it can return.  run_fuzz_methods seeds a new generator for *)
(* each source and shares nothing else but the candidates, so a behaviour  *)
(* follows one source.                                                     *)
(***************************************************************************)
EXTENDS SchemaWords

CONSTANTS Schemas, Budgets,
          BugSets,       \* sets of ranks that a bug sits at
          Workers,
          ModestWidth,   \* the width up to which a range is listed in full
          LoopBound      \* bound: the budget of the sources that propose anything

Sources == {"pdrs", "grammar", "rejection", "mutation"}

VARIABLES schema, budget, bugs, source, pc,
          attempts,     \* how many proposals the loop accepts
          candidates,   \* per depth, the tokens a proposal may have there
          planned,      \* the ranks drawn without replacement
          current,      \* the value that mutations start from
          proposals,    \* every proposal so far, the one in hand last
          report,       \* the counters of _run_values
          parts         \* the sets of ranks of parallel_overlap

vars == <<schema, budget, bugs, source, pc, attempts, candidates, planned, current, proposals,
          report, parts>>

\* direct_grammar_value: any walk from a node, each alternative as likely as
\* the others of its node.
RECURSIVE GrammarValues(_, _)
GrammarValues(nodes, name) ==
  LET node == nodes[name]
      Under(token, target) == {<<token>> \o w : w \in GrammarValues(nodes, target)}
  IN  CASE node.type = "terminal" -> {<<>>}
        [] node.type = "choice" ->
             UNION {Under(<<"str", node.branches[i].value>>, node.branches[i].target) :
                      i \in DOMAIN node.branches}
        [] node.type = "range" -> UNION {Under(<<"int", v>>, node.target) : v \in node.start..node.stop}

\* The tokens a node offers: a wide range only five of them.
Offered(node) ==
  LET w == Width(node)
      points == IF w <= ModestWidth
                  THEN [k \in 1..w |-> node.start + k - 1]
                  ELSE <<node.start, node.start + (w \div 4), node.start + (w \div 2),
                         node.start + ((3 * w) \div 4), node.stop>>
  IN  CASE node.type = "terminal" -> <<>>
        [] node.type = "choice" -> [i \in DOMAIN node.branches |-> <<"str", node.branches[i].value>>]
        [] node.type = "range" -> [k \in DOMAIN points |-> <<"int", points[k]>>]

FirstOccurrences(s) ==
  LET kept == SelectSeq([i \in DOMAIN s |-> i], LAMBDA i : \A j \in 1..i - 1 : s[j] # s[i])
  IN  [k \in DOMAIN kept |-> s[kept[k]]]

\* _depth_candidates: the nodes at one depth are a set of str, visited in the
\* order the interpreter hashes them in, which is any order; the result is
\* the set of the lists that can come out.
RECURSIVE DepthCandidates(_, _)
DepthCandidates(nodes, names) ==
  IF names = {} THEN {<<>>}
  ELSE LET Values(order) == FlattenSeq([i \in DOMAIN order |-> Offered(nodes[order[i]])])
           here == {FirstOccurrences(Values(order)) : order \in SetToSeqs(names)}
           below == DepthCandidates(nodes, UNION {ToSet(Targets(nodes[n])) : n \in names})
       IN  {IF h = <<>> THEN b ELSE <<h>> \o b : h \in here, b \in below}

NoReport == [valid |-> 0, ranks |-> <<>>, nodes |-> {}, roots |-> {}, bugs |-> {}, first |-> 0]

Init ==
  /\ schema \in Schemas
  /\ budget \in Budgets
  /\ bugs \in BugSets
  /\ source \in Sources \cup {"overlap"}
  /\ source \in {"grammar", "rejection", "mutation"} => budget <= LoopBound
  /\ pc = "start"
  /\ attempts = 0
  /\ candidates = <<>>
  /\ planned = <<>>
  /\ current = <<>>
  /\ proposals = <<>>
  /\ report = NoReport
  /\ parts = <<>>

Least(a, b) == IF a <= b THEN a ELSE b

\* What a source is given before its loop.
Start ==
  /\ pc = "start"
  /\ source # "overlap"
  /\ attempts' = IF source = "pdrs" THEN Least(budget, CountOf(schema)) ELSE budget
  /\ IF source = "pdrs"
       THEN planned' \in {p \in [1..Least(budget, CountOf(schema)) -> 0..CountOf(schema) - 1] : IsInjective(p)}
       ELSE UNCHANGED planned
  /\ IF source \in {"rejection", "mutation"}
       THEN candidates' \in DepthCandidates(schema.nodes, {schema.root})
       ELSE UNCHANGED candidates
  /\ current' = Unrank(schema, 0)
  /\ pc' = "propose"
  /\ UNCHANGED <<schema, budget, bugs, source, proposals, report, parts>>

Propose(value) ==
  /\ pc = "propose"
  /\ Len(proposals) < attempts
  /\ proposals' = Append(proposals, value)
  /\ pc' = "account"

Drawn ==
  /\ source = "pdrs"
  /\ Propose(Unrank(schema, planned[Len(proposals) + 1]))
  /\ UNCHANGED <<schema, budget, bugs, source, attempts, candidates, planned, current, report, parts>>

Grammar ==
  /\ source = "grammar"
  /\ \E value \in GrammarValues(schema.nodes, schema.root) : Propose(value)
  /\ UNCHANGED <<schema, budget, bugs, source, attempts, candidates, planned, current, report, parts>>

\* naive_candidate: a length, and a candidate for each position up to it.
Naive ==
  /\ source = "rejection"
  /\ \E length \in 1..Len(candidates) :
       \E value \in {v \in [1..length -> UNION {ToSet(candidates[d]) : d \in DOMAIN candidates}] :
                       \A d \in 1..length : v[d] \in ToSet(candidates[d])} : Propose(value)
  /\ UNCHANGED <<schema, budget, bugs, source, attempts, candidates, planned, current, report, parts>>

\* randint(1, 0) raises: the root is a terminal and there is no candidate.
NaiveRaises ==
  /\ source = "rejection"
  /\ pc = "propose"
  /\ Len(proposals) < attempts
  /\ candidates = <<>>
  /\ pc' = "raised"
  /\ UNCHANGED <<schema, budget, bugs, source, attempts, candidates, planned, current, proposals, report, parts>>

\* mutate_value: an operation that does not apply leaves the value as it is.
Mutants(value) ==
  LET n == Len(value)
      replaced == {[value EXCEPT ![i] = c] : <<i, c>> \in
                     UNION {{i} \X ToSet(candidates[i]) : i \in 1..Least(n, Len(candidates))}}
      truncated == {SubSeq(value, 1, k) : k \in 0..n}
      extended == IF n < Len(candidates) THEN {Append(value, c) : c \in ToSet(candidates[n + 1])} ELSE {}
  IN  replaced \cup truncated \cup extended \cup {v \in {value} : n = 0 \/ n >= Len(candidates)}

\* Variation: the proposal is taken up before it is ranked.
MutateAnyway ==
  /\ source = "mutation"
  /\ \E proposal \in Mutants(current) :
       /\ Propose(proposal)
       /\ current' = proposal
  /\ UNCHANGED <<schema, budget, bugs, source, attempts, candidates, planned, report, parts>>

Mutate ==
  /\ source = "mutation"
  /\ \E proposal \in Mutants(current) :
       /\ Propose(proposal)
       /\ current' = IF RankOf(schema, proposal) # {} THEN proposal ELSE current
  /\ UNCHANGED <<schema, budget, bugs, source, attempts, candidates, planned, report, parts>>

\* Variation: the first bug is counted in valid values.
AccountValid ==
  /\ pc = "account"
  /\ pc' = "propose"
  /\ LET value == Last(proposals)
         found == RankOf(schema, value) \cap bugs
     IN  report' =
           IF RankOf(schema, value) = {} THEN report
           ELSE [valid |-> report.valid + 1,
                 ranks |-> report.ranks \o SetToSeq(RankOf(schema, value)),
                 nodes |-> report.nodes \cup UNION {ToSet(t) : t \in Trace(schema, value)},
                 roots |-> report.roots \cup {value[i] : i \in 1..Least(1, Len(value))},
                 bugs |-> report.bugs \cup found,
                 first |-> IF report.first = 0 /\ found # {} THEN report.valid + 1 ELSE report.first]
  /\ UNCHANGED <<schema, budget, bugs, source, attempts, candidates, planned, current, proposals, parts>>

\* The body of the loop; first = 0 stands for None.
Account ==
  /\ pc = "account"
  /\ pc' = "propose"
  /\ LET value == Last(proposals)
         found == RankOf(schema, value) \cap bugs
     IN  report' =
           IF RankOf(schema, value) = {} THEN report
           ELSE [valid |-> report.valid + 1,
                 ranks |-> report.ranks \o SetToSeq(RankOf(schema, value)),
                 nodes |-> report.nodes \cup UNION {ToSet(t) : t \in Trace(schema, value)},
                 roots |-> report.roots \cup {value[i] : i \in 1..Least(1, Len(value))},
                 bugs |-> report.bugs \cup found,
                 first |-> IF report.first = 0 /\ found # {} THEN Len(proposals) ELSE report.first]
  /\ UNCHANGED <<schema, budget, bugs, source, attempts, candidates, planned, current, proposals, parts>>

Finish ==
  /\ pc = "propose"
  /\ Len(proposals) >= attempts
  /\ pc' = "done"
  /\ UNCHANGED <<schema, budget, bugs, source, attempts, candidates, planned, current, proposals, report, parts>>

\* The ranks a worker runs: from the start of its part, within its budget.
Take(part) == part.start..part.start + Least(budget, part.stop - part.start) - 1

Overlap ==
  /\ pc = "start"
  /\ source = "overlap"
  /\ \E workers \in Workers :
       parts' = [w \in 1..workers |-> Take(Partition(schema, w - 1, workers))]
  /\ pc' = "done"
  /\ UNCHANGED <<schema, budget, bugs, source, attempts, candidates, planned, current, proposals, report>>

Next == Start \/ Drawn \/ Grammar \/ Naive \/ NaiveRaises \/ Mutate \/ Account \/ Finish \/ Overlap

Spec == Init /\ [][Next]_vars

-----------------------------------------------------------------------------

Words == ToSet(EnumerateValues(schema))

\* What a run reports is true of the values that were proposed: every number
\* is recomputed here from the list of proposals, refused ones included
\* (fuzzing.py 118-161).
ReportIsTrue ==
  pc = "done" /\ source # "overlap" =>
    LET hits == {i \in DOMAIN proposals : proposals[i] \in Words}
        rank == [i \in hits |-> CHOOSE k \in 0..CountOf(schema) - 1 : Unrank(schema, k) = proposals[i]]
        buggy == {i \in hits : rank[i] \in bugs}
    IN  /\ report.valid = Cardinality(hits) /\ Len(report.ranks) = Cardinality(hits)
        /\ \A i \in hits : report.ranks[Cardinality({j \in hits : j <= i})] = rank[i]
        /\ Cardinality(ToSet(report.ranks)) = Cardinality({proposals[i] : i \in hits})
        /\ report.nodes = UNION {ToSet(t) : t \in UNION {Trace(schema, proposals[i]) : i \in hits}}
        /\ report.roots = {Head(proposals[i]) : i \in {j \in hits : proposals[j] # <<>>}}
        /\ report.bugs = {rank[i] : i \in buggy}
        /\ report.first = IF buggy = {} THEN 0 ELSE Min(buggy)

\* The parts that parallel_overlap counts.
WorkersDisjoint ==
  /\ \A v, w \in DOMAIN parts : v # w => parts[v] \cap parts[w] = {}
  /\ UNION ToSet(parts) \subseteq 0..CountOf(schema) - 1
  /\ budget >= CountOf(schema) => UNION ToSet(parts) = 0..CountOf(schema) - 1

\* What makes the four comparable.  The value that mutations start from is
\* always a word; grammar walks propose nothing but words, and each word can
\* be one; ranks drawn without replacement give distinct words, all of them
\* when the budget reaches the count; the candidates per depth reach every
\* word whose ranges are of modest width (33-115, 164-204).  The workers of a
\* campaign never run a rank twice, whatever their budget is compared with
\* their parts, and skip none when it covers them (207-220;
\* scripts/verify_evidence.py:32 asserts an overlap of 0).
SourcesAreFair ==
  /\ pc = "done" /\ source = "overlap" => WorkersDisjoint
  /\ pc # "start" /\ source # "overlap" => current \in Words
  /\ source = "grammar" => GrammarValues(schema.nodes, schema.root) = Words
  /\ source = "grammar" => ToSet(proposals) \subseteq Words
  /\ source = "pdrs" /\ pc = "done" =>
       /\ IsInjective(proposals)
       /\ IF budget >= CountOf(schema) THEN ToSet(proposals) = Words ELSE ToSet(proposals) \subseteq Words
  /\ source = "rejection" /\ pc # "start" /\ (\A n \in DOMAIN schema.nodes :
                                 schema.nodes[n].type = "range" => Width(schema.nodes[n]) <= ModestWidth) =>
       \A w \in Words : Len(w) <= Len(candidates) /\ \A d \in DOMAIN w : w[d] \in ToSet(candidates[d])
=============================================================================
