----------------------------- MODULE Generators -----------------------------
(***************************************************************************)
(* The programs that write schemas for the experiments                     *)
(* (src/pdrs/generators.py; random_tree_schema of run_phase1_9.py).  Four  *)
(* are loops and become functions of their parameters; three recurse, with *)
(* a counter and a dict shared by all calls, and become a machine whose    *)
(* stack holds the calls that wait for a target.  A draw of the random     *)
(* number generator is any value it can return.                            *)
(*                                                                         *)
(* A node name is the pair of its prefix and its number, a branch label    *)
(* and a field any value that tells them apart.                            *)
(***************************************************************************)
EXTENDS PdrsSchema, FiniteSetsExt, SequencesExt

CONSTANTS Radices, YearSpans, Layers, BranchSizes,  \* parameters of the loops
          MaxDepth, MaxBranches, MaxRange,          \* parameters of the trees
          NodeLimit                                 \* 30 in run_phase1_9.py:90

VARIABLES kind,     \* the generator that runs
          given,    \* its parameters
          pc, nodes, root,
          counter,  \* how many names were given out
          stack,    \* the calls that are waiting for a target, innermost last
          value     \* the name the last call returned, <<>> while one runs

vars == <<kind, given, pc, nodes, root, counter, stack, value>>

Trees == {"random_tree", "balanced_tree", "v2_tree"}
End == <<"end", 0>>
Terminal == [type |-> "terminal"]
RangeOf(field, start, stop, target) ==
  [type |-> "range", field |-> field, start |-> start, stop |-> stop, target |-> target]
ChoiceOf(field, branches) == [type |-> "choice", field |-> field, branches |-> branches]
To(label, target) == [value |-> label, target |-> target]

FixedRadix(radices) ==
  [n \in {End} \cup {<<"digit", i>> : i \in DOMAIN radices} |->
     IF n = End THEN Terminal
     ELSE RangeOf(n, 0, radices[n[2]] - 1, IF n[2] = Len(radices) THEN End ELSE <<"digit", n[2] + 1>>)]

\* calendar.monthrange(year, month)[1]
MonthRange(year, month) ==
  CASE month = 2 -> IF year % 4 = 0 /\ (year % 100 # 0 \/ year % 400 = 0) THEN 29 ELSE 28
    [] month \in {4, 6, 9, 11} -> 30
    [] OTHER -> 31

Calendar(first, last) ==
  LET days == {<<"days", y, m>> : y \in first..last, m \in 1..12}
      months == {<<"months", y>> : y \in first..last}
  IN  [n \in {End, <<"year">>} \cup days \cup months |->
         CASE n[1] = "end" -> Terminal
           [] n[1] = "days" -> RangeOf("day", 1, MonthRange(n[2], n[3]), End)
           [] n[1] = "months" -> ChoiceOf("month", [m \in 1..12 |-> To(m, <<"days", n[2], m>>)])
           [] n[1] = "year" -> ChoiceOf("year", [k \in 1..last - first + 1 |->
                                                   To(first + k - 1, <<"months", first + k - 1>>)])]

LayeredDag(depth, factor, width) ==
  LET below(l) == IF l = depth THEN End ELSE <<"choice", l + 1>>
      kinds == IF width > 1 THEN {"choice", "range"} ELSE {"choice"}
  IN  [n \in {End} \cup (kinds \X (1..depth)) |->
         CASE n[1] = "end" -> Terminal
           [] n[1] = "range" -> RangeOf(n, 0, width - 1, below(n[2]))
           [] n[1] = "choice" -> ChoiceOf(n, [b \in 1..factor |->
                To(b, IF width > 1 THEN <<"range", n[2]>> ELSE below(n[2]))])]

Imbalanced(sizes) ==
  [n \in {End, <<"root", 0>>} \cup {<<"branch", i>> : i \in DOMAIN sizes} |->
     CASE n[1] = "end" -> Terminal
       [] n[1] = "branch" -> RangeOf("value", 0, sizes[n[2]] - 1, End)
       [] n[1] = "root" -> ChoiceOf("branch", [i \in DOMAIN sizes |-> To(i, <<"branch", i>>)])]

Given(what) ==
  CASE what = "fixed_radix" -> Radices
    [] what = "calendar" -> YearSpans
    [] what = "layered_dag" -> Layers
    [] what = "imbalanced" -> BranchSizes
    [] what = "balanced_tree" -> (0..MaxDepth) \X (1..MaxBranches)
    [] what = "random_tree" -> {<<MaxDepth>>}
    [] what = "v2_tree" -> {<<d>> : d \in 1..MaxDepth}

Init ==
  /\ kind \in {"fixed_radix", "calendar", "layered_dag", "imbalanced"} \cup Trees
  /\ given \in Given(kind)
  /\ pc = "start"
  /\ nodes = <<>>
  /\ root = <<>>
  /\ counter = 0
  /\ stack = <<>>
  /\ value = <<>>

Positive(s) == s # <<>> /\ \A i \in DOMAIN s : s[i] > 0

\* The ValueError of each generator.
Refuse ==
  /\ pc = "start"
  /\ \/ kind \in {"fixed_radix", "layered_dag", "imbalanced"} /\ ~ Positive(given)
     \/ kind = "calendar" /\ given[2] < given[1]
  /\ pc' = "refused"
  /\ UNCHANGED <<kind, given, nodes, root, counter, stack, value>>

Generate ==
  /\ pc = "start"
  /\ \/ /\ kind = "fixed_radix" /\ Positive(given)
        /\ nodes' = FixedRadix(given) /\ root' = <<"digit", 1>>
     \/ /\ kind = "calendar" /\ given[1] <= given[2]
        /\ nodes' = Calendar(given[1], given[2]) /\ root' = <<"year">>
     \/ /\ kind = "layered_dag" /\ Positive(given)
        /\ nodes' = LayeredDag(given[1], given[2], given[3]) /\ root' = <<"choice", 1>>
     \/ /\ kind = "imbalanced" /\ Positive(given)
        /\ nodes' = Imbalanced(given) /\ root' = <<"root", 0>>
  /\ pc' = "done"
  /\ UNCHANGED <<kind, given, counter, stack, value>>

-----------------------------------------------------------------------------
(* The recursive builders.  A frame is one call of build: the depth it was *)
(* called with, and once it has a name how many targets it waits for.      *)

Call(depth) == [depth |-> depth, name |-> <<>>, form |-> "", wanted |-> 0, targets |-> <<>>]
Top == Last(stack)
Replaced(frame) == Append(Front(stack), frame)

Begin ==
  /\ pc = "start"
  /\ kind \in Trees
  /\ stack' = <<Call(IF kind = "v2_tree" THEN given[1] ELSE 0)>>
  /\ nodes' = IF kind = "v2_tree" THEN End :> Terminal ELSE nodes
  /\ pc' = "build"
  /\ UNCHANGED <<kind, given, root, counter, value>>

\* Variation: a node is named by its depth.
NewNameByDepth(prefix) == <<prefix, Top.depth>>

\* The name is taken when the call starts, before those of the calls below.
NewName(prefix) == <<prefix, counter + 1>>

Entering == pc = "build" /\ value = <<>> /\ stack # <<>> /\ Top.name = <<>>

Return(name) == value' = name /\ stack' = Front(stack)

Leaf ==
  /\ Entering
  /\ \/ kind = "random_tree" /\ (Top.depth > 0 \/ Top.depth >= MaxDepth)
     \/ kind = "balanced_tree" /\ Top.depth = given[1]
  /\ nodes' = (NewName("end") :> Terminal) @@ nodes
  /\ counter' = counter + 1
  /\ Return(NewName("end"))
  /\ UNCHANGED <<kind, given, pc, root>>

\* The second builder returns the one terminal, and must when it has made
\* more than NodeLimit nodes.
SharedLeaf ==
  /\ Entering
  /\ kind = "v2_tree"
  /\ Top.depth = 0 \/ counter > NodeLimit
  /\ Return(End)
  /\ UNCHANGED <<kind, given, pc, nodes, root, counter>>

Inner ==
  \/ kind = "random_tree" /\ Top.depth < MaxDepth
  \/ kind = "balanced_tree" /\ Top.depth # given[1]
  \/ kind = "v2_tree" /\ Top.depth > 0 /\ counter <= NodeLimit

Open(form) ==
  /\ Entering
  /\ Inner
  /\ kind = "balanced_tree" => form = "choice"
  /\ \E wanted \in CASE form = "range" -> {1}
                     [] kind = "balanced_tree" -> {given[2]}
                     [] OTHER -> 2..MaxBranches :
       stack' = Replaced([Top EXCEPT !.name = NewName(form), !.form = form, !.wanted = wanted])
  /\ counter' = counter + 1
  /\ UNCHANGED <<kind, given, pc, nodes, root, value>>

\* The next build(...) of a loop over the branches, or of a range.
Recurse ==
  /\ pc = "build"
  /\ value = <<>>
  /\ stack # <<>>
  /\ Top.name # <<>>
  /\ Len(Top.targets) < Top.wanted
  /\ stack' = Append(stack, Call(IF kind = "v2_tree" THEN Top.depth - 1 ELSE Top.depth + 1))
  /\ UNCHANGED <<kind, given, pc, nodes, root, counter, value>>

Receive ==
  /\ pc = "build"
  /\ value # <<>>
  /\ stack # <<>>
  /\ stack' = Replaced([Top EXCEPT !.targets = Append(@, value)])
  /\ value' = <<>>
  /\ UNCHANGED <<kind, given, pc, nodes, root, counter>>

\* In the second builder a field is named after its node, in the first after
\* the depth.
Field == IF kind = "v2_tree" THEN Top.name ELSE <<Top.form, Top.depth>>

Store(form) ==
  /\ pc = "build"
  /\ value = <<>>
  /\ stack # <<>>
  /\ Top.form = form
  /\ Len(Top.targets) = Top.wanted
  /\ IF form = "choice"
       THEN nodes' = (Top.name :> ChoiceOf(Field, [i \in 1..Top.wanted |-> To(i, Top.targets[i])])) @@ nodes
       ELSE \E width \in (IF kind = "v2_tree" THEN 2 ELSE 1)..MaxRange :
              nodes' = (Top.name :> RangeOf(Field, 0, width - 1, Top.targets[1])) @@ nodes
  /\ Return(Top.name)
  /\ UNCHANGED <<kind, given, pc, root, counter>>

RECURSIVE Closure(_, _)
Closure(pending, reached) ==
  IF pending = {} THEN reached
  ELSE Closure(UNION {ToSet(Targets(nodes[n])) : n \in pending} \ (reached \cup pending),
               reached \cup pending)

Reached(from) == Closure({from}, {})

\* The second builder keeps only what it reaches from its root.
FinishTree ==
  /\ pc = "build"
  /\ value # <<>>
  /\ stack = <<>>
  /\ root' = value
  /\ nodes' = IF kind = "v2_tree" THEN [n \in Reached(value) |-> nodes[n]] ELSE nodes
  /\ pc' = "done"
  /\ UNCHANGED <<kind, given, counter, stack, value>>

OpenRange == Open("range")
OpenChoice == Open("choice")
StoreRange == Store("range")
StoreChoice == Store("choice")

Next ==
  \/ Refuse \/ Generate \/ Begin \/ Leaf \/ SharedLeaf \/ OpenRange \/ OpenChoice \/ Recurse
  \/ Receive \/ StoreRange \/ StoreChoice \/ FinishTree

Spec == Init /\ [][Next]_vars

-----------------------------------------------------------------------------

\* The number of words and the fields on the paths below a node.
RECURSIVE Size(_)
Size(n) ==
  LET node == nodes[n]
  IN  CASE node.type = "terminal" -> 1
        [] node.type = "choice" ->
             FoldSeq(LAMBDA b, sum : Size(b.target) + sum, 0, node.branches)
        [] node.type = "range" -> Width(node) * Size(node.target)

RECURSIVE FieldPaths(_)
FieldPaths(n) ==
  IF nodes[n].type = "terminal" THEN {<<>>}
  ELSE UNION {{<<nodes[n].field>> \o p : p \in FieldPaths(t)} : t \in ToSet(Targets(nodes[n]))}

\* Every document that is generated is one the constructor accepts: closed,
\* acyclic, all of it reachable, labels distinct and ranges not empty; no path
\* records a field twice, as the constructor of the second paper demands.  In
\* an explicit tree every node but the root has one edge into it, though all
\* calls share one counter and one dict, and no path is longer than the depth
\* asked for.
GeneratedCompiles ==
  pc = "done" =>
    /\ \A n \in DOMAIN nodes :
         /\ ToSet(Targets(nodes[n])) \subseteq DOMAIN nodes
         /\ n \notin UNION {Reached(t) : t \in ToSet(Targets(nodes[n]))}
         /\ nodes[n].type = "choice" => nodes[n].branches # <<>> /\ DistinctValues(nodes[n])
         /\ nodes[n].type = "range" => nodes[n].start <= nodes[n].stop
    /\ Reached(root) = DOMAIN nodes
    /\ kind # "calendar" => \A p \in FieldPaths(root) : IsInjective(p)
    /\ kind \in Trees => \A p \in FieldPaths(root) : Len(p) <= MaxDepth
    /\ kind \in {"random_tree", "balanced_tree"} =>
         \A n \in DOMAIN nodes : Cardinality(EdgesInto(nodes, n)) = IF n = root THEN 0 ELSE 1

Product(s) == FoldSeq(LAMBDA a, b : a * b, 1, s)

\* The days from the start of year 1 to the start of a year.
DaysBefore(year) ==
  LET y == year - 1 IN 365 * y + (y \div 4) - (y \div 100) + (y \div 400)

\* The domain of a generated schema has the size its name promises: the
\* product of the radices, the days of the years, (factor * width)^depth words
\* from a number of nodes linear in the depth, the sum of the branch sizes,
\* factor^depth leaves.
GeneratedCounts ==
  pc = "done" =>
    CASE kind = "fixed_radix" -> Size(root) = Product(given)
      [] kind = "calendar" -> Size(root) = DaysBefore(given[2] + 1) - DaysBefore(given[1])
      [] kind = "layered_dag" -> /\ Size(root) = (given[2] * given[3]) ^ given[1]
                                 /\ Cardinality(DOMAIN nodes) <= 2 * given[1] + 1
      [] kind = "imbalanced" -> Size(root) = FoldSeq(LAMBDA a, b : a + b, 0, given)
      [] kind = "balanced_tree" ->
           /\ Size(root) = given[2] ^ given[1]
           /\ Cardinality(DOMAIN nodes) = FoldSet(LAMBDA l, sum : given[2] ^ l + sum, 0, 0..given[1])
      [] OTHER -> Cardinality(DOMAIN nodes) <= counter + 1

\* A generator writes what it is asked for: a document the constructor accepts,
\* with the paths and the count its name promises (generators.py 8-204,
\* run_phase1_9.py 81-117).
GeneratedIsSound == GeneratedCompiles /\ GeneratedCounts
=============================================================================
