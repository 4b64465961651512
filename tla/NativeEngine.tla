---------------------------- MODULE NativeEngine ----------------------------
(***************************************************************************)
(* The C engine (src/native/c/pdrs_native.c), after NativeCount has loaded *)
(* and counted: how it ranks and unranks; and the script that writes the   *)
(* file of a schema and compares the two engines                           *)
(* (src/scripts/native_evidence.py).                                       *)
(***************************************************************************)
EXTENDS NativeCount, FiniteSets

CONSTANT Target  \* ranks compared at least, 2048 in the code

VARIABLES index, failures,  \* of command_verify
          ranks             \* of the ranks file

checking == <<index, failures, ranks>>
vars == <<loading, checking>>

Signed(x) == IF Unsigned(x) < Size \div 2 THEN Unsigned(x) ELSE Unsigned(x) - Size

Init == InitCount /\ index = 0 /\ failures = 0 /\ ranks = {}

-----------------------------------------------------------------------------
\* rank_value and unrank_value, {} when they return -1.  The text of a token
\* tells labels and integers apart.

Label(text) == <<"S", text>>
Integer(value) == <<"I", value>>
CountOf == counts[Root]

\* Variation: an index on the end of a branch belongs to that branch.
SelectedAtEnd(ends, rest) == SelectInSeq(ends, LAMBDA stop : rest <= stop)
\* The first branch with remainder < next, 0 when there is none.
Selected(ends, rest) == SelectInSeq(ends, LAMBDA stop : rest < stop)

RECURSIVE UnrankFrom(_, _)
UnrankFrom(id, rest) ==
  LET node == Nodes[id]
      ends == [i \in DOMAIN Kids(id) |-> Sums(counts, Kids(id))[i]]
  IN  CASE node.type = "T" -> IF rest = 0 THEN {<<>>} ELSE {}
        [] node.type = "C" ->
             LET i == Selected(ends, rest)
             IN  IF i = 0 THEN {}
                 ELSE {<<Label(node.branches[i].value)>> \o w :
                         w \in UnrankFrom(Kids(id)[i], rest - Sums(counts, Kids(id))[i - 1])}
        [] node.type = "R" ->
             LET block == counts[Kids(id)[1]]
                 value == Signed(node.start + (rest \div block))
             IN  IF value > node.stop THEN {}
                 ELSE {<<Integer(value)>> \o w : w \in UnrankFrom(Kids(id)[1], rest % block)}

Unrank(i) == IF i >= CountOf THEN {} ELSE UnrankFrom(Root, i)

\* Offsets and ranks stay below the count of the root, which is a word, so the
\* checks of checked_add and checked_mul cannot fail here.
RECURSIVE RankFrom(_, _)
RankFrom(id, tokens) ==
  LET node == Nodes[id]
  IN  CASE node.type = "T" -> IF tokens = <<>> THEN {0} ELSE {}
        [] node.type = "C" /\ tokens # <<>> ->
             LET i == SelectInSeq(node.branches, LAMBDA b : Label(b.value) = Head(tokens))
             IN  IF i = 0 THEN {}
                 ELSE {Sums(counts, Kids(id))[i - 1] + r : r \in RankFrom(Kids(id)[i], Tail(tokens))}
        [] node.type = "R" /\ tokens # <<>> ->
             IF \A v \in node.start..node.stop : Head(tokens) # Integer(v) THEN {}
             ELSE LET block == counts[Kids(id)[1]]
                      local == Unsigned(Head(tokens)[2] - node.start)
                  IN  {local * block + r : r \in RankFrom(Kids(id)[1], Tail(tokens))}
        [] OTHER -> {}

Rank(tokens) == RankFrom(Root, tokens)

\* command_verify
Verify ==
  /\ pc = "ready" /\ index < CountOf
  /\ failures' = IF \E w \in Unrank(index) : Rank(w) = {index} THEN failures ELSE failures + 1
  /\ index' = index + 1
  /\ UNCHANGED <<loading, ranks>>

EndVerify ==
  /\ pc = "ready" /\ index = CountOf
  /\ pc' = "verified"
  /\ UNCHANGED <<file, states, counts, stack, arg, answer, checking>>

-----------------------------------------------------------------------------
\* The files that export_ir writes, of documents CompiledSchema accepts.

Labelled(id) ==
  Nodes[id].type = "C" => IsInjective([i \in DOMAIN Nodes[id].branches |-> Nodes[id].branches[i].value])
Exported == IsInjective([i \in Ids |-> Nodes[i].name]) /\ \A id \in Ids : Labelled(id)

\* The words of a node by the reference implementation, in its order.
RECURSIVE Words(_)
Words(id) ==
  LET node == Nodes[id]
      behind(token, name) == [i \in DOMAIN Words(Find(name)) |-> <<token>> \o Words(Find(name))[i]]
  IN  CASE node.type = "T" -> <<(<<>>)>>
        [] node.type = "C" -> FlattenSeq([i \in DOMAIN node.branches |->
                                behind(Label(node.branches[i].value), node.branches[i].target)])
        [] node.type = "R" -> FlattenSeq([i \in 1..node.stop - node.start + 1 |->
                                behind(Integer(node.start + i - 1), node.target)])

\* deterministic_ranks: all of them, or some always and others at random.
Fixed(count) == {0, 1, count \div 4, count \div 2, (3 * count) \div 4, count - 2, count - 1}
RanksOf(count) ==
  IF count <= Target THEN {0..count - 1}
  ELSE {Fixed(count) \cup extra :
          extra \in {e \in SUBSET ((0..count - 1) \ Fixed(count)) :
                       Cardinality(e) = Max({0, Target - Cardinality(Fixed(count))})}}

Mismatches(chosen, expected) == {r \in chosen : Unrank(r) # {expected[r + 1]}}

\* The comparison of execute.  command_vectors dies at a rank it does not take.
Compare ==
  /\ pc = "verified" /\ Exported
  /\ LET expected == Words(Root)
     IN  /\ ranks' \in RanksOf(Len(expected))
         /\ IF \E r \in ranks' : Unrank(r) = {} THEN pc' = "died" /\ UNCHANGED failures
            ELSE /\ pc' = "reported"
                 /\ failures' = failures + Cardinality(Mismatches(ranks', expected))
  /\ UNCHANGED <<file, states, counts, stack, arg, answer, index>>

Next ==
  \/ NextCount /\ UNCHANGED checking
  \/ Verify \/ EndVerify \/ Compare

Spec == Init /\ [][Next]_vars

-----------------------------------------------------------------------------
\* The conformance report is about the engine: verify finds no failure exactly
\* when no two branches of a node have the same label, and then the comparison
\* with the reference finds none either, having looked at both ends of the
\* domain and at no fewer ranks than asked for.
ConformanceIsTrue ==
  /\ pc = "verified" => (failures = 0 <=> \A id \in Ids : Labelled(id))
  /\ pc = "reported" =>
       /\ failures = 0
       /\ {0, CountOf - 1} \subseteq ranks
       /\ Cardinality(ranks) >= Min({Target, CountOf})
=============================================================================
