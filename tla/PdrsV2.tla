------------------------------- MODULE PdrsV2 -------------------------------
(***************************************************************************)
(* The typed schema of the second paper                                    *)
(* (src/paper/arxiv_v2/src/pdrs_v2.py): strings are brought to Unicode     *)
(* normal form, nodes carry the name of a field, tokens are typed, and a   *)
(* word is lowered to a record.  The constructor is a state machine; what  *)
(* a compiled schema answers is a set of operators, where the empty set    *)
(* stands for a raised SchemaError.                                        *)
(*                                                                         *)
(* A document is [root, entries], entries being the pairs of the nodes     *)
(* mapping in order.  A node without a field has field = "".  A malformed  *)
(* node stands for every node that lines 106-120, 131-134 and 143 refuse.  *)
(***************************************************************************)
EXTENDS FieldCheck, Functions

CONSTANTS Documents,  \* the documents the constructor may be given
          MaxNodes, MaxDepth, MaxRangeWidth, MaxDomain  \* Limits

VARIABLES order,         \* nodes still to be counted, targets first
          counts, depths,
          offsets, ends  \* _choice_lookup and _choice_ends

tables == <<order, counts, depths, offsets, ends>>
vars == <<checked, tables>>

NormalNode(name, raw) ==
  LET field == IF raw.field = "" THEN name ELSE Nfc[raw.field]
  IN  CASE raw.type = "choice" ->
             [raw EXCEPT !.field = field,
                         !.branches = [i \in DOMAIN @ |-> [value |-> Nfc[@[i].value],
                                                           target |-> Nfc[@[i].target]]]]
        [] raw.type = "range" -> [raw EXCEPT !.field = field, !.target = Nfc[@]]
        [] OTHER -> raw

\* The pairs are visited in the order of their normalised names, in a stable
\* sort, and written into a dict: of two equal names the last one stays.
Canonical(entries) ==
  [n \in {Nfc[entries[i].name] : i \in DOMAIN entries} |->
     NormalNode(n, entries[Max({i \in DOMAIN entries : Nfc[entries[i].name] = n})].raw)]

ParseNode(node) ==
  \/ node.type = "terminal"
  \/ /\ node.type = "choice"
     /\ node.branches # <<>>
     /\ DistinctValues(node)
  \/ /\ node.type = "range"
     /\ node.start <= node.stop
     /\ Width(node) <= MaxRangeWidth

Init ==
  /\ doc \in Documents
  /\ nodes = <<>>
  /\ pc = "parse"
  /\ verdict = "none"
  /\ pending = <<>>
  /\ visited = {}
  /\ order = <<>>
  /\ counts = <<>>
  /\ depths = <<>>
  /\ offsets = <<>>
  /\ ends = <<>>

Parse ==
  /\ pc = "parse"
  /\ nodes' = Canonical(doc.entries)
  /\ IF /\ DOMAIN nodes' # {}
        /\ Cardinality(DOMAIN nodes') <= MaxNodes
        /\ \A n \in DOMAIN nodes' : ParseNode(nodes'[n])
        /\ Root \in DOMAIN nodes'
       THEN Go("graph")
       ELSE Refuse("parse")
  /\ UNCHANGED <<doc, pending, visited, order, counts, depths, offsets, ends>>

RECURSIVE Reachable(_, _)
Reachable(stack, seen) ==
  IF stack = <<>> THEN seen
  ELSE LET n == Last(stack)
       IN  IF n \in seen THEN Reachable(Front(stack), seen)
           ELSE Reachable(Front(stack) \o Targets(nodes[n]), seen \cup {n})

\* Kahn's algorithm: left[n] edges into n have not been taken off yet.  A
\* target is queued where its last edge is.
RECURSIVE Kahn(_, _, _)
Kahn(queue, left, done) ==
  IF queue = <<>> THEN done
  ELSE LET ts == Targets(nodes[Head(queue)])
           Times(n, i) == Cardinality({j \in 1..i : ts[j] = n})
           freed == SelectSeq([i \in DOMAIN ts |-> i], LAMBDA i : Times(ts[i], i) = left[ts[i]])
       IN  Kahn(Tail(queue) \o [k \in DOMAIN freed |-> ts[freed[k]]],
                [n \in DOMAIN left |-> left[n] - Times(n, Len(ts))],
                Append(done, Head(queue)))

InDegree == [n \in DOMAIN nodes |-> Cardinality(EdgesInto(nodes, n))]

Topological ==
  Kahn(SetToSeq({n \in DOMAIN nodes : InDegree[n] = 0}), InDegree, <<>>)

ValidateGraph ==
  /\ pc = "graph"
  /\ CASE \E n \in DOMAIN nodes : ~ (ToSet(Targets(nodes[n])) \subseteq DOMAIN nodes) ->
            Refuse("target") /\ UNCHANGED <<pending, order>>
       [] Reachable(<<Root>>, {}) # DOMAIN nodes ->
            Refuse("unreachable") /\ UNCHANGED <<pending, order>>
       [] Len(Topological) # Cardinality(DOMAIN nodes) ->
            Refuse("cycle") /\ UNCHANGED <<pending, order>>
       [] OTHER -> StartFields /\ order' = Reverse(Topological)
  /\ UNCHANGED <<doc, nodes, visited, counts, depths, offsets, ends>>

\* The running totals of a choice node's branches.
Sums(node) == PrefixSum(BranchCounts(node, counts))

Count(node) ==
  CASE node.type = "terminal" -> 1
    [] node.type = "choice" -> Sums(node)[Len(node.branches)]
    [] node.type = "range" -> Width(node) * counts[node.target]

Depth(node) ==
  IF node.type = "terminal" THEN 0
  ELSE 1 + Max({depths[t] : t \in ToSet(Targets(node))})

CountNode ==
  /\ pc = "compile"
  /\ order # <<>>
  /\ LET n == Head(order)
     IN  CASE Count(nodes[n]) >= MaxDomain -> Refuse("bits") /\ UNCHANGED <<order, counts, depths>>
           [] Depth(nodes[n]) > MaxDepth -> Refuse("depth") /\ UNCHANGED <<order, counts, depths>>
           [] OTHER -> /\ Go("compile")
                       /\ order' = Tail(order)
                       /\ counts' = (n :> Count(nodes[n])) @@ counts
                       /\ depths' = (n :> Depth(nodes[n])) @@ depths
  /\ UNCHANGED <<doc, nodes, pending, visited, offsets, ends>>

ChoiceNames == {n \in DOMAIN nodes : nodes[n].type = "choice"}

BuildIndexes ==
  /\ pc = "compile"
  /\ order = <<>>
  /\ offsets' = [n \in ChoiceNames |-> [i \in DOMAIN nodes[n].branches |-> Sums(nodes[n])[i - 1]]]
  /\ ends' = [n \in ChoiceNames |-> [i \in DOMAIN nodes[n].branches |-> Sums(nodes[n])[i]]]
  /\ Go("ready")
  /\ UNCHANGED <<doc, nodes, pending, visited, order, counts, depths>>

Next ==
  \/ Parse \/ ValidateGraph \/ CountNode \/ BuildIndexes
  \/ VisitField /\ UNCHANGED tables
  \/ FieldsDone /\ UNCHANGED tables

Spec == Init /\ [][Next]_vars

-----------------------------------------------------------------------------
(* What a compiled schema answers.                                         *)

Total == counts[Root]

\* Variation: the label is looked up as it is given.
FollowRaw(name, token) ==
  LET node == nodes[name]
  IN  IF node.type = "choice"
        THEN IF token[1] # "string" THEN {}
             ELSE {[field |-> node.field, value |-> token, target |-> node.branches[i].target,
                    weight |-> offsets[name][i]] :
                     i \in {j \in DOMAIN node.branches : node.branches[j].value = token[2]}}
        ELSE IF token[1] # "integer" THEN {}
             ELSE {[field |-> node.field, value |-> token, target |-> node.target,
                    weight |-> (v - node.start) * counts[node.target]] :
                     v \in {token[2]} \cap (node.start..node.stop)}

\* One step of rank and of lower: where a token leads, the field and the
\* value it is recorded as, and the words that come before it.
Follow(name, token) ==
  LET node == nodes[name]
  IN  IF node.type = "choice"
        THEN IF token[1] # "string" THEN {}
             ELSE {[field |-> node.field, value |-> <<"string", Nfc[token[2]]>>,
                    target |-> node.branches[i].target, weight |-> offsets[name][i]] :
                     i \in {j \in DOMAIN node.branches : node.branches[j].value = Nfc[token[2]]}}
        ELSE IF token[1] # "integer" THEN {}
             ELSE {[field |-> node.field, value |-> token, target |-> node.target,
                    weight |-> (v - node.start) * counts[node.target]] :
                     v \in {token[2]} \cap (node.start..node.stop)}

\* The steps of a whole token sequence; a sequence that ends early, goes on
\* after a terminal or takes a step that is refused has none.
RECURSIVE Walks(_, _)
Walks(name, items) ==
  IF nodes[name].type = "terminal" THEN IF items = <<>> THEN {<<>>} ELSE {}
  ELSE IF items = <<>> THEN {}
  ELSE UNION {{<<s>> \o w : w \in Walks(s.target, Tail(items))} : s \in Follow(name, Head(items))}

RankOf(tokens) ==
  {FoldSeq(LAMBDA s, sum : s.weight + sum, 0, w) : w \in Walks(Root, tokens)}

\* A field that is written twice keeps the last value.
Lower(tokens) ==
  {[f \in {w[i].field : i \in DOMAIN w} |-> w[Max({i \in DOMAIN w : w[i].field = f})].value] :
     w \in Walks(Root, tokens)}

BisectRight(a, x) == Cardinality({i \in DOMAIN a : a[i] <= x})

\* The word of an index below a node; {} is the AssertionError of line 287
\* or an index beyond the last branch.
RECURSIVE UnrankFrom(_, _)
UnrankFrom(name, remainder) ==
  LET node == nodes[name]
      Prefixed(token, target, rest) == {<<token>> \o w : w \in UnrankFrom(target, rest)}
      b == BisectRight(ends[name], remainder)
  IN  CASE node.type = "terminal" -> IF remainder = 0 THEN {<<>>} ELSE {}
        [] node.type = "choice" /\ b = Len(node.branches) -> {}
        [] node.type = "choice" /\ b < Len(node.branches) ->
             Prefixed(<<"string", node.branches[b + 1].value>>, node.branches[b + 1].target,
                      remainder - (IF b = 0 THEN 0 ELSE ends[name][b]))
        [] node.type = "range" ->
             Prefixed(<<"integer", node.start + (remainder \div counts[node.target])>>,
                      node.target, remainder % counts[node.target])

Unrank(index) == IF index \in 0..Total - 1 THEN UnrankFrom(Root, index) ELSE {}

\* enumerate(start, stop), as the set of pairs of position and word.
Enumerated(start, stop) ==
  IF start < 0 \/ stop < start \/ stop > Total THEN {}
  ELSE UNION {{<<i - start, w>> : w \in Unrank(i)} : i \in start..stop - 1}

\* The nodes as they were written.  The oracle and the diagram read these, and find
\* a node by the spelling of its name only; what they return is {} when they raise,
\* because a name is missing, a node malformed, or the nodes lead back to one of
\* those above (a RecursionError).
Raw ==
  [n \in {e.name : e \in ToSet(doc.entries)} |->
     (CHOOSE e \in ToSet(doc.entries) : e.name = n).raw]
Readable(name, above) ==
  name \in DOMAIN Raw \ above /\ Raw[name].type \in {"terminal", "choice", "range"}

\* One list after the other, unless one of them was not returned.
Extended(lists) ==
  IF {} \in ToSet(lists) THEN {}
  ELSE {FlattenSeq([i \in DOMAIN lists |-> CHOOSE list \in lists[i] : TRUE])}

\* The oracle: every word below a node in order, by expanding the graph.
RECURSIVE NaiveEnumerate(_, _)
NaiveEnumerate(name, above) ==
  LET raw == Raw[name]
      Under(token, target) ==
        {[i \in DOMAIN tails |-> <<token>> \o tails[i]] :
           tails \in NaiveEnumerate(target, above \cup {name})}
  IN  CASE ~ Readable(name, above) -> {}
        [] Readable(name, above) /\ raw.type = "terminal" -> {<< <<>> >>}
        [] Readable(name, above) /\ raw.type = "choice" ->
             Extended([i \in DOMAIN raw.branches |->
                         Under(<<"string", raw.branches[i].value>>, raw.branches[i].target)])
        [] Readable(name, above) /\ raw.type = "range" ->
             Extended([k \in 1..Width(raw) |->
                         Under(<<"integer", raw.start + k - 1>>, raw.target)])

Oracle == NaiveEnumerate(doc.root, {})

\* branch_intervals: the part of the index space of each branch of the root.
BranchIntervals ==
  LET node == nodes[Root]
  IN  IF node.type # "choice" THEN <<[label |-> "root", start |-> 0, stop |-> Total]>>
      ELSE [i \in DOMAIN node.branches |->
              [label |-> node.branches[i].value, start |-> Sums(node)[i - 1], stop |-> Sums(node)[i]]]

-----------------------------------------------------------------------------
(* The decision diagram it is measured against (mdd_baseline.py), of the   *)
(* document as it was written.  A table is the sequence of unique nodes    *)
(* with their counts; compiling a node returns the table with its index.   *)

\* Variation: a node is always added.
Extend(table, key, count) ==
  [table |-> Append(table, [key |-> key, count |-> count]), index |-> Len(table) + 1]

Intern(table, key, count) ==
  IF \E i \in DOMAIN table : table[i].key = key
    THEN [table |-> table, index |-> CHOOSE i \in DOMAIN table : table[i].key = key]
    ELSE [table |-> Append(table, [key |-> key, count |-> count]), index |-> Len(table) + 1]

\* Where the branches of a node lead, a range once for each of its integers.
LabelledEdges(raw, indexes) ==
  CASE raw.type = "terminal" -> <<>>
    [] raw.type = "choice" ->
         [k \in DOMAIN indexes |-> <<<<"string", raw.branches[k].value>>, indexes[k]>>]
    [] raw.type = "range" ->
         [k \in 1..Width(raw) |-> <<<<"integer", raw.start + k - 1>>, indexes[1]>>]
KeyName(name, raw) ==
  CASE raw.type = "terminal" -> "terminal"
    [] raw.type # "terminal" /\ raw.field = "" -> name
    [] raw.type # "terminal" /\ raw.field # "" -> raw.field

\* Compiling the targets one after the other; memo only saves work, since a
\* node compiled again is found in the table.
RECURSIVE CompileDiagram(_, _, _)
CompileDiagram(name, table, above) ==
  LET raw == Raw[name]
      ts == Targets(raw)
      step[k \in 0..Len(ts)] ==
        IF k = 0 THEN {[table |-> table, indexes |-> <<>>]}
        ELSE UNION {{[table |-> c.table, indexes |-> Append(s.indexes, c.index)] :
                       c \in CompileDiagram(ts[k], s.table, above \cup {name})} : s \in step[k - 1]}
      Made(below) ==
        LET edges == LabelledEdges(raw, below.indexes)
            paths == FoldSeq(LAMBDA e, sum : below.table[e[2]].count + sum, 0, edges)
        IN  Intern(below.table, <<KeyName(name, raw), edges>>, IF raw.type = "terminal" THEN 1 ELSE paths)
  IN  IF Readable(name, above) THEN {Made(below) : below \in step[Len(ts)]} ELSE {}

Diagram == CompileDiagram(doc.root, <<>>, {})
=============================================================================
