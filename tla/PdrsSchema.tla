----------------------------- MODULE PdrsSchema -----------------------------
(***************************************************************************)
(* The data of a PDRS schema (src/pdrs/core.py): terminal, choice and      *)
(* range nodes, a document that names them, and the arithmetic that the    *)
(* counting and indexing passes apply to a sequence of branch counts.      *)
(* Names and labels are opaque; only equality of either matters.           *)
(***************************************************************************)
EXTENDS Integers, Sequences, FiniteSets

CONSTANTS Names,   \* what a node may be called, declared or not
          Labels   \* what a choice branch may be called

Branch == [value : Labels, target : Names]

TerminalNode == [type : {"terminal"}]
ChoiceNode == [type : {"choice"}, branches : Seq(Branch)]
RangeNode == [type : {"range"}, start : Int, stop : Int, target : Names]
Malformed == [type : {"other"}]

IsNode(node) ==
  \/ node \in TerminalNode
  \/ node \in ChoiceNode
  \/ node \in RangeNode
  \/ node \in Malformed

\* A document: a root name, and a finite map from names to raw nodes.
IsDocument(doc) ==
  /\ doc.root \in Names
  /\ DOMAIN doc.nodes \subseteq Names
  /\ IsFiniteSet(DOMAIN doc.nodes)
  /\ \A n \in DOMAIN doc.nodes : IsNode(doc.nodes[n])

\* The outgoing edges of a node, in order and with repetitions.
Targets(node) ==
  IF node.type = "choice"
    THEN [i \in DOMAIN node.branches |-> node.branches[i].target]
    ELSE IF node.type = "range" THEN <<node.target>> ELSE <<>>

\* Variation: the stop is taken as exclusive.
WidthExclusive(node) == node.stop - node.start

Width(node) == node.stop - node.start + 1

\* A choice node may not offer the same value twice.
DistinctValues(node) ==
  \A i, j \in DOMAIN node.branches :
    node.branches[i].value = node.branches[j].value => i = j

\* PrefixSum(c)[i] is the sum of the first i elements of c.
PrefixSum(c) ==
  LET f[i \in 0..Len(c)] == IF i = 0 THEN 0 ELSE f[i - 1] + c[i]
  IN  f

\* The counts of a choice node's targets, one per branch.
BranchCounts(node, counts) ==
  [i \in DOMAIN node.branches |-> counts[node.branches[i].target]]

\* One edge is a node name with a position in that node's targets.
Edges(nodes) ==
  UNION {{<<n, i>> : i \in DOMAIN Targets(nodes[n])} : n \in DOMAIN nodes}

EdgesInto(nodes, t) == {e \in Edges(nodes) : Targets(nodes[e[1]])[e[2]] = t}

\* What rank and unrank rely on: every number they look up is there, and at
\* each node the blocks of the alternatives follow each other without a gap
\* or an overlap, from 0 to the node's own count.
ChoiceTiles(node, count, counts, offset, end) ==
  /\ Len(node.branches) > 0
  /\ DistinctValues(node)
  /\ offset[1] = 0
  /\ end[Len(node.branches)] = count
  /\ \A i \in 1..Len(node.branches) :
       end[i] = offset[i] + counts[node.branches[i].target]
  /\ \A i \in 1..Len(node.branches) - 1 : offset[i + 1] = end[i]

RangeTiles(node, count, counts) ==
  /\ node.start <= node.stop
  /\ count = Width(node) * counts[node.target]

NodeTiles(node, n, counts, depths, offsets, ends) ==
  /\ counts[n] > 0
  /\ node.type \in {"terminal", "choice", "range"}
  /\ \A i \in DOMAIN Targets(node) : /\ Targets(node)[i] \in DOMAIN counts
                                     /\ depths[Targets(node)[i]] < depths[n]
  /\ node.type = "terminal" => counts[n] = 1
  /\ node.type = "choice" => ChoiceTiles(node, counts[n], counts, offsets[n], ends[n])
  /\ node.type = "range" => RangeTiles(node, counts[n], counts)

Tiled(nodes, counts, depths, offsets, ends) ==
  /\ DOMAIN counts = DOMAIN nodes
  /\ \A n \in DOMAIN nodes : NodeTiles(nodes[n], n, counts, depths, offsets, ends)

\* A schema as the constructor leaves it: the document with its tables.
IsCompiled(s) ==
  /\ IsDocument(s)
  /\ s.root \in DOMAIN s.nodes
  /\ \A n \in DOMAIN s.nodes : s.counts[n] \in Nat /\ s.depths[n] \in Nat
  /\ \A n \in DOMAIN s.nodes : s.nodes[n].type = "choice" =>
       /\ s.offsets[n] \in Seq(Int) /\ Len(s.offsets[n]) = Len(s.nodes[n].branches)
       /\ s.ends[n] \in Seq(Int) /\ Len(s.ends[n]) = Len(s.nodes[n].branches)
  /\ Tiled(s.nodes, s.counts, s.depths, s.offsets, s.ends)
=============================================================================
