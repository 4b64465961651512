-------------------------- MODULE MCCompiledSchema --------------------------
(***************************************************************************)
(* Small documents for CompiledSchema, and limits that bite for some of    *)
(* them.                                                                   *)
(***************************************************************************)
EXTENDS CompiledSchema

MCNames == {"r", "a", "b", "t", "missing"}
MCLabels == {"x", "y", "z"}

ChoiceOf(labels, targets) ==
  [type |-> "choice",
   branches |-> [i \in DOMAIN labels |-> [value |-> labels[i], target |-> targets[i]]]]
RangeOf(a, b, t) == [type |-> "range", start |-> a, stop |-> b, target |-> t]
Leaf == [type |-> "terminal"]

\* Every form of node, the malformed ones included.
AnyForm(T) ==
  {Leaf, [type |-> "other"], ChoiceOf(<<>>, <<>>), RangeOf(1, 0, "t"), RangeOf(0, 9, "t")}
  \cup {ChoiceOf(<<"x">>, <<t>>) : t \in T \cup {"missing"}}
  \cup {ChoiceOf(<<"x", "y">>, <<t, u>>) : t \in T, u \in T}
  \cup {ChoiceOf(<<"x", "x">>, <<t, "t">>) : t \in T}
  \cup {RangeOf(-1, b, t) : b \in {-1, 2}, t \in T}

ThreeNodeDocs == LET N == {"r", "a", "t"} IN [root : {"r"}, nodes : [N -> AnyForm(N)]]

\* Well-formed nodes with many shared and repeated edges.
Wide(T) == {ChoiceOf(<<"x", "y", "z">>, <<t, u, "t">>) : t \in T, u \in T}
           \cup {RangeOf(0, 1, t) : t \in T}
FourNodeDocs ==
  [root : {"r"},
   nodes : {[n \in {"r", "a", "b", "t"} |-> CASE n = "r" -> f [] n = "a" -> g [] n = "b" -> h [] OTHER -> l] :
              f \in Wide({"r", "a", "b", "t"}), g \in Wide({"r", "a", "b", "t"}), h \in Wide({"r", "a", "t"}),
              l \in {Leaf, RangeOf(0, 2, "t")}}]

LimitsOf(n, bits, depth, width) ==
  [maxNodes |-> n, maxDomainBits |-> bits, maxDepth |-> depth, maxRangeWidth |-> width]

\* Each limit bites for some of the small documents; the large ones stay within
\* theirs, that on the width of a range only just.
MCCalls ==
  [doc : ThreeNodeDocs, limits : {LimitsOf(3, 2, 1, 4), LimitsOf(2, 9, 9, 9)}]
  \cup [doc : FourNodeDocs, limits : {LimitsOf(4, 10, 9, 3)}]
=============================================================================
