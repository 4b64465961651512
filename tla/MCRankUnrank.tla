---------------------------- MODULE MCRankUnrank ----------------------------
(***************************************************************************)
(* Small compiled schemas for RankUnrank: every acyclic graph of three or  *)
(* four nodes of a family with shared nodes, negative bounds and one-way   *)
(* choices, with the tables given by their definitions.                    *)
(***************************************************************************)
EXTENDS RankUnrank, FiniteSetsExt, TLC

MCNames == {"r", "a", "b", "t"}
MCLabels == {"x", "y", "z"}

ChoiceOf(labels, targets) ==
  [type |-> "choice",
   branches |-> [i \in DOMAIN labels |-> [value |-> labels[i], target |-> targets[i]]]]
RangeOf(a, b, t) == [type |-> "range", start |-> a, stop |-> b, target |-> t]
Leaf == [type |-> "terminal"]

Elements(s) == {s[i] : i \in DOMAIN s}

\* The tables of a schema, straight from what they mean.
Compiled(nodes) ==
  LET choices == {n \in DOMAIN nodes : nodes[n].type = "choice"}
      ways(n) == DOMAIN Targets(nodes[n])
      count[n \in DOMAIN nodes] ==
        CASE nodes[n].type = "terminal" -> 1
          [] nodes[n].type = "choice" ->
               MapThenSumSet(LAMBDA i : count[nodes[n].branches[i].target], ways(n))
          [] OTHER -> Width(nodes[n]) * count[nodes[n].target]
      depth[n \in DOMAIN nodes] ==
        IF nodes[n].type = "terminal"
          THEN 0 ELSE 1 + Max({depth[Targets(nodes[n])[i]] : i \in ways(n)})
      below(n, i) == MapThenSumSet(LAMBDA j : count[nodes[n].branches[j].target], 1..i)
  IN  [root |-> "r", nodes |-> nodes, counts |-> count, depths |-> depth,
       offsets |-> [n \in choices |-> [i \in ways(n) |-> below(n, i - 1)]],
       ends |-> [n \in choices |-> [i \in ways(n) |-> below(n, i)]]]

\* Nodes whose targets are among T: each graph has its edges point from the
\* earlier names of r, a, b, t to the later ones.
Forms(T) ==
  {ChoiceOf(<<"x">>, <<t>>) : t \in T}
  \cup {ChoiceOf(<<"x", "y", "z">>, <<t, u, "t">>) : t \in T, u \in T}
  \cup {RangeOf(-1, b, t) : b \in {-1, 1}, t \in T}

MCSchemas ==
  {Compiled("r" :> f @@ "a" :> g @@ "b" :> h @@ "t" :> Leaf) :
     f \in Forms({"a", "b"}) \ {ChoiceOf(<<"x">>, <<"b">>)},
     g \in Forms({"b"}) \cup {ChoiceOf(<<"y", "x">>, <<"t", "b">>)},
     h \in Forms({"t"})}

Symbols == ({"str"} \X MCLabels) \cup ({"int"} \X (-2..1)) \cup {<<"bool", TRUE>>}
MCInputs == UNION {[1..n -> Symbols] : n \in 0..3}
MCIndices == -1..28
=============================================================================
