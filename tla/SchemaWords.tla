---------------------------- MODULE SchemaWords ----------------------------
(***************************************************************************)
(* A compiled schema as the programs around it see it (src/pdrs/core.py):  *)
(* its words in order.  RankUnrank and its proofs show that rank and       *)
(* unrank are this order's positions; here they are defined by it.         *)
(*                                                                         *)
(* A schema is [root, nodes], accepted by the constructor.  A token is     *)
(* <<"str", label>> or <<"int", number>>.                                  *)
(***************************************************************************)
EXTENDS PdrsSchema, SequencesExt

\* Every word below a node, by expanding the graph.
RECURSIVE NaiveEnumerate(_, _)
NaiveEnumerate(nodes, name) ==
  LET node == nodes[name]
      Under(token, target) ==
        LET tails == NaiveEnumerate(nodes, target) IN [i \in DOMAIN tails |-> <<token>> \o tails[i]]
  IN  CASE node.type = "terminal" -> << <<>> >>
        [] node.type = "choice" ->
             FlattenSeq([i \in DOMAIN node.branches |->
                           Under(<<"str", node.branches[i].value>>, node.branches[i].target)])
        [] node.type = "range" ->
             FlattenSeq([k \in 1..Width(node) |-> Under(<<"int", node.start + k - 1>>, node.target)])

EnumerateValues(schema) == NaiveEnumerate(schema.nodes, schema.root)

CountOf(schema) == Len(EnumerateValues(schema))

Unrank(schema, index) == EnumerateValues(schema)[index + 1]

\* The rank of a word; {} stands for a SchemaError.
RankOf(schema, tokens) ==
  LET words == EnumerateValues(schema) IN {i - 1 : i \in {j \in DOMAIN words : words[j] = tokens}}

\* Where one token leads from a node.
Follow(node, token) ==
  IF node.type = "choice"
    THEN {node.branches[i].target : i \in {j \in DOMAIN node.branches :
                                             <<"str", node.branches[j].value>> = token}}
    ELSE {node.target : v \in {k \in node.start..node.stop : <<"int", k>> = token}}

\* The nodes a word visits, the root and the terminal included.
RECURSIVE TraceFrom(_, _, _)
TraceFrom(nodes, name, tokens) ==
  IF nodes[name].type = "terminal" THEN IF tokens = <<>> THEN {<<name>>} ELSE {}
  ELSE IF tokens = <<>> THEN {}
  ELSE UNION {{<<name>> \o t : t \in TraceFrom(nodes, next, Tail(tokens))} :
                next \in Follow(nodes[name], Head(tokens))}

Trace(schema, tokens) == TraceFrom(schema.nodes, schema.root, tokens)

Partition(schema, worker, workers) ==
  [start |-> (worker * CountOf(schema)) \div workers,
   stop |-> ((worker + 1) * CountOf(schema)) \div workers]
=============================================================================
