----------------------------- MODULE FieldCheck -----------------------------
(***************************************************************************)
(* The pass of the second paper's constructor that looks for a field that  *)
(* is recorded twice (src/paper/arxiv_v2/src/pdrs_v2.py, 188-203): a       *)
(* worklist of nodes, each with the fields that come before it.            *)
(***************************************************************************)
EXTENDS PdrsSchema, SequencesExt

CONSTANT Nfc        \* the normal form of every string

VARIABLES doc, nodes, pc, verdict,
          pending,  \* nodes to be looked at, with the fields before them
          visited

checked == <<doc, nodes, pc, verdict, pending, visited>>

Root == Nfc[doc.root]

Refuse(why) == pc' = "refused" /\ verdict' = why

Go(where) == pc' = where /\ UNCHANGED verdict

StartFields ==
  /\ Go("fields")
  /\ pending' = <<[name |-> Root, used |-> {}]>>

\* Variation: a node is not looked at again with other fields before it.
VisitOnce ==
  /\ pc = "fields"
  /\ pending # <<>>
  /\ LET state == Last(pending)
         node == nodes[state.name]
         Push(more) == pending' = Front(pending) \o more
     IN  IF state.name \in {s.name : s \in visited}
           THEN Go("fields") /\ Push(<<>>) /\ UNCHANGED visited
           ELSE /\ visited' = visited \cup {state}
                /\ CASE node.type = "terminal" -> Go("fields") /\ Push(<<>>)
                     [] node.type # "terminal" /\ node.field \in state.used ->
                          Refuse("field") /\ Push(<<>>)
                     [] OTHER ->
                          /\ Go("fields")
                          /\ Push([i \in DOMAIN Targets(node) |->
                                     [name |-> Targets(node)[i],
                                      used |-> state.used \cup {node.field}]])
  /\ UNCHANGED <<doc, nodes>>

VisitField ==
  /\ pc = "fields"
  /\ pending # <<>>
  /\ LET state == Last(pending)
         node == nodes[state.name]
         Push(more) == pending' = Front(pending) \o more
     IN  IF state \in visited
           THEN Go("fields") /\ Push(<<>>) /\ UNCHANGED visited
           ELSE /\ visited' = visited \cup {state}
                /\ CASE node.type = "terminal" -> Go("fields") /\ Push(<<>>)
                     [] node.type # "terminal" /\ node.field \in state.used ->
                          Refuse("field") /\ Push(<<>>)
                     [] OTHER ->
                          /\ Go("fields")
                          /\ Push([i \in DOMAIN Targets(node) |->
                                     [name |-> Targets(node)[i],
                                      used |-> state.used \cup {node.field}]])
  /\ UNCHANGED <<doc, nodes>>

FieldsDone ==
  /\ pc = "fields"
  /\ pending = <<>>
  /\ Go("compile")
  /\ UNCHANGED <<doc, nodes, pending, visited>>

-----------------------------------------------------------------------------
\* The pass on its own, on the graphs that may come to it.
Linked == Root \in DOMAIN nodes /\ \A n \in DOMAIN nodes : Targets(nodes[n]) \in Seq(DOMAIN nodes)

InitFields ==
  /\ Linked
  /\ pc = "fields" /\ verdict = "none"
  /\ pending = <<[name |-> Root, used |-> {}]>>
  /\ visited = {}

SpecFields == InitFields /\ [][VisitField \/ FieldsDone]_checked

\* A path of k nodes from the root on which two nodes record one field.
Path(p, k) ==
  /\ p[1] = Root
  /\ \A i \in 1..k - 1 : p[i + 1] \in ToSet(Targets(nodes[p[i]]))
Twice(p, k) ==
  \E i, j \in 1..k :
    /\ i < j /\ nodes[p[i]].field = nodes[p[j]].field
    /\ nodes[p[i]].type # "terminal" /\ nodes[p[j]].type # "terminal"
Repeats(k) == \E p \in [1..k -> DOMAIN nodes] : Path(p, k) /\ Twice(p, k)

\* A document is refused for a repeated field exactly when a path of one of these
\* lengths repeats one: a node that was visited is passed over only if it was after
\* the same fields (pdrs_v2.py, 188-203).
FieldsExact(lengths) ==
  pc = "compile" \/ verdict = "field" => (verdict = "field" <=> \E k \in lengths : Repeats(k))
=============================================================================
