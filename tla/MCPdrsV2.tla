------------------------------ MODULE MCPdrsV2 ------------------------------
(***************************************************************************)
(* Small documents for PdrsV2 and the definitions its answers are compared *)
(* with.  A capital letter stands for a string that is not in normal form: *)
(* "X" is another spelling of the label "x", "A" of the node name "a".     *)
(***************************************************************************)
EXTENDS PdrsV2

MCNames == {"r", "a", "A", "b", "c", "t", "missing"}
MCLabels == {"x", "X", "y"}
MCFields == {"", "f", "F", "g"}

MCNfc == [s \in MCNames \cup MCLabels \cup MCFields |->
            CASE s = "A" -> "a" [] s = "X" -> "x" [] s = "F" -> "f" [] OTHER -> s]

ChoiceOf(field, labels, targets) ==
  [type |-> "choice", field |-> field,
   branches |-> [i \in DOMAIN labels |-> [value |-> labels[i], target |-> targets[i]]]]
RangeOf(field, a, b, t) == [type |-> "range", field |-> field, start |-> a, stop |-> b, target |-> t]
Leaf == [type |-> "terminal", field |-> ""]
Refused == [type |-> "other", field |-> ""]

RootForms ==
  {ChoiceOf(f, l, <<t, u>>) : f \in {"f", "g"}, l \in {<<"x", "y">>, <<"X", "y">>},
                              t \in {"a", "b", "A"}, u \in {"a", "b", "t"}}
  \cup {ChoiceOf("f", <<"x", "X">>, <<"a", "b">>), ChoiceOf("f", <<>>, <<>>),
        RangeOf("", 0, 2, "a"), RangeOf("f", -1, 0, "A"), RangeOf("f", 1, 0, "a"), Refused}
AForms ==
  {ChoiceOf(f, <<"x", "y">>, <<t, u>>) : f \in {"", "F", "g"}, t \in {"b", "t"}, u \in {"b", "t"}}
  \cup {RangeOf(f, 0, 1, t) : f \in {"f", "g"}, t \in {"b", "t"}}
BForms ==
  {ChoiceOf("g", <<"y">>, <<"t">>), RangeOf("", -1, 1, "t"), RangeOf("F", 0, 1, "t"),
   ChoiceOf("g", <<"x">>, <<"a">>), RangeOf("g", 0, 1, "missing"), Leaf}

Entry(name, raw) == [name |-> name, raw |-> raw]

\* The node a is declared once under either spelling, or under both.
Entries(r, a, b) ==
  {<<Entry("r", r), Entry("a", a), Entry("b", b), Entry("t", Leaf)>>,
   <<Entry("t", Leaf), Entry("A", a), Entry("b", b), Entry("r", r)>>,
   <<Entry("r", r), Entry("a", a), Entry("b", b), Entry("t", Leaf),
     Entry("A", RangeOf("g", 0, 1, "b"))>>}

MCDocuments ==
  [root : {"r"}, entries : UNION {Entries(r, a, b) : r \in RootForms, a \in AForms, b \in BForms}]
  \cup {[root |-> "missing", entries |-> <<Entry("r", Leaf)>>],
        [root |-> "r", entries |-> <<>>],
        [root |-> "r", entries |-> <<Entry("r", Leaf)>>],
        [root |-> "A", entries |-> <<Entry("a", RangeOf("", 0, 2, "t")), Entry("t", Leaf)>>],
        \* The node a that is replaced leads back to itself, or is malformed.
        [root |-> "r", entries |-> <<Entry("r", ChoiceOf("f", <<"x", "y">>, <<"b", "a">>)),
                                     Entry("a", ChoiceOf("g", <<"x">>, <<"b">>)), Entry("b", RangeOf("", 0, 1, "a")),
                                     Entry("t", Leaf), Entry("A", RangeOf("", 0, 0, "t"))>>],
        [root |-> "r", entries |-> <<Entry("r", RangeOf("", 0, 1, "a")), Entry("a", Refused),
                                     Entry("A", RangeOf("", 0, 0, "t")), Entry("t", Leaf)>>],
        [root |-> "r", entries |-> <<Entry("r", RangeOf("", 0, 0, "a")), Entry("a", RangeOf("", 0, 0, "b")),
                                     Entry("b", RangeOf("", 0, 0, "c")), Entry("c", RangeOf("", 0, 0, "t")),
                                     Entry("t", Leaf)>>]}

-----------------------------------------------------------------------------

\* Reference: the paths from a node, as the sequences of the fields on them.
RECURSIVE FieldPaths(_)
FieldPaths(name) ==
  IF nodes[name].type = "terminal" THEN {<<>>}
  ELSE UNION {{<<nodes[name].field>> \o p : p \in FieldPaths(t)} : t \in ToSet(Targets(nodes[name]))}

\* A document that passed the graph check is refused for a repeated field
\* exactly when some root-to-terminal path records one field twice; the
\* worklist (188-203) leaves a node unvisited only when it was already
\* visited after the same fields.  A path without a cycle is no longer than
\* there are nodes.  The check begins with nodes that are all declared.
PathFieldsExact ==
  /\ pc = "fields" => Linked
  /\ FieldsExact(1..Cardinality(DOMAIN nodes))
  /\ pc = "compile" \/ verdict = "field" =>
       (verdict = "field" <=> \E p \in FieldPaths(Root) : ~ IsInjective(p))

Ready == pc = "ready"

\* No two nodes have one name up to normal form; every name is spelt as it is
\* declared.
Distinct == Cardinality(DOMAIN nodes) = Len(doc.entries)
Spelt ==
  {doc.root} \cup UNION {ToSet(Targets(e.raw)) : e \in ToSet(doc.entries)}
    \subseteq {e.name : e \in ToSet(doc.entries)}

\* Reference: the words of the document as it was written, in order.  Names are
\* resolved up to normal form, the last of two nodes with one name counts, and
\* labels are brought to normal form.
Written(name) ==
  doc.entries[Max({i \in DOMAIN doc.entries : Nfc[doc.entries[i].name] = Nfc[name]})].raw

RECURSIVE WrittenWords(_)
WrittenWords(name) ==
  LET raw == Written(name)
      After(token, target) ==
        LET rest == WrittenWords(target) IN [i \in DOMAIN rest |-> <<token>> \o rest[i]]
  IN  CASE raw.type = "terminal" -> << <<>> >>
        [] raw.type = "choice" ->
             FlattenSeq([i \in DOMAIN raw.branches |->
                           After(<<"string", Nfc[raw.branches[i].value]>>, raw.branches[i].target)])
        [] raw.type = "range" ->
             FlattenSeq([k \in 1..Width(raw) |-> After(<<"integer", raw.start + k - 1>>, raw.target)])

\* Every token that a caller might try, in normal form or not.
Tokens == ({"string"} \X MCLabels) \cup ({"integer"} \X (-2..3)) \cup ({"boolean"} \X {TRUE})

\* Reference: a token as rank records it.
Normal(token) == IF token[1] = "string" THEN <<"string", Nfc[token[2]]>> ELSE token

\* Indices, words and records identify each other.  The index space is that of the
\* words of the document, with names and labels in normal form and the last of two
\* nodes with one name: enumerate gives them in order, part by part and without
\* repetition; rank finds the index of a word however its labels are spelt and
\* refuses every other sequence; no two words are lowered to one record (61-71,
\* 105-143, 250-337).
\* The oracle that tests and experiments compare with (378-394) reads the document
\* as it was written.  When no two nodes have one name up to normal form, it raises
\* exactly when a name is not spelt as it is declared, and otherwise returns these
\* words in this order, each with its rank, labels being spelt as they were written
\* (test_v2_core.py:45-55).
RecordsIdentifyWords ==
  Ready =>
    LET words == WrittenWords(doc.root)
        InOrder(start, stop) == {<<i - 1 - start, words[i]>> : i \in start + 1..stop}
        tried == UNION {[1..k -> Tokens] : k \in 0..2}
        Normalised(w) == [i \in DOMAIN w |-> Normal(w[i])]
    IN  /\ Total = Len(words)
        /\ \A k \in 0..Total : Enumerated(0, k) = InOrder(0, k) /\ Enumerated(k, Total) = InOrder(k, Total)
        /\ \A i \in DOMAIN words : RankOf(words[i]) = {i - 1}
        /\ \A w \in tried :
             RankOf(w) = {i - 1 : i \in {j \in DOMAIN words : words[j] = Normalised(w)}}
        /\ Cardinality(UNION {Lower(words[i]) : i \in DOMAIN words}) = Total
        /\ \A b \in ToSet(BranchIntervals) :
             b.label # "root" => \A i \in b.start + 1..b.stop : words[i][1] = <<"string", b.label>>
        /\ Distinct =>
             /\ Oracle # {} <=> Spelt
             /\ \A oracle \in Oracle :
                  /\ [i \in DOMAIN oracle |-> Normalised(oracle[i])] = words
                  /\ \A i \in DOMAIN oracle : RankOf(oracle[i]) = {i - 1}

\* Reference: what can be told of a node, as it was written, from below, as a tree.
RECURSIVE Unfolding(_)
Unfolding(name) ==
  LET raw == Raw[name]
  IN  CASE raw.type = "terminal" -> <<"terminal", <<>>>>
        [] raw.type = "choice" ->
             <<KeyName(name, raw), [i \in DOMAIN raw.branches |->
                 <<"string", raw.branches[i].value, Unfolding(raw.branches[i].target)>>]>>
        [] raw.type = "range" ->
             <<KeyName(name, raw), [k \in 1..Width(raw) |->
                 <<"integer", raw.start + k - 1, Unfolding(raw.target)>>]>>

RECURSIVE Reached(_)
Reached(name) == {name} \cup UNION {Reached(t) : t \in ToSet(Targets(Raw[name]))}

\* The decision diagram the schemas are measured against, of the document as it was
\* written: when it is built, it counts the words of the oracle and is reduced, with
\* one node for each behaviour of a node that is reached, and no two for the same
\* (mdd_baseline.py 33-60).  When no two nodes have one name up to normal form, it is
\* built exactly when the oracle returns, and its count is that of the schema; fields
\* and labels that differ in spelling only are kept apart.
DiagramIsReduced ==
  Ready =>
    /\ \A d \in Diagram :
         /\ \E oracle \in Oracle : d.table[d.index].count = Len(oracle)
         /\ Len(d.table) = Cardinality({Unfolding(n) : n \in Reached(doc.root)})
         /\ Distinct => d.table[d.index].count = Total
    /\ Distinct => (Diagram # {} <=> Oracle # {})
=============================================================================
