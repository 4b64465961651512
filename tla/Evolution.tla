----------------------------- MODULE Evolution -----------------------------
(***************************************************************************)
(* The schema evolution experiment (src/scripts/run_full_experiments.py    *)
(* 591-657): a schema is edited, and each word of the old schema is looked *)
(* up in the new one.  The edits of the experiment are those of one corpus *)
(* schema; here they apply to any schema with a choice at its root.        *)
(***************************************************************************)
EXTENDS SchemaWords

CONSTANTS Schemas, NewName, NewLabel, NewWidth

VARIABLES base, kind, changed, pc,
          index,    \* the words that have been looked up
          common,   \* how many of them the new schema has
          moves     \* the displacement of each word they have in common

vars == <<base, kind, changed, pc, index, common, moves>>

Branches == base.nodes[base.root].branches
WithBranches(schema, branches) == [schema EXCEPT !.nodes[schema.root].branches = branches]
NewBranch == [value |-> NewLabel, target |-> NewName]

EndOf(schema) == CHOOSE n \in DOMAIN schema.nodes : schema.nodes[n].type = "terminal"
WithNewRange(schema) ==
  [schema EXCEPT !.nodes =
     [n \in DOMAIN schema.nodes \cup {NewName} |->
        IF n = NewName
          THEN [type |-> "range", start |-> 0, stop |-> NewWidth - 1, target |-> EndOf(schema)]
          ELSE schema.nodes[n]]]

\* Variation: the new branch is put before the last one.
AppendedEarly(schema) ==
  WithBranches(WithNewRange(schema), InsertAt(Branches, Len(Branches), NewBranch))
Appended(schema) == WithBranches(WithNewRange(schema), Append(Branches, NewBranch))
InsertedFirst(schema) == WithBranches(WithNewRange(schema), <<NewBranch>> \o Branches)
Reordered(schema) == WithBranches(schema, Reverse(Branches))
Expanded(schema, n) == [schema EXCEPT !.nodes[n].stop = @ + NewWidth]

\* The last branch goes with the nodes that only it leads to.
RECURSIVE Below(_, _)
Below(nodes, names) ==
  LET more == names \cup UNION {ToSet(Targets(nodes[n])) : n \in names}
  IN  IF more = names THEN names ELSE Below(nodes, more)
Removed(schema) ==
  LET less == WithBranches(schema, Front(Branches))
      kept == Below(less.nodes, {less.root})
  IN  [less EXCEPT !.nodes = [n \in kept |-> less.nodes[n]]]

Init ==
  /\ base \in Schemas
  /\ kind = "none" /\ changed = base /\ pc = "start"
  /\ index = 0 /\ common = 0 /\ moves = <<>>

Edit ==
  /\ pc = "start"
  /\ \/ kind' = "append" /\ changed' = Appended(base)
     \/ kind' = "insert" /\ changed' = InsertedFirst(base)
     \/ kind' = "reorder" /\ changed' = Reordered(base)
     \/ /\ kind' = "expand"
        /\ \E n \in DOMAIN base.nodes : base.nodes[n].type = "range" /\ changed' = Expanded(base, n)
     \/ kind' = "remove" /\ Len(Branches) > 1 /\ changed' = Removed(base)
  /\ pc' = "compare"
  /\ UNCHANGED <<base, index, common, moves>>

\* One round of the loop over the words; a SchemaError leaves a word out.
Compare ==
  /\ pc = "compare" /\ index < CountOf(base)
  /\ LET word == Unrank(base, index)
         new == RankOf(changed, word)
     IN  IF new = {} THEN UNCHANGED <<common, moves>>
         ELSE /\ common' = common + 1
              /\ \E r \in new : moves' = Append(moves, r - index)
  /\ index' = index + 1
  /\ UNCHANGED <<base, kind, changed, pc>>

Report ==
  /\ pc = "compare" /\ index = CountOf(base)
  /\ pc' = "end"
  /\ UNCHANGED <<base, kind, changed, index, common, moves>>

Next == Edit \/ Compare \/ Report

Spec == Init /\ [][Next]_vars

-----------------------------------------------------------------------------
Grows(s) == \A i \in 1..Len(s) - 1 : s[i] <= s[i + 1]
SizeOf(branch) == Len(NaiveEnumerate(base.nodes, branch.target))
Sizes(branches) == FoldLeft(LAMBDA sum, b : sum + SizeOf(b), 0, branches)
\* The branch of an old rank.
BranchOf(rank) ==
  CHOOSE i \in DOMAIN Branches : /\ Sizes(SubSeq(Branches, 1, i - 1)) <= rank
                                 /\ rank < Sizes(SubSeq(Branches, 1, i))

\* How ranks move when a schema is edited (theory/proofs.md, "Schema evolution
\* counterexample"; EVIDENCE_REPORT.md, "Evolution").  Appending a branch and
\* removing the last one move no word that stays.  Inserting a branch first moves
\* every word by its size.  Widening a range anywhere keeps the order of the words
\* and moves none backwards, none before the first new word, and the last by no
\* more than the schema has grown.  Turning the branches round moves a word by the
\* sizes of the branches on either side of its own.
RanksMoveAsProved ==
  pc = "end" =>
    /\ kind \in {"append", "insert", "reorder", "expand"} => common = CountOf(base)
    /\ kind \in {"append", "remove"} => ToSet(moves) \subseteq {0}
    /\ kind = "remove" => common = CountOf(changed)
    /\ kind = "insert" => ToSet(moves) = {NewWidth}
    /\ kind = "expand" =>
         LET old == ToSet(EnumerateValues(base))
             firstNew == SelectInSeq(EnumerateValues(changed), LAMBDA w : w \notin old)
         IN  /\ Grows(<<0>> \o moves)
             /\ \A i \in DOMAIN moves : i < firstNew <=> moves[i] = 0
             /\ Last(moves) <= CountOf(changed) - CountOf(base)
    /\ kind = "reorder" =>
         \A i \in DOMAIN moves :
           LET b == BranchOf(i - 1)
           IN  moves[i] = Sizes(SubSeq(Branches, b + 1, Len(Branches))) - Sizes(SubSeq(Branches, 1, b - 1))
=============================================================================
