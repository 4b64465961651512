---------------------------- MODULE NativeCount ----------------------------
(***************************************************************************)
(* The C engine (src/native/c/pdrs_native.c) in words of Bits bits: how it *)
(* loads a file and counts, by a depth-first recursion that checks its     *)
(* arithmetic.                                                             *)
(*                                                                         *)
(* A file is [root, nodes]: the lines that load_schema reads, as they were *)
(* written.  Every die() of the engine ends in pc = "died".          *)
(***************************************************************************)
EXTENDS Integers, SequencesExt, Widths

CONSTANTS Files,
          Bits,      \* 64 in the code
          MaxDepth,  \* 100000 in the code
          MaxTokens  \* MAX_TOKENS_PER_LINE, 8192 in the code

VARIABLES file, pc,
          states,   \* 0 not visited, 1 on the stack, 2 counted
          counts,
          stack,    \* the calls of compute_count: [node, done, total]
          arg, answer

loading == <<file, pc, states, counts, stack, arg, answer>>

Size == Power(2, Bits)
Unsigned(x) == x % Size
Died == -1

\* Variation: the product is cut to a word.
CheckedMulWraps(left, right) == Unsigned(left * right)
CheckedAdd(left, right) == IF Size - 1 - left < right THEN Died ELSE left + right
CheckedMul(left, right) ==
  IF left # 0 /\ right > (Size - 1) \div left THEN Died ELSE left * right

Nodes == file.nodes
Ids == DOMAIN Nodes
\* find_node returns the first node of a name, and dies when there is none.
Find(name) == SelectInSeq(Nodes, LAMBDA node : node.name = name)
TargetsOf(node) ==
  CASE node.type = "T" -> <<>>
    [] node.type = "C" -> [i \in DOMAIN node.branches |-> node.branches[i].target]
    [] node.type = "R" -> <<node.target>>
\* resolve_targets
Kids(id) == [i \in DOMAIN TargetsOf(Nodes[id]) |-> Find(TargetsOf(Nodes[id])[i])]
Root == Find(file.root)
Linked == Root # 0 /\ \A id \in Ids : \A i \in DOMAIN Kids(id) : Kids(id)[i] # 0

\* What is between the tabs of a line, "node" being the first.  split_tabs stops at
\* MaxTokens, so a longer line has fewer than load_schema then asks for.
Written(node) ==
  CASE node.type = "T" -> 3
    [] node.type = "C" -> 5 + 2 * Len(node.branches)
    [] node.type = "R" -> 7
Split(node) == IF Written(node) <= MaxTokens THEN Written(node) ELSE MaxTokens

\* What the checks of the lines and parse_i64 take.
LineAccepted(node) ==
  /\ node.type = "T" => Split(node) = 3
  /\ node.type = "C" => Split(node) >= 6 /\ Split(node) = 5 + 2 * Len(node.branches)
  /\ node.type = "R" =>
       /\ Split(node) = 7
       /\ {node.start, node.stop} \subseteq -(Size \div 2)..(Size \div 2) - 1
       /\ node.start <= node.stop
LinesAccepted == Nodes # <<>> /\ \A id \in Ids : LineAccepted(Nodes[id])

InitCount ==
  /\ file \in Files
  /\ pc = "load"
  /\ states = <<>> /\ counts = <<>> /\ stack = <<>>
  /\ arg = 0 /\ answer = 0

\* The lines, resolve_targets, and the call of compute_count for the root.
Load ==
  /\ pc = "load"
  /\ IF LinesAccepted /\ Linked
       THEN /\ states' = [id \in Ids |-> 0]
            /\ counts' = [id \in Ids |-> 0]
            /\ arg' = Root
            /\ pc' = "call"
       ELSE pc' = "died" /\ UNCHANGED <<states, counts, arg>>
  /\ UNCHANGED <<file, stack, answer>>

Call ==
  /\ pc = "call"
  /\ IF Len(stack) > MaxDepth \/ states[arg] = 1
       THEN pc' = "died" /\ UNCHANGED <<states, stack, answer>>
     ELSE IF states[arg] = 2
       THEN pc' = "return" /\ answer' = counts[arg] /\ UNCHANGED <<states, stack>>
     ELSE /\ states' = [states EXCEPT ![arg] = 1]
          /\ stack' = Append(stack, [node |-> arg, done |-> 0, total |-> 0])
          /\ pc' = "loop"
          /\ UNCHANGED answer
  /\ UNCHANGED <<file, counts, arg>>

Top == Last(stack)
TopNode == Nodes[Top.node]

Descend ==
  /\ pc = "loop" /\ Top.done < Len(Kids(Top.node))
  /\ arg' = Kids(Top.node)[Top.done + 1]
  /\ pc' = "call"
  /\ UNCHANGED <<file, states, counts, stack, answer>>

\* stop - start + 1 in machine words.  A signed difference that overflows has no
\* defined value; the subtraction of the builds wraps.
WidthOf(node) == Unsigned(node.stop - node.start + 1)

Take ==
  /\ pc = "return" /\ stack # <<>>
  /\ LET total == IF TopNode.type = "C" THEN CheckedAdd(Top.total, answer)
                  ELSE CheckedMul(WidthOf(TopNode), answer)
     IN  IF total = Died THEN pc' = "died" /\ UNCHANGED stack
         ELSE /\ stack' = Append(Front(stack), [Top EXCEPT !.done = @ + 1, !.total = total])
              /\ pc' = "loop"
  /\ UNCHANGED <<file, states, counts, arg, answer>>

Close ==
  /\ pc = "loop" /\ Top.done = Len(Kids(Top.node))
  /\ LET total == IF TopNode.type = "T" THEN 1 ELSE Top.total
     IN  IF total = 0 THEN pc' = "died" /\ UNCHANGED <<states, counts, answer, stack>>
         ELSE /\ states' = [states EXCEPT ![Top.node] = 2]
              /\ counts' = [counts EXCEPT ![Top.node] = total]
              /\ answer' = total
              /\ stack' = Front(stack)
              /\ pc' = "return"
  /\ UNCHANGED <<file, arg>>

Loaded ==
  /\ pc = "return" /\ stack = <<>>
  /\ pc' = IF \E id \in Ids : states[id] # 2 THEN "died" ELSE "ready"
  /\ UNCHANGED <<file, states, counts, stack, arg, answer>>

NextCount == Load \/ Call \/ Descend \/ Take \/ Close \/ Loaded

SpecCount == InitCount /\ [][NextCount]_loading

-----------------------------------------------------------------------------
\* The number of words of each node, in integers without a bound.
Sums(values, ids) ==
  LET s[k \in 0..Len(ids)] == IF k = 0 THEN 0 ELSE s[k - 1] + values[ids[k]]
  IN  s
WordsOf(values, id) ==
  CASE Nodes[id].type = "T" -> 1
    [] Nodes[id].type = "C" -> Sums(values, Kids(id))[Len(Kids(id))]
    [] Nodes[id].type = "R" -> (Nodes[id].stop - Nodes[id].start + 1) * values[Kids(id)[1]]
Exact ==
  LET e[id \in Ids] == WordsOf(e, id)
  IN  e

\* Every choice has a branch, and every range integers that are machine words.
WellFormed ==
  /\ Nodes # <<>>
  /\ \A id \in Ids :
       /\ Nodes[id].type = "C" => Nodes[id].branches # <<>>
       /\ Nodes[id].type = "R" =>
            /\ -(Size \div 2) <= Nodes[id].start
            /\ Nodes[id].start <= Nodes[id].stop
            /\ Nodes[id].stop < Size \div 2

\* A choice with very many branches: more parts than a line may have.
TooLong == \E id \in Ids : Written(Nodes[id]) > MaxTokens

\* Some node of any set of nodes leads out of it only; a set that holds the root
\* and where its nodes lead holds every node.
Acyclic ==
  \A ids \in SUBSET Ids : ids # {} => \E id \in ids : ToSet(Kids(id)) \cap ids = {}
Connected ==
  \A ids \in SUBSET Ids : Root \in ids /\ (\A id \in ids : ToSet(Kids(id)) \subseteq ids) => ids = Ids
Sound == WellFormed /\ Linked /\ Acyclic /\ Connected

\* A path from the root with more nodes than compute_count will follow.
TooDeep ==
  \E path \in [0..MaxDepth + 1 -> Ids] :
    path[0] = Root /\ \A i \in 0..MaxDepth : path[i + 1] \in ToSet(Kids(path[i]))

\* The native engine never answers with a count that has been cut to a machine
\* word: a file it loads is a graph without cycles or unused nodes, each node has
\* exactly its number of words, and what it refuses is not such a graph, has a
\* line with more parts than are split, has too many words behind a node, or is too
\* deep
\* (native/README.md:16, "limited to unsigned 64-bit domains").
CountsNeverWrap ==
  /\ pc \notin {"load", "call", "loop", "return", "died"} =>
       Sound /\ ~ TooLong /\ \A id \in Ids : counts[id] = Exact[id]
  /\ pc = "died" => ~ Sound \/ TooLong \/ TooDeep \/ \E id \in Ids : Exact[id] \notin 1..Size - 1
=============================================================================
