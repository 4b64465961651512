--------------------------- MODULE CompiledSchema ---------------------------
(***************************************************************************)
(* CompiledSchema.__init__ (src/pdrs/core.py): a document is parsed, its   *)
(* graph is checked and ordered by Kahn's algorithm, and the postorder     *)
(* drives the exact counting pass and the construction of the cumulative   *)
(* branch ends used by rank and unrank.  Each loop of the source that      *)
(* carries state is stepped one iteration at a time.                       *)
(***************************************************************************)
EXTENDS PdrsSchema, FiniteSetsExt

CONSTANT Calls  \* [doc, limits]: what the constructor may be given

\* The limits are a SchemaLimits: maxNodes, maxDomainBits, maxDepth, maxRangeWidth.
ASSUME CallsAssumption ==
  \A c \in Calls :
    /\ IsDocument(c.doc)
    /\ \A l \in {"maxNodes", "maxDomainBits", "maxDepth", "maxRangeWidth"} : c.limits[l] \in Nat

VARIABLES
  doc, limits,  \* the document being compiled and the limits, never changed
  pc,           \* the pass the constructor is in
  verdict,      \* "none", or the reason of the SchemaError raised
  pending,      \* the stack of the reachability search
  reachable,    \* the names it has visited
  indegree,     \* incoming edges not yet released
  queue,        \* names whose indegree has reached zero
  topological,  \* names taken off the queue
  edge,         \* position of the inner loop in the last name's targets
  postorder,
  position,     \* position of the counting loop in postorder
  counts, depths,
  offsets,      \* choice name -> the offset of each branch in _choice_lookup
  ends          \* choice name -> _choice_ends

given == <<doc, limits>>
ordering == <<pending, reachable, indegree, queue, topological, edge>>
tables == <<postorder, position, counts, depths, offsets, ends>>
vars == <<given, pc, verdict, ordering, tables>>

nodes == doc.nodes
Declared == DOMAIN nodes
TargetsOf(name) == Targets(nodes[name])
ChoiceNames == {n \in Declared : nodes[n].type = "choice"}

EmptyMap == [n \in {} |-> 0]

Reject(reason) == pc' = "rejected" /\ verdict' = reason

-----------------------------------------------------------------------------

Init ==
  /\ \E c \in Calls : doc = c.doc /\ limits = c.limits
  /\ pc = "parse"
  /\ verdict = "none"
  /\ pending = <<>>
  /\ reachable = {}
  /\ indegree = EmptyMap
  /\ queue = <<>>
  /\ topological = <<>>
  /\ edge = 1
  /\ postorder = <<>>
  /\ position = 1
  /\ counts = EmptyMap
  /\ depths = EmptyMap
  /\ offsets = EmptyMap
  /\ ends = EmptyMap

\* _parse_node accepts this raw node.
ParseNode(raw) ==
  \/ raw.type = "terminal"
  \/ raw.type = "choice" /\ raw.branches # <<>> /\ DistinctValues(raw)
  \/ /\ raw.type = "range"
     /\ raw.start <= raw.stop
     /\ Width(raw) <= limits.maxRangeWidth

ParseAccepts ==
  /\ Declared # {}
  /\ Cardinality(Declared) <= limits.maxNodes
  /\ \A n \in Declared : ParseNode(nodes[n])
  /\ doc.root \in Declared

Parse ==
  /\ pc = "parse"
  /\ IF ParseAccepts THEN pc' = "targets" /\ UNCHANGED verdict ELSE Reject("parse")
  /\ UNCHANGED <<given, ordering, tables>>

\* Every edge ends at a declared node.
CheckTargets ==
  /\ pc = "targets"
  /\ IF \A n \in Declared : \A i \in DOMAIN TargetsOf(n) : TargetsOf(n)[i] \in Declared
       THEN /\ pc' = "reach"
            /\ pending' = <<doc.root>>
            /\ UNCHANGED verdict
       ELSE Reject("missing target") /\ UNCHANGED pending
  /\ UNCHANGED <<given, reachable, indegree, queue, topological, edge, tables>>

\* Variation: a name that was already visited stays on the stack.
VisitKeepsSeen ==
  /\ pc = "reach"
  /\ pending # <<>>
  /\ LET name == pending[Len(pending)]
         rest == SubSeq(pending, 1, Len(pending) - 1)
     IN  IF name \in reachable
           THEN UNCHANGED <<pending, reachable>>
           ELSE /\ reachable' = reachable \cup {name}
                /\ pending' = rest \o TargetsOf(name)
  /\ UNCHANGED <<given, pc, verdict, indegree, queue, topological, edge, tables>>

\* One round of the reachability loop: the last pending name is taken and,
\* when it is new, its targets are stacked.
Visit ==
  /\ pc = "reach"
  /\ pending # <<>>
  /\ LET name == pending[Len(pending)]
         rest == SubSeq(pending, 1, Len(pending) - 1)
     IN  IF name \in reachable
           THEN pending' = rest /\ UNCHANGED reachable
           ELSE /\ reachable' = reachable \cup {name}
                /\ pending' = rest \o TargetsOf(name)
  /\ UNCHANGED <<given, pc, verdict, indegree, queue, topological, edge, tables>>

StartKahn ==
  LET degree == [n \in reachable |-> Cardinality(EdgesInto(nodes, n))]
      sources == {n \in reachable : degree[n] = 0}
  IN  /\ indegree' = degree
      /\ \E q \in [1..Cardinality(sources) -> sources] :
           /\ \A i, j \in DOMAIN q : q[i] = q[j] => i = j
           /\ queue' = q
      /\ pc' = "kahn"

\* Variation: unreachable terminals are let through, since they lead nowhere.
IgnoreTerminals ==
  /\ pc = "reach"
  /\ pending = <<>>
  /\ IF \E n \in Declared \ reachable : TargetsOf(n) # <<>>
       THEN Reject("unreachable") /\ UNCHANGED <<indegree, queue>>
       ELSE StartKahn /\ UNCHANGED verdict
  /\ UNCHANGED <<given, pending, reachable, topological, edge, tables>>

\* The search has ended: unreachable nodes are refused, otherwise indegrees
\* are counted edge by edge and the names without any form the first queue.
\* The source sorts them; no step depends on which order they are in.
CheckReachable ==
  /\ pc = "reach"
  /\ pending = <<>>
  /\ IF Declared \ reachable # {}
       THEN Reject("unreachable") /\ UNCHANGED <<indegree, queue>>
       ELSE StartKahn /\ UNCHANGED verdict
  /\ UNCHANGED <<given, pending, reachable, topological, edge, tables>>

LastTaken == topological[Len(topological)]

\* The inner loop over the targets of the name taken last has ended.
EdgesDone == topological # <<>> => edge > Len(TargetsOf(LastTaken))

TakeReady ==
  /\ pc = "kahn"
  /\ EdgesDone
  /\ queue # <<>>
  /\ topological' = Append(topological, Head(queue))
  /\ queue' = Tail(queue)
  /\ edge' = 1
  /\ UNCHANGED <<given, pc, verdict, pending, reachable, indegree, tables>>

\* One edge of the name taken last no longer holds its target back.
ReleaseEdge ==
  /\ pc = "kahn"
  /\ ~EdgesDone
  /\ LET target == TargetsOf(LastTaken)[edge]
     IN  /\ indegree' = [indegree EXCEPT ![target] = @ - 1]
         /\ queue' = IF indegree[target] - 1 = 0 THEN Append(queue, target) ELSE queue
  /\ edge' = edge + 1
  /\ UNCHANGED <<given, pc, verdict, pending, reachable, topological, tables>>

Reversed(s) == [i \in 1..Len(s) |-> s[Len(s) + 1 - i]]

FinishOrder ==
  /\ pc = "kahn"
  /\ EdgesDone
  /\ queue = <<>>
  /\ IF Len(topological) # Cardinality(reachable)
       THEN Reject("cycle") /\ UNCHANGED postorder
       ELSE /\ postorder' = Reversed(topological)
            /\ pc' = "count"
            /\ UNCHANGED verdict
  /\ UNCHANGED <<given, ordering, position, counts, depths, offsets, ends>>

Total(node) ==
  CASE node.type = "choice" -> PrefixSum(BranchCounts(node, counts))[Len(node.branches)]
    [] node.type = "range"  -> Width(node) * counts[node.target]
    [] OTHER                -> 1

Depth(node) ==
  IF node.type = "terminal"
    THEN 0
    ELSE 1 + Max({depths[Targets(node)[i]] : i \in DOMAIN Targets(node)})

\* Variation: one bit too many is let through.
OneBitMore(total) == total > 2 ^ limits.maxDomainBits

\* total.bit_length() > max_domain_bits, for a positive total
TooManyBits(total) == total >= 2 ^ limits.maxDomainBits

Complaint(total, depth) ==
  IF total <= 0 THEN "empty"
  ELSE IF TooManyBits(total) THEN "bits"
  ELSE IF depth > limits.maxDepth THEN "depth"
  ELSE "none"

\* One round of the counting loop.  A target that has no count yet would
\* raise KeyError in the code and is an error of the run here.
CountNode ==
  /\ pc = "count"
  /\ position <= Len(postorder)
  /\ LET name == postorder[position]
         total == Total(nodes[name])
         depth == Depth(nodes[name])
         complaint == Complaint(total, depth)
     IN  IF complaint # "none"
           THEN Reject(complaint) /\ UNCHANGED <<position, counts, depths>>
           ELSE /\ counts' = [n \in DOMAIN counts \cup {name} |->
                                IF n = name THEN total ELSE counts[n]]
                /\ depths' = [n \in DOMAIN depths \cup {name} |->
                                IF n = name THEN depth ELSE depths[n]]
                /\ position' = position + 1
                /\ UNCHANGED <<pc, verdict>>
  /\ UNCHANGED <<given, ordering, postorder, offsets, ends>>

\* Variation: the lookup stores the offset after it has been advanced.
IndexAfterAdvance ==
  /\ pc = "count"
  /\ position > Len(postorder)
  /\ \E sums \in {[n \in ChoiceNames |->
                     [i \in DOMAIN nodes[n].branches |->
                        PrefixSum(BranchCounts(nodes[n], counts))[i]]]} :
       offsets' = sums /\ ends' = sums
  /\ pc' = "ready"
  /\ UNCHANGED <<given, verdict, ordering, postorder, position, counts, depths>>

\* The second loop of _compute_counts_and_indexes: running offsets before
\* each branch (lookup) and after it (ends).
BuildIndexes ==
  /\ pc = "count"
  /\ position > Len(postorder)
  /\ offsets' = [n \in ChoiceNames |->
                   [i \in DOMAIN nodes[n].branches |->
                      PrefixSum(BranchCounts(nodes[n], counts))[i - 1]]]
  /\ ends' = [n \in ChoiceNames |->
                [i \in DOMAIN nodes[n].branches |->
                   PrefixSum(BranchCounts(nodes[n], counts))[i]]]
  /\ pc' = "ready"
  /\ UNCHANGED <<given, verdict, ordering, postorder, position, counts, depths>>

Finished == pc \in {"ready", "rejected"}

Next ==
  \/ Parse
  \/ CheckTargets
  \/ Visit
  \/ CheckReachable
  \/ TakeReady
  \/ ReleaseEdge
  \/ FinishOrder
  \/ CountNode
  \/ BuildIndexes

Spec == Init /\ [][Next]_vars

\* The constructor runs to its end in one thread.
FairSpec == Spec /\ WF_vars(Next)

-----------------------------------------------------------------------------

Elements(s) == {s[i] : i \in DOMAIN s}

\* Reference: what is reached from a set that is closed under the edges is in it.
ClosedUnder(S) == \A n \in S : Elements(TargetsOf(n)) \subseteq S

Closed == ClosedUnder(Declared)
Connected ==
  \A S \in SUBSET Declared : doc.root \in S /\ ClosedUnder(S) => S = Declared

\* Reference: no names follow each other in a circle, so that of any of them one
\* has no edge from another, or from itself.
Acyclic ==
  \A S \in SUBSET Declared :
    S # {} => \E n \in S : \A m \in S : n \notin Elements(TargetsOf(m))

\* The constructor accepts exactly the parseable, closed, connected and
\* acyclic documents within the limits (150-188, 203-213).
AcceptsExactlyDags ==
  Finished =>
    (verdict \in {"none", "bits", "depth"}
       <=> ParseAccepts /\ Closed /\ Connected /\ Acyclic)

\* Reference: the tokens a name may read and where each leads, and the words from
\* each name to a terminal.  A word has no more tokens than there are names, or it
\* would meet one of them twice.
Steps(n) ==
  CASE nodes[n].type = "choice" -> {<<<<"str", b.value>>, b.target>> : b \in Elements(nodes[n].branches)}
    [] nodes[n].type = "range"  -> {<<<<"int", v>>, nodes[n].target>> : v \in nodes[n].start..nodes[n].stop}
    [] OTHER                    -> {}

LongerWords(shorter) ==
  [n \in Declared |-> UNION {{<<s[1]>> \o w : w \in shorter[s[2]]} : s \in Steps(n)}]

EmptyWords == [n \in Declared |-> IF nodes[n].type = "terminal" THEN {<<>>} ELSE {}]

WordsOfLength[k \in 0..Cardinality(Declared)] ==
  IF k = 0 THEN EmptyWords ELSE LongerWords(WordsOfLength[k - 1])

Words(n) == UNION {WordsOfLength[k][n] : k \in 0..Cardinality(Declared)}

\* The count and depth of every node are those of its language (190-215).
CountsWords ==
  pc = "ready" => \A n \in Declared :
    /\ counts[n] = Cardinality(Words(n))
    /\ depths[n] = Max({Len(w) : w \in Words(n)})

\* A schema is refused for its size only when some node really exceeds the
\* limit on bits or depth, and no node that exceeds one is counted (205-215).
\* The check of line 203 for an empty domain never fires: parsing already
\* refuses every node that could have one.
LimitsAreExact ==
  /\ verdict # "empty"
  /\ verdict = "bits" => \E n \in Declared : Cardinality(Words(n)) >= 2 ^ limits.maxDomainBits
  /\ verdict = "depth" => \E n \in Declared : \E w \in Words(n) : Len(w) > limits.maxDepth
  /\ \A n \in DOMAIN counts : /\ Cardinality(Words(n)) < 2 ^ limits.maxDomainBits
                              /\ \A w \in Words(n) : Len(w) <= limits.maxDepth

Result ==
  [root |-> doc.root, nodes |-> nodes, counts |-> counts, depths |-> depths,
   offsets |-> offsets, ends |-> ends]

\* What the constructor leaves is what rank and unrank rely on (190-230).
ReadyIsCompiled == pc = "ready" => IsCompiled(Result)

\* The constructor ends, on cyclic documents too.
Terminates == <>Finished
=============================================================================
