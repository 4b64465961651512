----------------------------- MODULE RankUnrank -----------------------------
(***************************************************************************)
(* CompiledSchema.rank and CompiledSchema.unrank (src/pdrs/core.py): each  *)
(* walks the graph from the root to a terminal, one node per step.  A      *)
(* client makes one call and, when it returns, calls the other operation   *)
(* on the answer.                                                          *)
(*                                                                         *)
(* A token is <<"str", label>>, <<"int", number>> or <<"bool", b>>: Python *)
(* values of the three types that the isinstance checks tell apart.        *)
(***************************************************************************)
EXTENDS PdrsSchema

CONSTANTS Schemas,   \* compiled schemas: documents with their tables
          Inputs,    \* token sequences a client may pass to rank
          Indices    \* integers a client may pass to unrank

Token == ({"str"} \X Labels) \cup ({"int"} \X Int) \cup ({"bool"} \X BOOLEAN)

ASSUME SchemasAssumption == \A s \in Schemas : IsCompiled(s)
ASSUME InputsAssumption == Inputs \subseteq Seq(Token) /\ Indices \subseteq Int

VARIABLES
  schema,    \* the compiled schema, never changed
  first,     \* the operation called first
  leg,       \* 1 during the first call, 2 during the call on its answer
  op,        \* the operation running, or how the last one ended
  given,     \* the argument of the first call, when it is a rank
  word,      \* the argument of the first call, when it is a value
  tokens,    \* rank: its argument; unrank: its output list
  position,  \* rank: how many tokens it has consumed
  number,    \* rank: the sum so far; unrank: the remainder
  node,      \* the node the walk is at
  trail      \* history: node and number at each step of the first call

walk == <<tokens, position, number, node>>
vars == <<schema, first, leg, op, given, word, walk, trail>>

Count == schema.counts[schema.root]
Here == schema.nodes[node]
Size(n) == schema.counts[n]

-----------------------------------------------------------------------------

Init ==
  /\ schema \in Schemas
  /\ first \in {"rank", "unrank"}
  /\ leg = 1
  /\ op = "idle"
  /\ given = 0
  /\ word = <<>>
  /\ tokens = <<>>
  /\ position = 0
  /\ number = 0
  /\ node = schema.root
  /\ trail = <<>>

\* unrank(index): the bounds check, then the walk starts at the root.
BeginUnrank(index) ==
  /\ node' = schema.root
  /\ tokens' = <<>>
  /\ position' = 0
  /\ number' = index
  /\ op' = IF 0 <= index /\ index < Count THEN "unrank" ELSE "raised"

BeginRank(value) ==
  /\ node' = schema.root
  /\ tokens' = value
  /\ position' = 0
  /\ number' = 0
  /\ op' = "rank"

CallUnrank ==
  /\ op = "idle" /\ first = "unrank"
  /\ \E index \in Indices :
       /\ given' = index
       /\ BeginUnrank(index)
       /\ trail' = <<<<schema.root, index>>>>
  /\ UNCHANGED <<schema, first, leg, word>>

CallRank ==
  /\ op = "idle" /\ first = "rank"
  /\ \E value \in Inputs :
       /\ word' = value
       /\ BeginRank(value)
  /\ trail' = <<<<schema.root, 0>>>>
  /\ UNCHANGED <<schema, first, leg, given>>

\* The client passes the answer of the first call to the other operation.
CallBack ==
  /\ op = "returned" /\ leg = 1
  /\ leg' = 2
  /\ IF first = "unrank" THEN BeginRank(tokens) ELSE BeginUnrank(number)
  /\ UNCHANGED <<schema, first, given, word, trail>>

\* One step of either walk, recorded in the trail during the first call.
StepTo(n, x) ==
  /\ node' = n
  /\ number' = x
  /\ trail' = IF leg = 1 THEN Append(trail, <<n, x>>) ELSE trail
  /\ UNCHANGED <<schema, first, leg, given, word>>

\* The walk ends here, with an answer or an exception.
Stop(how) ==
  /\ op' = how
  /\ UNCHANGED <<schema, first, leg, given, word, walk, trail>>

-----------------------------------------------------------------------------
(* unrank *)

\* Variation: bisect_left, which stops one branch early on a boundary.
BisectLeft(e, x) ==
  CHOOSE b \in 0..Len(e) : /\ \A i \in 1..b : e[i] < x
                           /\ \A i \in b + 1..Len(e) : x <= e[i]

\* bisect_right on an increasing sequence: how many elements are <= x.
Bisect(e, x) ==
  CHOOSE b \in 0..Len(e) : /\ \A i \in 1..b : e[i] <= x
                           /\ \A i \in b + 1..Len(e) : x < e[i]

UnrankTerminal ==
  /\ op = "unrank"
  /\ Here.type = "terminal"
  /\ Stop(IF number # 0 THEN "assertion" ELSE "returned")

UnrankChoice ==
  /\ op = "unrank"
  /\ Here.type = "choice"
  /\ LET end == schema.ends[node]
         index == Bisect(end, number)
         before == IF index = 0 THEN 0 ELSE end[index]
     IN  IF index >= Len(Here.branches)
           THEN Stop("assertion")
           ELSE /\ tokens' = Append(tokens, <<"str", Here.branches[index + 1].value>>)
                /\ StepTo(Here.branches[index + 1].target, number - before)
                /\ UNCHANGED <<op, position>>

UnrankRange ==
  /\ op = "unrank"
  /\ Here.type = "range"
  /\ LET block == Size(Here.target)
         value == Here.start + (number \div block)
     IN  IF value > Here.stop
           THEN Stop("assertion")
           ELSE /\ tokens' = Append(tokens, <<"int", value>>)
                /\ StepTo(Here.target, number % block)
                /\ UNCHANGED <<op, position>>

-----------------------------------------------------------------------------
(* rank *)

Consumed == position >= Len(tokens)
Current == tokens[position + 1]

\* Variation: trailing tokens are ignored.
RankTerminalAnyway == op = "rank" /\ Here.type = "terminal" /\ Stop("returned")

RankTerminal ==
  /\ op = "rank"
  /\ Here.type = "terminal"
  /\ Stop(IF position # Len(tokens) THEN "raised" ELSE "returned")

\* The value ends before the walk does.
RankTooShort ==
  /\ op = "rank"
  /\ Here.type # "terminal"
  /\ Consumed
  /\ Stop("raised")

\* The branch that _choice_lookup gives for the current token.
Selected(i) == Current = <<"str", Here.branches[i].value>>

RankChoice ==
  /\ op = "rank"
  /\ Here.type = "choice"
  /\ ~Consumed
  /\ \/ /\ \A i \in DOMAIN Here.branches : ~Selected(i)
        /\ Stop("raised")
     \/ \E i \in DOMAIN Here.branches :
          /\ Selected(i)
          /\ StepTo(Here.branches[i].target, number + schema.offsets[node][i])
          /\ position' = position + 1
          /\ UNCHANGED <<op, tokens>>

\* Variation: the stop of a range is taken as exclusive.
InRangeExclusive(token) ==
  token[1] = "int" /\ Here.start <= token[2] /\ token[2] < Here.stop

InRange(token) ==
  token[1] = "int" /\ Here.start <= token[2] /\ token[2] <= Here.stop

RankRange ==
  /\ op = "rank"
  /\ Here.type = "range"
  /\ ~Consumed
  /\ IF ~InRange(Current)
       THEN Stop("raised")
       ELSE /\ StepTo(Here.target, number + (Current[2] - Here.start) * Size(Here.target))
            /\ position' = position + 1
            /\ UNCHANGED <<op, tokens>>

-----------------------------------------------------------------------------

UnrankStep == UnrankTerminal \/ UnrankChoice \/ UnrankRange
RankStep == RankTerminal \/ RankTooShort \/ RankChoice \/ RankRange
Next == CallUnrank \/ CallRank \/ CallBack \/ UnrankStep \/ RankStep

Spec == Init /\ [][Next]_vars

-----------------------------------------------------------------------------

\* Reference: where a token leads from a node, a walk over nodes that a sequence of
\* tokens spells, from n to a terminal, and the words of a node.
Follows(s, n, token, next) ==
  LET it == s.nodes[n]
  IN  \/ /\ it.type = "choice"
         /\ \E i \in DOMAIN it.branches : /\ token = <<"str", it.branches[i].value>>
                                          /\ next = it.branches[i].target
      \/ /\ it.type = "range"
         /\ \E v \in it.start..it.stop : token = <<"int", v>>
         /\ next = it.target

Spells(s, n, w, path) ==
  /\ path[1] = n
  /\ \A i \in 1..Len(w) : Follows(s, path[i], w[i], path[i + 1])
  /\ s.nodes[path[Len(w) + 1]].type = "terminal"

IsWord(s, n, w) == \E path \in [1..Len(w) + 1 -> DOMAIN s.nodes] : Spells(s, n, w, path)

\* The walk stays on declared nodes and every variable keeps its type.
TypeOK ==
  /\ first \in {"rank", "unrank"}
  /\ leg \in {1, 2}
  /\ op \in {"idle", "rank", "unrank", "returned", "raised", "assertion"}
  /\ given \in Int
  /\ word \in Seq(Token)
  /\ tokens \in Seq(Token)
  /\ position \in Nat
  /\ number \in Int
  /\ node \in DOMAIN schema.nodes
  /\ trail \in Seq((DOMAIN schema.nodes) \X Int)

\* The three AssertionErrors inside unrank (302-320) never fire, for any
\* index that passes the bounds check.
NoAssertion == op # "assertion"

\* Both operations undo each other: what the second call returns is the
\* argument of the first, and the second call never raises.
RoundTrip ==
  leg = 2 =>
    /\ op # "raised"
    /\ op = "returned" => IF first = "unrank" THEN number = given ELSE tokens = word

\* rank accepts exactly the words of the root (255-290); unrank accepts exactly
\* 0..count-1 and returns words of the root (295-322).
AcceptsExactly ==
  leg = 1 /\ op \in {"returned", "raised"} =>
    IF first = "rank"
      THEN op = "returned" <=> IsWord(schema, schema.root, word)
      ELSE /\ op = "returned" <=> given \in 0..Count - 1
           /\ op = "returned" => IsWord(schema, schema.root, tokens)

\* An answer of rank is an index that unrank accepts.
RankInDomain ==
  op = "returned" /\ (first = "rank" <=> leg = 1) => number \in 0..Count - 1

\* A walk takes no more steps than the depth the schema reports.
DepthBounds ==
  /\ op = "unrank" => Len(tokens) + schema.depths[node] <= schema.depths[schema.root]
  /\ op = "rank" => position + schema.depths[node] <= schema.depths[schema.root]

=============================================================================
