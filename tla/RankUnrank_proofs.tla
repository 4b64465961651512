------------------------- MODULE RankUnrank_proofs --------------------------
(***************************************************************************)
(* The walks of rank and unrank, for every compiled schema, every index    *)
(* and every sequence of tokens; and the audits that compare such walks,   *)
(* right or wrong ones, on a domain of any size.                           *)
(***************************************************************************)
EXTENDS RankUnrank, NumberLemmas, SequenceTheorems, FiniteSetTheorems, FunctionTheorems

CONSTANTS Domains, Values, Reference, AllUpTo, SampleSize
VARIABLES audit, count, forth, back, pc, left, checked, failures, seen

\* The programs that check two functions that should be unrank and rank.
Audit == INSTANCE Audits WITH Counts <- Domains

\* What IsCompiled says of one node, unfolded by the type of the node.
LEMMA NodeFacts ==
  ASSUME NEW s \in Schemas, NEW n \in DOMAIN s.nodes
  PROVE  /\ s.nodes[n].type \in {"terminal", "choice", "range"}
         /\ s.counts[n] \in Nat /\ s.counts[n] > 0 /\ s.depths[n] \in Nat
         /\ s.nodes[n].type = "terminal" => s.counts[n] = 1
BY SchemasAssumption DEF IsCompiled, Tiled, NodeTiles

BranchesOf(s, n) == s.nodes[n].branches
Ways(s, n) == Len(BranchesOf(s, n))
Target(s, n, i) == s.nodes[n].branches[i].target

LEMMA ChoiceFacts ==
  ASSUME NEW s \in Schemas, NEW n \in DOMAIN s.nodes, s.nodes[n].type = "choice"
  PROVE  /\ Ways(s, n) \in Nat /\ Ways(s, n) > 0
         /\ DOMAIN BranchesOf(s, n) = 1..Ways(s, n)
         /\ \A i \in 1..Ways(s, n) :
              /\ Target(s, n, i) \in DOMAIN s.nodes
              /\ BranchesOf(s, n)[i].value \in Labels
              /\ s.depths[Target(s, n, i)] < s.depths[n]
              /\ s.counts[Target(s, n, i)] \in Nat /\ s.counts[Target(s, n, i)] > 0
              /\ s.offsets[n][i] \in Int /\ s.ends[n][i] \in Int
              /\ s.ends[n][i] = s.offsets[n][i] + s.counts[Target(s, n, i)]
              /\ s.offsets[n][i] < s.ends[n][i]
         /\ \A i \in 1..Ways(s, n) - 1 : s.offsets[n][i + 1] = s.ends[n][i]
         /\ s.offsets[n][1] = 0
         /\ s.ends[n][Ways(s, n)] = s.counts[n]
         /\ DistinctValues(s.nodes[n])
         /\ Len(s.ends[n]) = Ways(s, n)
<1> DEFINE it == s.nodes[n]
           len == Ways(s, n)
<1> USE DEF BranchesOf, Target, Ways
<1>1. IsCompiled(s) /\ NodeTiles(it, n, s.counts, s.depths, s.offsets, s.ends)
  BY SchemasAssumption DEF IsCompiled, Tiled
<1>2. it.branches \in Seq(Branch)
  BY <1>1 DEF IsCompiled, IsDocument, IsNode, TerminalNode, ChoiceNode, RangeNode, Malformed
<1>3. len \in Nat /\ DOMAIN it.branches = 1..len /\ len = Len(it.branches)
  BY <1>2
<1>4. ChoiceTiles(it, s.counts[n], s.counts, s.offsets[n], s.ends[n])
  BY <1>1 DEF NodeTiles
<1>5. /\ len > 0
      /\ s.offsets[n][1] = 0
      /\ s.ends[n][len] = s.counts[n]
      /\ DistinctValues(it)
      /\ \A i \in 1..len : s.ends[n][i] = s.offsets[n][i] + s.counts[it.branches[i].target]
      /\ \A i \in 1..len - 1 : s.offsets[n][i + 1] = s.ends[n][i]
  BY <1>3, <1>4 DEF ChoiceTiles
<1>6. ASSUME NEW i \in 1..len
      PROVE  /\ it.branches[i].target \in DOMAIN s.nodes
             /\ it.branches[i].value \in Labels
             /\ s.depths[it.branches[i].target] < s.depths[n]
  <2>1. Targets(it) = [j \in 1..len |-> it.branches[j].target]
    BY <1>3 DEF Targets
  <2>2. Targets(it)[i] \in DOMAIN s.counts /\ s.depths[Targets(it)[i]] < s.depths[n]
    BY <1>1, <2>1 DEF NodeTiles
  <2>3. it.branches[i] \in Branch
    BY <1>2, <1>3
  <2> QED BY <2>1, <2>2, <2>3, <1>1 DEF IsCompiled, Tiled, Branch
<1>7. /\ Len(s.ends[n]) = len
      /\ \A i \in 1..len : s.offsets[n][i] \in Int /\ s.ends[n][i] \in Int
  <2>1. /\ s.offsets[n] \in Seq(Int) /\ Len(s.offsets[n]) = len
        /\ s.ends[n] \in Seq(Int) /\ Len(s.ends[n]) = len
    BY <1>1, <1>3 DEF IsCompiled
  <2> QED BY <2>1
<1>8. \A i \in 1..len : /\ s.counts[it.branches[i].target] \in Nat
                        /\ s.counts[it.branches[i].target] > 0
  BY <1>6, NodeFacts
<1>9. ASSUME NEW i \in 1..len PROVE s.offsets[n][i] < s.ends[n][i]
  <2>1. /\ s.counts[it.branches[i].target] \in Nat
        /\ s.counts[it.branches[i].target] > 0
    BY <1>8
  <2>2. s.offsets[n][i] \in Int /\ s.ends[n][i] \in Int
    BY <1>7
  <2>3. s.ends[n][i] = s.offsets[n][i] + s.counts[it.branches[i].target]
    BY <1>5
  <2> QED BY <2>1, <2>2, <2>3
<1> QED BY <1>3, <1>5, <1>6, <1>7, <1>8, <1>9

LEMMA RangeFacts ==
  ASSUME NEW s \in Schemas, NEW n \in DOMAIN s.nodes, s.nodes[n].type = "range"
  PROVE  LET it == s.nodes[n]
         IN  /\ it.start \in Int /\ it.stop \in Int /\ it.start <= it.stop
             /\ it.target \in DOMAIN s.nodes
             /\ s.depths[it.target] < s.depths[n]
             /\ s.counts[it.target] \in Nat /\ s.counts[it.target] > 0
             /\ s.counts[n] = (it.stop - it.start + 1) * s.counts[it.target]
<1> DEFINE it == s.nodes[n]
<1>1. IsCompiled(s) /\ NodeTiles(it, n, s.counts, s.depths, s.offsets, s.ends)
  BY SchemasAssumption DEF IsCompiled, Tiled
<1>2. it.start \in Int /\ it.stop \in Int
  BY <1>1 DEF IsCompiled, IsDocument, IsNode, TerminalNode, ChoiceNode, RangeNode, Malformed
<1>3. RangeTiles(it, s.counts[n], s.counts)
  BY <1>1 DEF NodeTiles
<1>4. it.target \in DOMAIN s.nodes /\ s.depths[it.target] < s.depths[n]
  <2>1. Targets(it) = <<it.target>>
    BY DEF Targets
  <2>2. Targets(it)[1] \in DOMAIN s.counts /\ s.depths[Targets(it)[1]] < s.depths[n]
    BY <1>1, <2>1 DEF NodeTiles
  <2> QED BY <2>1, <2>2, <1>1 DEF IsCompiled, Tiled
<1> QED BY <1>2, <1>3, <1>4, NodeFacts DEF RangeTiles, Width

\* An earlier branch's block ends before a later one's begins.
LEMMA BlocksInOrder ==
  ASSUME NEW s \in Schemas, NEW n \in DOMAIN s.nodes, s.nodes[n].type = "choice",
         NEW i \in 1..Ways(s, n), NEW j \in i + 1..Ways(s, n)
  PROVE  s.ends[n][i] <= s.offsets[n][j]
<1> DEFINE off == s.offsets[n]
           end == s.ends[n]
           Bad == {k \in i + 1..Ways(s, n) : ~ (end[i] <= off[k])}
<1>1. SUFFICES ASSUME Bad # {} PROVE FALSE
  OBVIOUS
<1>2. Ways(s, n) \in Nat
  BY ChoiceFacts
<1>3. PICK k \in Bad : \A l \in Bad : k <= l
  <2>1. Bad \subseteq Nat
    BY <1>2
  <2> QED BY <1>1, <2>1, LeastNat
<1>4. \A l \in 1..Ways(s, n) : /\ off[l] \in Int /\ end[l] \in Int
                               /\ off[l] < end[l]
  BY ChoiceFacts
<1>5. \A l \in 1..Ways(s, n) - 1 : off[l + 1] = end[l]
  BY ChoiceFacts
<1>6. k \in i + 1..Ways(s, n) /\ ~ (end[i] <= off[k])
  OBVIOUS
<1>7. k # i + 1
  BY <1>2, <1>4, <1>5, <1>6
<1>8. k - 1 \in i + 1..Ways(s, n) /\ k - 1 \notin Bad
  BY <1>2, <1>3, <1>6, <1>7
<1>9. end[i] <= off[k - 1]
  BY <1>8
<1>10. off[k] = end[k - 1]
  <2>1. k - 1 \in 1..Ways(s, n) - 1 /\ (k - 1) + 1 = k
    BY <1>2, <1>6, <1>8
  <2> QED BY <1>5, <2>1
<1> QED BY <1>2, <1>4, <1>6, <1>8, <1>9, <1>10

\* Blocks do not overlap: an index lies in the block of one branch only.
LEMMA BranchUnique ==
  ASSUME NEW s \in Schemas, NEW n \in DOMAIN s.nodes, s.nodes[n].type = "choice",
         NEW i \in 1..Ways(s, n), NEW j \in 1..Ways(s, n), NEW x \in Int,
         s.offsets[n][i] <= x, x < s.ends[n][i],
         s.offsets[n][j] <= x, x < s.ends[n][j]
  PROVE  i = j
<1>1. \A l \in 1..Ways(s, n) : s.offsets[n][l] \in Int /\ s.ends[n][l] \in Int
  BY ChoiceFacts
<1>2. Ways(s, n) \in Nat
  BY ChoiceFacts
<1>3. CASE i < j
  <2>1. s.ends[n][i] <= s.offsets[n][j]
    BY <1>2, <1>3, BlocksInOrder
  <2> QED BY <1>1, <2>1
<1>4. CASE j < i
  <2>1. s.ends[n][j] <= s.offsets[n][i]
    BY <1>2, <1>4, BlocksInOrder
  <2> QED BY <1>1, <2>1
<1> QED BY <1>2, <1>3, <1>4

\* Every block lies within the node's own count.
LEMMA BlockInside ==
  ASSUME NEW s \in Schemas, NEW n \in DOMAIN s.nodes, s.nodes[n].type = "choice",
         NEW i \in 1..Ways(s, n)
  PROVE  0 <= s.offsets[n][i] /\ s.ends[n][i] <= s.counts[n]
<1> DEFINE len == Ways(s, n)
<1>1. /\ len \in Nat /\ s.offsets[n][1] = 0 /\ s.ends[n][len] = s.counts[n]
      /\ s.counts[n] \in Nat
      /\ \A l \in 1..len : /\ s.offsets[n][l] \in Int /\ s.ends[n][l] \in Int
                           /\ s.offsets[n][l] < s.ends[n][l]
  BY ChoiceFacts, NodeFacts
<1>2. i = 1 \/ s.ends[n][1] <= s.offsets[n][i]
  BY <1>1, BlocksInOrder
<1>3. i = len \/ s.ends[n][i] <= s.offsets[n][len]
  BY <1>1, BlocksInOrder
<1> QED BY <1>1, <1>2, <1>3

\* bisect_right finds the branch whose block holds the remainder (307-311).
LEMMA BisectFacts ==
  ASSUME NEW s \in Schemas, NEW n \in DOMAIN s.nodes, s.nodes[n].type = "choice",
         NEW x \in Nat, x < s.counts[n],
         NEW b, b = Bisect(s.ends[n], x)
  PROVE  /\ b \in 0..Ways(s, n) - 1
         /\ s.offsets[n][b + 1] <= x /\ x < s.ends[n][b + 1]
         /\ (IF b = 0 THEN 0 ELSE s.ends[n][b]) = s.offsets[n][b + 1]
<1> DEFINE len == Ways(s, n)
           off == s.offsets[n]
           end == s.ends[n]
           Splits(c) == /\ \A i \in 1..c : end[i] <= x
                        /\ \A i \in c + 1..len : x < end[i]
<1>1. /\ len \in Nat /\ len > 0 /\ Len(end) = len
      /\ \A i \in 1..len : off[i] \in Int /\ end[i] \in Int /\ off[i] < end[i]
      /\ \A i \in 1..len - 1 : off[i + 1] = end[i]
      /\ off[1] = 0
      /\ end[len] = s.counts[n]
  BY ChoiceFacts
<1>2. \A i \in 1..len : \A j \in i + 1..len : end[i] <= off[j]
  BY BlocksInOrder
<1>3. b = CHOOSE c \in 0..len : Splits(c)
  BY <1>1 DEF Bisect
<1> HIDE DEF len, off, end
<1>4. PICK m \in 1..len : x < end[m] /\ \A i \in 1..m - 1 : end[i] <= x
  <2> DEFINE Above == {i \in 1..len : x < end[i]}
  <2>1. len \in Above /\ Above \subseteq Nat
    BY <1>1
  <2>2. PICK m \in Above : \A k \in Above : m <= k
    BY <2>1, LeastNat
  <2>3. ASSUME NEW i \in 1..m - 1 PROVE end[i] <= x
    <3>1. i \in 1..len /\ i \notin Above
      BY <1>1, <2>2
    <3> QED BY <1>1, <3>1
  <2> QED BY <2>3
<1>5. Splits(m - 1)
  <2>1. ASSUME NEW i \in m..len PROVE x < end[i]
    <3>1. i = m \/ end[m] <= off[i]
      BY <1>1, <1>2
    <3> QED BY <1>1, <1>4, <3>1
  <2> QED BY <1>1, <1>4, <2>1
<1>6. b \in 0..len /\ Splits(b)
  <2>1. m - 1 \in 0..len
    BY <1>1
  <2> HIDE DEF Splits
  <2> QED BY <1>3, <1>5, <2>1
<1>7. b < len
  BY <1>1, <1>6
<1>8. off[b + 1] = IF b = 0 THEN 0 ELSE end[b]
  BY <1>1, <1>6, <1>7
<1>9. off[b + 1] <= x /\ x < end[b + 1]
  BY <1>1, <1>6, <1>7, <1>8
<1> QED BY <1>1, <1>6, <1>7, <1>8, <1>9 DEF len, off, end

-----------------------------------------------------------------------------
(* Both operations take the same steps.                                    *)

\* At node n the token tok leads to node t, whose block starts d further on.
Leads(s, n, tok, t, d) ==
  \/ /\ s.nodes[n].type = "choice"
     /\ \E i \in 1..Ways(s, n) : /\ tok = <<"str", BranchesOf(s, n)[i].value>>
                                 /\ t = Target(s, n, i)
                                 /\ d = s.offsets[n][i]
  \/ /\ s.nodes[n].type = "range"
     /\ \E v \in 0..s.nodes[n].stop - s.nodes[n].start :
          /\ tok = <<"int", s.nodes[n].start + v>>
          /\ t = s.nodes[n].target
          /\ d = v * s.counts[t]

\* A token leads to one place only.
LEMMA LeadsOnce ==
  ASSUME NEW s \in Schemas, NEW n \in DOMAIN s.nodes,
         NEW tok, NEW t1, NEW d1, NEW t2, NEW d2,
         Leads(s, n, tok, t1, d1), Leads(s, n, tok, t2, d2)
  PROVE  t1 = t2 /\ d1 = d2
<1>1. CASE s.nodes[n].type = "choice"
  <2>1. PICK i \in 1..Ways(s, n) : /\ tok = <<"str", BranchesOf(s, n)[i].value>>
                                   /\ t1 = Target(s, n, i)
                                   /\ d1 = s.offsets[n][i]
    BY <1>1 DEF Leads
  <2>2. PICK j \in 1..Ways(s, n) : /\ tok = <<"str", BranchesOf(s, n)[j].value>>
                                   /\ t2 = Target(s, n, j)
                                   /\ d2 = s.offsets[n][j]
    BY <1>1 DEF Leads
  <2>3. DistinctValues(s.nodes[n]) /\ DOMAIN BranchesOf(s, n) = 1..Ways(s, n)
    BY <1>1, ChoiceFacts
  <2>4. BranchesOf(s, n)[i].value = BranchesOf(s, n)[j].value
    BY <2>1, <2>2
  <2>5. i = j
    BY <2>3, <2>4 DEF DistinctValues, BranchesOf
  <2> QED BY <2>1, <2>2, <2>5
<1>2. CASE s.nodes[n].type = "range"
  <2>1. PICK v \in 0..s.nodes[n].stop - s.nodes[n].start :
               /\ tok = <<"int", s.nodes[n].start + v>>
               /\ t1 = s.nodes[n].target
               /\ d1 = v * s.counts[t1]
    BY <1>2 DEF Leads
  <2>2. PICK w \in 0..s.nodes[n].stop - s.nodes[n].start :
               /\ tok = <<"int", s.nodes[n].start + w>>
               /\ t2 = s.nodes[n].target
               /\ d2 = w * s.counts[t2]
    BY <1>2 DEF Leads
  <2>3. s.nodes[n].start \in Int /\ s.nodes[n].stop \in Int
    BY <1>2, RangeFacts
  <2>4. s.nodes[n].start + v = s.nodes[n].start + w
    BY <2>1, <2>2
  <2>5. v = w
    BY <2>3, <2>4
  <2> QED BY <2>1, <2>2, <2>5
<1> QED BY <1>1, <1>2, NodeFacts DEF Leads

\* At one node, the blocks of two tokens have no index in common.
LEMMA LeadsApart ==
  ASSUME NEW s \in Schemas, NEW n \in DOMAIN s.nodes, NEW x \in Int,
         NEW tok1, NEW t1, NEW d1, NEW tok2, NEW t2, NEW d2,
         Leads(s, n, tok1, t1, d1), d1 <= x, x < d1 + s.counts[t1],
         Leads(s, n, tok2, t2, d2), d2 <= x, x < d2 + s.counts[t2]
  PROVE  tok1 = tok2 /\ t1 = t2 /\ d1 = d2
<1>1. CASE s.nodes[n].type = "choice"
  <2>1. PICK i \in 1..Ways(s, n) : /\ tok1 = <<"str", BranchesOf(s, n)[i].value>>
                                   /\ t1 = Target(s, n, i)
                                   /\ d1 = s.offsets[n][i]
    BY <1>1 DEF Leads
  <2>2. PICK j \in 1..Ways(s, n) : /\ tok2 = <<"str", BranchesOf(s, n)[j].value>>
                                   /\ t2 = Target(s, n, j)
                                   /\ d2 = s.offsets[n][j]
    BY <1>1 DEF Leads
  <2>3. s.ends[n][i] = d1 + s.counts[t1] /\ s.ends[n][j] = d2 + s.counts[t2]
    BY <1>1, <2>1, <2>2, ChoiceFacts
  <2>4. i = j
    BY <1>1, <2>1, <2>2, <2>3, BranchUnique
  <2> QED BY <2>1, <2>2, <2>4
<1>2. CASE s.nodes[n].type = "range"
  <2> DEFINE block == s.counts[s.nodes[n].target]
  <2>1. PICK v \in 0..s.nodes[n].stop - s.nodes[n].start :
               /\ tok1 = <<"int", s.nodes[n].start + v>>
               /\ t1 = s.nodes[n].target
               /\ d1 = v * s.counts[t1]
    BY <1>2 DEF Leads
  <2>2. PICK w \in 0..s.nodes[n].stop - s.nodes[n].start :
               /\ tok2 = <<"int", s.nodes[n].start + w>>
               /\ t2 = s.nodes[n].target
               /\ d2 = w * s.counts[t2]
    BY <1>2 DEF Leads
  <2>3. block \in Nat /\ s.nodes[n].start \in Int /\ s.nodes[n].stop \in Int
    BY <1>2, RangeFacts
  <2>4. v \in Nat /\ w \in Nat
    BY <2>3
  <2>5. v * block <= x /\ x < v * block + block /\ w * block <= x /\ x < w * block + block
    BY <2>1, <2>2
  <2> HIDE DEF block
  <2>6. v * block \in Nat /\ w * block \in Nat
    BY <2>3, <2>4
  <2>7. ~ (v < w)
    <3>1. v < w => v * block + block <= w * block
      BY <2>3, <2>4, BlockFacts
    <3> QED BY <2>3, <2>5, <2>6, <3>1
  <2>8. ~ (w < v)
    <3>1. w < v => w * block + block <= v * block
      BY <2>3, <2>4, BlockFacts
    <3> QED BY <2>3, <2>5, <2>6, <3>1
  <2>9. v = w
    BY <2>4, <2>7, <2>8
  <2> QED BY <2>1, <2>2, <2>9
<1> QED BY <1>1, <1>2, NodeFacts DEF Leads

\* The block a token leads to lies within the node's own.
LEMMA LeadsInside ==
  ASSUME NEW s \in Schemas, NEW n \in DOMAIN s.nodes, NEW tok, NEW t, NEW d,
         Leads(s, n, tok, t, d)
  PROVE  /\ t \in DOMAIN s.nodes
         /\ d \in Nat
         /\ d + s.counts[t] <= s.counts[n]
         /\ s.depths[t] < s.depths[n]
<1>1. CASE s.nodes[n].type = "choice"
  <2>1. PICK i \in 1..Ways(s, n) : /\ t = Target(s, n, i)
                                   /\ d = s.offsets[n][i]
    BY <1>1 DEF Leads
  <2>2. /\ t \in DOMAIN s.nodes /\ d \in Int
        /\ s.ends[n][i] = d + s.counts[t]
        /\ s.depths[t] < s.depths[n]
    BY <1>1, <2>1, ChoiceFacts
  <2>3. 0 <= d /\ s.ends[n][i] <= s.counts[n]
    BY <1>1, <2>1, BlockInside
  <2> QED BY <2>2, <2>3
<1>2. CASE s.nodes[n].type = "range"
  <2>1. PICK v \in 0..s.nodes[n].stop - s.nodes[n].start :
               /\ t = s.nodes[n].target
               /\ d = v * s.counts[t]
    BY <1>2 DEF Leads
  <2> DEFINE width == s.nodes[n].stop - s.nodes[n].start + 1
  <2>2. /\ t \in DOMAIN s.nodes /\ s.counts[t] \in Nat
        /\ s.counts[n] = width * s.counts[t]
        /\ s.depths[t] < s.depths[n]
        /\ v \in Nat /\ width \in Int /\ v < width
    BY <1>2, <2>1, RangeFacts
  <2> QED BY <2>1, <2>2, BlockFacts
<1> QED BY <1>1, <1>2 DEF Leads
-----------------------------------------------------------------------------
(* The walks stay within their bounds.                                     *)

\* While unrank walks, the remainder is an index of the node it is at; while
\* rank walks, the sum so far leaves room for every word of the node it is at.
InBounds ==
  /\ op = "unrank" => number \in 0..Size(node) - 1
  /\ op = "rank" => 0 <= number /\ number + Size(node) <= Count

\* Which call is running.
RightLeg ==
  /\ op = "idle" => leg = 1
  /\ op = "unrank" => (first = "unrank" <=> leg = 1)
  /\ op = "rank" => (first = "rank" <=> leg = 1)

SafeInv ==
  /\ schema \in Schemas
  /\ TypeOK
  /\ RightLeg
  /\ InBounds
  /\ NoAssertion
  /\ RankInDomain
  /\ DepthBounds

LEMMA SafeInit == Init => SafeInv
<1> SUFFICES ASSUME Init PROVE SafeInv
  OBVIOUS
<1>1. schema.root \in DOMAIN schema.nodes
  BY SchemasAssumption DEF Init, IsCompiled
<1> QED BY <1>1 DEF Init, SafeInv, TypeOK, RightLeg, InBounds, NoAssertion,
                   RankInDomain, DepthBounds

\* What the invariant says of the node the walk is at and of the root.
LEMMA HereFacts ==
  ASSUME SafeInv
  PROVE  /\ schema.root \in DOMAIN schema.nodes
         /\ node \in DOMAIN schema.nodes
         /\ Size(node) \in Nat /\ Size(node) > 0 /\ schema.depths[node] \in Nat
         /\ Count \in Nat /\ Count > 0 /\ schema.depths[schema.root] \in Nat
         /\ Here.type \in {"terminal", "choice", "range"}
         /\ Here.type = "terminal" => Size(node) = 1
<1>1. schema.root \in DOMAIN schema.nodes /\ node \in DOMAIN schema.nodes
  BY SchemasAssumption DEF SafeInv, TypeOK, IsCompiled
<1> QED BY <1>1, NodeFacts DEF SafeInv, Size, Count, Here

\* Ending a walk is safe when a rank that is returned is an index.
LEMMA SafeStop ==
  ASSUME SafeInv, NEW how \in {"returned", "raised"}, Stop(how),
         how = "returned" /\ (first = "rank" <=> leg = 1) => number \in 0..Count - 1
  PROVE  SafeInv'
BY DEF Stop, walk, SafeInv, TypeOK, RightLeg, InBounds, NoAssertion, RankInDomain,
       DepthBounds, Count

\* Stepping to a target is safe when the new number is in the target's bounds.
LEMMA SafeStep ==
  ASSUME SafeInv, op' = op, op \in {"rank", "unrank"},
         NEW n \in DOMAIN schema.nodes, NEW x \in Int, StepTo(n, x),
         schema.depths[n] < schema.depths[node],
         tokens' \in Seq(Token), position' \in Nat,
         op = "unrank" => /\ Len(tokens') = Len(tokens) + 1
                          /\ x \in 0..Size(n) - 1,
         op = "rank" => /\ position' = position + 1
                        /\ 0 <= x /\ x + Size(n) <= Count
  PROVE  SafeInv'
<1> USE DEF SafeInv, StepTo
<1>1. TypeOK'
  <2>1. trail' \in Seq((DOMAIN schema.nodes) \X Int)
    BY DEF TypeOK
  <2> QED BY <2>1 DEF TypeOK
<1>2. RightLeg' /\ InBounds' /\ NoAssertion' /\ RankInDomain'
  BY DEF RightLeg, InBounds, NoAssertion, RankInDomain, Size, Count
<1>3. DepthBounds'
  <2>1. schema.depths[n] \in Nat /\ schema.depths[node] \in Nat
    BY NodeFacts, HereFacts
  <2>2. schema.depths[schema.root] \in Nat
    BY HereFacts
  <2>3. Len(tokens) \in Nat /\ position \in Nat
    BY DEF TypeOK
  <2>4. node' = n /\ schema' = schema
    OBVIOUS
  <2>5. CASE op = "unrank"
    <3>1. Len(tokens) + schema.depths[node] <= schema.depths[schema.root]
      BY <2>5 DEF DepthBounds
    <3>2. Len(tokens') = Len(tokens) + 1
      BY <2>5
    <3>3. Len(tokens') + schema.depths[n] <= schema.depths[schema.root]
      BY <3>1, <3>2, <2>1, <2>2, <2>3
    <3> QED BY <3>3, <2>4, <2>5 DEF DepthBounds
  <2>6. CASE op = "rank"
    <3>1. position + schema.depths[node] <= schema.depths[schema.root]
      BY <2>6 DEF DepthBounds
    <3>2. position' = position + 1
      BY <2>6
    <3>3. position' + schema.depths[n] <= schema.depths[schema.root]
      BY <3>1, <3>2, <2>1, <2>2, <2>3
    <3> QED BY <3>3, <2>4, <2>6 DEF DepthBounds
  <2> QED BY <2>5, <2>6
<1> QED BY <1>1, <1>2, <1>3

\* Starting a walk is safe: unrank refuses what is out of bounds.
LEMMA SafeBeginUnrank ==
  ASSUME SafeInv, NEW index \in Int, BeginUnrank(index),
         schema' = schema, first' = first, given' \in Int, word' = word,
         trail' \in Seq((DOMAIN schema.nodes) \X Int),
         leg' \in {1, 2}, first = "unrank" <=> leg' = 1
  PROVE  SafeInv'
<1> USE DEF SafeInv, BeginUnrank
<1>1. TypeOK'
  BY HereFacts DEF TypeOK
<1>2. RightLeg' /\ InBounds' /\ NoAssertion' /\ RankInDomain'
  BY HereFacts DEF RightLeg, InBounds, NoAssertion, RankInDomain, Size, Count
<1>3. DepthBounds'
  BY HereFacts DEF DepthBounds
<1> QED BY <1>1, <1>2, <1>3

LEMMA SafeBeginRank ==
  ASSUME SafeInv, NEW value \in Seq(Token), BeginRank(value),
         schema' = schema, first' = first, given' = given, word' \in Seq(Token),
         trail' \in Seq((DOMAIN schema.nodes) \X Int),
         leg' \in {1, 2}, first = "rank" <=> leg' = 1
  PROVE  SafeInv'
<1> USE DEF SafeInv, BeginRank
<1>1. TypeOK'
  BY HereFacts DEF TypeOK
<1>2. RightLeg' /\ InBounds' /\ NoAssertion' /\ RankInDomain'
  BY HereFacts DEF RightLeg, InBounds, NoAssertion, RankInDomain, Size, Count
<1>3. DepthBounds'
  BY HereFacts DEF DepthBounds
<1> QED BY <1>1, <1>2, <1>3

\* unrank picks the token whose block holds the remainder.
LEMMA UnrankTakes ==
  ASSUME SafeInv, UnrankChoice \/ UnrankRange
  PROVE  \E tok, t, d :
           /\ tok \in Token
           /\ Leads(schema, node, tok, t, d)
           /\ d <= number /\ number < d + Size(t)
           /\ tokens' = Append(tokens, tok)
           /\ StepTo(t, number - d)
           /\ op = "unrank" /\ op' = op /\ position' = position
<1>1. /\ schema \in Schemas /\ node \in DOMAIN schema.nodes
      /\ op = "unrank"
      /\ number \in Nat /\ number < Size(node)
  BY HereFacts DEF SafeInv, InBounds, UnrankChoice, UnrankRange
<1>2. CASE UnrankChoice
  <2>1. schema.nodes[node].type = "choice"
    BY <1>2 DEF UnrankChoice, Here
  <2> DEFINE b == Bisect(schema.ends[node], number)
             before == IF b = 0 THEN 0 ELSE schema.ends[node][b]
             tok == <<"str", BranchesOf(schema, node)[b + 1].value>>
             t == Target(schema, node, b + 1)
             d == schema.offsets[node][b + 1]
  <2>2. /\ b \in 0..Ways(schema, node) - 1
        /\ d <= number /\ number < schema.ends[node][b + 1]
        /\ before = d
    BY <1>1, <2>1, BisectFacts DEF Size
  <2>3. ~ (b >= Len(Here.branches)) /\ b + 1 \in 1..Ways(schema, node)
    <3>1. Ways(schema, node) \in Nat
      BY <1>1, <2>1, ChoiceFacts
    <3> QED BY <2>2, <3>1 DEF Ways, BranchesOf, Here
  <2>4. /\ tokens' = Append(tokens, tok) /\ StepTo(t, number - before)
        /\ op' = op /\ position' = position
    BY <1>2, <2>3 DEF UnrankChoice, Here, BranchesOf, Target
  <2> HIDE DEF b
  <2>5. /\ schema.ends[node][b + 1] = d + Size(t)
        /\ BranchesOf(schema, node)[b + 1].value \in Labels
    BY <1>1, <2>1, <2>3, ChoiceFacts DEF Size
  <2>6. Leads(schema, node, tok, t, d)
    BY <2>1, <2>3 DEF Leads
  <2>7. tok \in Token
    BY <2>5 DEF Token
  <2> HIDE DEF tok, t, d, before
  <2>8. StepTo(t, number - d) /\ number < d + Size(t)
    BY <2>2, <2>4, <2>5
  <2> QED BY <1>1, <2>2, <2>4, <2>6, <2>7, <2>8
<1>3. CASE UnrankRange
  <2>1. schema.nodes[node].type = "range"
    BY <1>3 DEF UnrankRange, Here
  <2> DEFINE t == Here.target
             q == number \div Size(t)
             r == number % Size(t)
             d == q * Size(t)
             tok == <<"int", Here.start + q>>
             width == Here.stop - Here.start + 1
  <2>2. /\ Here.start \in Int /\ Here.stop \in Int
        /\ Size(t) \in Nat /\ Size(t) > 0
        /\ Size(node) = width * Size(t)
    BY <1>1, <2>1, RangeFacts DEF Here, Size
  <2>3. q \in 0..width - 1 /\ r \in 0..Size(t) - 1 /\ number = d + r
    BY <1>1, <2>2, DivModFacts
  <2>4. /\ tokens' = Append(tokens, tok) /\ StepTo(t, r)
        /\ op' = op /\ position' = position
    <3>1. ~ (Here.start + q > Here.stop)
      BY <2>2, <2>3
    <3> QED BY <1>3, <3>1 DEF UnrankRange
  <2> HIDE DEF q, r
  <2>5. tok \in Token
    BY <2>2, <2>3 DEF Token
  <2>6. Leads(schema, node, tok, t, d)
    BY <2>1, <2>2, <2>3 DEF Leads, Here, Size
  <2>7. d \in Nat
    BY <2>2, <2>3
  <2> HIDE DEF d, tok, t
  <2>8. d <= number /\ number < d + Size(t) /\ r = number - d
    BY <2>2, <2>3, <2>7
  <2> QED BY <1>1, <2>4, <2>5, <2>6, <2>8
<1> QED BY <1>2, <1>3

\* rank follows the current token where it leads, and refuses it otherwise.
LEMMA RankTakes ==
  ASSUME SafeInv, RankChoice \/ RankRange
  PROVE  /\ op = "rank" /\ position < Len(tokens) /\ Current \in Token
         /\ \/ Stop("raised") /\ \A t, d : ~ Leads(schema, node, Current, t, d)
            \/ \E t, d : /\ Leads(schema, node, Current, t, d)
                         /\ StepTo(t, number + d)
                         /\ op' = op /\ position' = position + 1 /\ tokens' = tokens
<1>1. /\ schema \in Schemas /\ node \in DOMAIN schema.nodes
      /\ op = "rank" /\ position \in Nat /\ tokens \in Seq(Token)
      /\ position < Len(tokens)
  BY DEF SafeInv, TypeOK, RankChoice, RankRange, Consumed
<1>2. Current \in Token
  BY <1>1 DEF Current
<1>3. CASE RankChoice
  <2>1. schema.nodes[node].type = "choice"
    BY <1>3 DEF RankChoice, Here
  <2>2. DOMAIN Here.branches = 1..Ways(schema, node)
    BY <1>1, <2>1, ChoiceFacts DEF Here, BranchesOf
  <2>3. CASE Stop("raised") /\ \A i \in DOMAIN Here.branches : ~Selected(i)
    <3>1. \A t, d : ~ Leads(schema, node, Current, t, d)
      BY <2>1, <2>2, <2>3 DEF Leads, Selected, Here, BranchesOf
    <3> QED BY <1>1, <1>2, <2>3, <3>1
  <2>4. ASSUME NEW i \in DOMAIN Here.branches, Selected(i),
               StepTo(Here.branches[i].target, number + schema.offsets[node][i]),
               position' = position + 1, op' = op, tokens' = tokens
        PROVE  \E t, d : /\ Leads(schema, node, Current, t, d)
                         /\ StepTo(t, number + d)
                         /\ op' = op /\ position' = position + 1 /\ tokens' = tokens
    <3>1. Leads(schema, node, Current, Here.branches[i].target, schema.offsets[node][i])
      BY <2>1, <2>2, <2>4 DEF Leads, Selected, Here, BranchesOf, Target
    <3> QED BY <2>4, <3>1
  <2> QED BY <1>1, <1>2, <1>3, <2>3, <2>4 DEF RankChoice
<1>4. CASE RankRange
  <2>1. schema.nodes[node].type = "range"
    BY <1>4 DEF RankRange, Here
  <2>2. Here.start \in Int /\ Here.stop \in Int
    BY <1>1, <2>1, RangeFacts DEF Here
  <2>3. CASE ~InRange(Current)
    <3>1. \A t, d : ~ Leads(schema, node, Current, t, d)
      BY <2>1, <2>2, <2>3 DEF Leads, InRange, Here
    <3> QED BY <1>1, <1>2, <1>4, <2>3, <3>1 DEF RankRange
  <2>4. CASE InRange(Current)
    <3> DEFINE v == Current[2] - Here.start
    <3>1. Current[2] \in Int /\ Current = <<"int", Here.start + v>>
      BY <1>2, <2>2, <2>4 DEF InRange, Token
    <3>2. v \in 0..Here.stop - Here.start
      BY <2>2, <2>4, <3>1 DEF InRange
    <3>3. Leads(schema, node, Current, Here.target, v * Size(Here.target))
      BY <2>1, <3>1, <3>2 DEF Leads, Here, Size
    <3> QED BY <1>1, <1>2, <1>4, <2>4, <3>3 DEF RankRange
  <2> QED BY <2>3, <2>4
<1> QED BY <1>3, <1>4

LEMMA SafeNext == SafeInv /\ [Next]_vars => SafeInv'
<1> SUFFICES ASSUME SafeInv, [Next]_vars PROVE SafeInv'
  OBVIOUS
<1>1. /\ schema \in Schemas /\ node \in DOMAIN schema.nodes
      /\ tokens \in Seq(Token) /\ position \in Nat /\ number \in Int
      /\ given \in Int /\ word \in Seq(Token) /\ leg \in {1, 2}
      /\ first \in {"rank", "unrank"}
      /\ trail \in Seq((DOMAIN schema.nodes) \X Int)
  BY HereFacts DEF SafeInv, TypeOK
<1>2. CASE UNCHANGED vars
  BY <1>2 DEF vars, walk, SafeInv, TypeOK, RightLeg, InBounds, NoAssertion,
              RankInDomain, DepthBounds, Size, Count
<1>3. CASE CallUnrank
  <2>1. PICK index \in Indices : /\ given' = index
                                 /\ BeginUnrank(index)
                                 /\ trail' = <<<<schema.root, index>>>>
    BY <1>3 DEF CallUnrank
  <2>2. index \in Int /\ trail' \in Seq((DOMAIN schema.nodes) \X Int)
    BY <2>1, InputsAssumption, HereFacts
  <2>3. first = "unrank" /\ UNCHANGED <<schema, first, leg, word>> /\ leg = 1
    BY <1>3 DEF CallUnrank, SafeInv, RightLeg
  <2> QED BY <1>1, <2>1, <2>2, <2>3, SafeBeginUnrank
<1>4. CASE CallRank
  <2>1. PICK value \in Inputs : word' = value /\ BeginRank(value)
    BY <1>4 DEF CallRank
  <2>2. value \in Seq(Token) /\ trail' \in Seq((DOMAIN schema.nodes) \X Int)
    BY <1>4, <2>1, InputsAssumption, HereFacts DEF CallRank
  <2>3. first = "rank" /\ UNCHANGED <<schema, first, leg, given>> /\ leg = 1
    BY <1>4 DEF CallRank, SafeInv, RightLeg
  <2> QED BY <1>1, <2>1, <2>2, <2>3, SafeBeginRank
<1>5. CASE CallBack
  <2>1. /\ schema' = schema /\ first' = first /\ given' = given /\ word' = word
        /\ trail' = trail /\ leg' = 2
    BY <1>5 DEF CallBack
  <2>2. CASE first = "unrank"
    <3>1. BeginRank(tokens)
      BY <1>5, <2>2 DEF CallBack
    <3> QED BY <1>1, <2>1, <2>2, <3>1, SafeBeginRank
  <2>3. CASE first = "rank"
    <3>1. BeginUnrank(number)
      BY <1>5, <2>3 DEF CallBack
    <3> QED BY <1>1, <2>1, <2>3, <3>1, SafeBeginUnrank
  <2> QED BY <1>1, <2>2, <2>3
<1>6. CASE UnrankTerminal
  <2>1. op = "unrank" /\ Here.type = "terminal"
    BY <1>6 DEF UnrankTerminal
  <2>2. number = 0
    BY <2>1, HereFacts DEF SafeInv, InBounds
  <2>3. Stop("returned")
    BY <1>6, <2>2 DEF UnrankTerminal
  <2>4. ~ (first = "rank" <=> leg = 1)
    BY <2>1 DEF SafeInv, RightLeg, TypeOK
  <2> QED BY <2>3, <2>4, SafeStop
<1>7. CASE UnrankChoice \/ UnrankRange
  <2>1. PICK tok, t, d :
           /\ tok \in Token
           /\ Leads(schema, node, tok, t, d)
           /\ d <= number /\ number < d + Size(t)
           /\ tokens' = Append(tokens, tok)
           /\ StepTo(t, number - d)
           /\ op = "unrank" /\ op' = op /\ position' = position
    BY <1>7, UnrankTakes
  <2>2. /\ t \in DOMAIN schema.nodes /\ d \in Nat
        /\ schema.depths[t] < schema.depths[node]
    BY <1>1, <2>1, LeadsInside
  <2>3. Size(t) \in Nat
    BY <1>1, <2>2, NodeFacts DEF Size
  <2>4. number - d \in 0..Size(t) - 1 /\ number - d \in Int
    BY <1>1, <2>1, <2>2, <2>3
  <2>5. tokens' \in Seq(Token) /\ Len(tokens') = Len(tokens) + 1
    BY <1>1, <2>1
  <2> QED BY <1>1, <2>1, <2>2, <2>4, <2>5, SafeStep
<1>8. CASE RankChoice \/ RankRange
  <2>1. op = "rank"
    BY <1>8, RankTakes
  <2>2. CASE Stop("raised")
    BY <2>2, SafeStop
  <2>3. ASSUME NEW t, NEW d,
               Leads(schema, node, Current, t, d), StepTo(t, number + d),
               op' = op, position' = position + 1, tokens' = tokens
        PROVE  SafeInv'
    <3>1. /\ t \in DOMAIN schema.nodes /\ d \in Nat
          /\ d + Size(t) <= Size(node)
          /\ schema.depths[t] < schema.depths[node]
      BY <1>1, <2>3, LeadsInside DEF Size
    <3>2. Size(t) \in Nat /\ Size(node) \in Nat /\ Count \in Nat
      BY <1>1, <3>1, NodeFacts, HereFacts DEF Size
    <3>3. 0 <= number /\ number + Size(node) <= Count
      BY <2>1 DEF SafeInv, InBounds
    <3>4. 0 <= number + d /\ number + d + Size(t) <= Count /\ number + d \in Int
      BY <1>1, <3>1, <3>2, <3>3
    <3> QED BY <1>1, <2>1, <2>3, <3>1, <3>4, SafeStep
  <2> QED BY <1>8, <2>2, <2>3, RankTakes
<1>9. CASE RankTerminal
  <2>1. op = "rank" /\ Here.type = "terminal"
    BY <1>9 DEF RankTerminal
  <2>2. number \in 0..Count - 1
    BY <1>1, <2>1, HereFacts DEF SafeInv, InBounds
  <2> QED BY <1>9, <2>2, SafeStop DEF RankTerminal
<1>10. CASE RankTooShort
  BY <1>10, SafeStop DEF RankTooShort
<1> QED BY <1>2, <1>3, <1>4, <1>5, <1>6, <1>7, <1>8, <1>9, <1>10
        DEF Next, UnrankStep, RankStep

\* Every reachable state is within the bounds.
THEOREM Safety == Spec => []SafeInv
BY SafeInit, SafeNext, PTL DEF Spec

\* Types are kept, for all schemas and inputs.
THEOREM TypeCorrect == Spec => []TypeOK
BY Safety, PTL DEF SafeInv

\* The AssertionErrors of unrank (302-320) are unreachable.
THEOREM AssertionsHold == Spec => []NoAssertion
BY Safety, PTL DEF SafeInv

\* rank answers with an index of the domain.
THEOREM RanksAreIndices == Spec => []RankInDomain
BY Safety, PTL DEF SafeInv

\* No walk is longer than the depth of the schema: both loops end.
THEOREM WalksAreBounded == Spec => []DepthBounds
BY Safety, PTL DEF SafeInv

-----------------------------------------------------------------------------
(* The second call retraces the first.                                     *)

Last == trail[Len(trail)]
AtTerminal == schema.nodes[Last[1]].type = "terminal"

\* During unrank the trail holds the remainder at every node passed.
Unwound ==
  /\ Len(trail) = Len(tokens) + 1
  /\ trail[1] = <<schema.root, given>>
  /\ \A j \in 1..Len(tokens) :
       Leads(schema, trail[j][1], tokens[j], trail[j + 1][1], trail[j][2] - trail[j + 1][2])

DecodeWalk ==
  first = "unrank" /\ leg = 1 /\ op \in {"unrank", "returned"} =>
    /\ Unwound
    /\ Last = <<node, number>>
    /\ op = "returned" => AtTerminal /\ number = 0

\* Back in rank, what has been summed and the remainder of the same node
\* make up the index that was unranked.
RankBack ==
  first = "unrank" /\ leg = 2 =>
    /\ op \in {"rank", "returned"}
    /\ Unwound
    /\ AtTerminal /\ Last[2] = 0
    /\ position <= Len(tokens)
    /\ trail[position + 1] = <<node, given - number>>
    /\ op = "returned" => number = given

\* During rank the trail holds the sum at every node passed.
Wound(n) ==
  /\ Len(trail) = n + 1
  /\ trail[1] = <<schema.root, 0>>
  /\ \A j \in 1..n :
       Leads(schema, trail[j][1], word[j], trail[j + 1][1], trail[j + 1][2] - trail[j][2])

\* The block of length size at x lies within the block of every node passed.
Nested(x, size) ==
  \A j \in 1..Len(trail) : /\ trail[j][2] <= x
                           /\ x + size <= trail[j][2] + Size(trail[j][1])

EncodeWalk ==
  first = "rank" /\ leg = 1 /\ op \in {"rank", "returned"} =>
    /\ tokens = word
    /\ position <= Len(word)
    /\ Wound(position)
    /\ Last = <<node, number>>
    /\ Nested(number, Size(node))
    /\ op = "returned" => AtTerminal /\ position = Len(word)

\* Back in unrank, the tokens put out are those that were ranked.
UnrankBack ==
  first = "rank" /\ leg = 2 =>
    /\ op \in {"unrank", "returned"}
    /\ Wound(Len(word))
    /\ AtTerminal
    /\ Nested(Last[2], 1)
    /\ Len(tokens) <= Len(word)
    /\ \A j \in 1..Len(tokens) : tokens[j] = word[j]
    /\ trail[Len(tokens) + 1] = <<node, Last[2] - number>>
    /\ op = "returned" => tokens = word

TripInv == DecodeWalk /\ RankBack /\ EncodeWalk /\ UnrankBack

LEMMA TripInit == Init => TripInv
BY DEF Init, TripInv, DecodeWalk, RankBack, EncodeWalk, UnrankBack

LEMMA TripTypes ==
  ASSUME SafeInv
  PROVE  /\ schema \in Schemas /\ node \in DOMAIN schema.nodes
         /\ schema.root \in DOMAIN schema.nodes
         /\ tokens \in Seq(Token) /\ word \in Seq(Token)
         /\ position \in Nat /\ number \in Int /\ given \in Int
         /\ trail \in Seq((DOMAIN schema.nodes) \X Int)
         /\ leg \in {1, 2} /\ first \in {"rank", "unrank"}
         /\ op = "idle" => leg = 1
         /\ op = "unrank" => (first = "unrank" <=> leg = 1)
         /\ op = "rank" => (first = "rank" <=> leg = 1)
         /\ \A j \in 1..Len(trail) : /\ trail[j][1] \in DOMAIN schema.nodes
                                     /\ trail[j][2] \in Int
         /\ Len(trail) \in Nat /\ Len(tokens) \in Nat /\ Len(word) \in Nat
BY HereFacts DEF SafeInv, TypeOK, RightLeg

LEMMA TripCallUnrank == SafeInv /\ TripInv /\ CallUnrank => TripInv'
<1> SUFFICES ASSUME SafeInv, TripInv, CallUnrank PROVE TripInv'
  OBVIOUS
<1>1. PICK index \in Indices : /\ given' = index
                               /\ BeginUnrank(index)
                               /\ trail' = <<<<schema.root, index>>>>
  BY DEF CallUnrank
<1>2. first' = "unrank" /\ leg' = 1 /\ schema' = schema /\ op' # "returned"
  BY <1>1, TripTypes DEF CallUnrank, BeginUnrank
<1>3. DecodeWalk'
  BY <1>1, <1>2 DEF DecodeWalk, Unwound, Last, BeginUnrank
<1> QED BY <1>2, <1>3 DEF TripInv, RankBack, EncodeWalk, UnrankBack

LEMMA TripCallRank == SafeInv /\ TripInv /\ CallRank => TripInv'
<1> SUFFICES ASSUME SafeInv, TripInv, CallRank PROVE TripInv'
  OBVIOUS
<1>1. PICK value \in Inputs : word' = value /\ BeginRank(value)
  BY DEF CallRank
<1>2. first' = "rank" /\ leg' = 1 /\ schema' = schema /\ op' # "returned"
      /\ trail' = <<<<schema.root, 0>>>> /\ value \in Seq(Token)
  BY <1>1, TripTypes, InputsAssumption DEF CallRank, BeginRank
<1>3. EncodeWalk'
  <2>1. Nested(number, Size(node))'
    <3>1. schema.counts[schema.root] \in Nat
      BY HereFacts DEF Count
    <3> QED BY <1>1, <1>2, <3>1 DEF Nested, BeginRank, Size
  <2>2. Wound(position)'
    BY <1>1, <1>2 DEF Wound, BeginRank
  <2> QED BY <1>1, <1>2, <2>1, <2>2 DEF EncodeWalk, BeginRank, Last
<1> QED BY <1>2, <1>3 DEF TripInv, RankBack, DecodeWalk, UnrankBack

\* Where the trail ends the walk that made it is at a terminal, so it has the
\* size of one word.
LEMMA TripCallBack == SafeInv /\ TripInv /\ CallBack => TripInv'
<1> SUFFICES ASSUME SafeInv, TripInv, CallBack PROVE TripInv'
  OBVIOUS
<1>1. /\ op = "returned" /\ leg = 1 /\ leg' = 2
      /\ UNCHANGED <<schema, first, given, word, trail>>
  BY DEF CallBack
<1>2. CASE first = "unrank"
  <2>1. BeginRank(tokens)
    BY <1>2 DEF CallBack
  <2>2. Unwound /\ Last = <<node, number>> /\ AtTerminal /\ number = 0
    BY <1>1, <1>2 DEF TripInv, DecodeWalk
  <2>3. Unwound' /\ AtTerminal' /\ Last' = Last
    BY <1>1, <2>1, <2>2 DEF BeginRank, Unwound, AtTerminal, Last
  <2>4. given - 0 = given
    BY TripTypes
  <2>5. RankBack'
    BY <1>1, <2>1, <2>2, <2>3, <2>4, TripTypes DEF RankBack, BeginRank, Unwound
  <2> QED BY <1>1, <1>2, <2>5 DEF TripInv, DecodeWalk, EncodeWalk, UnrankBack
<1>3. CASE first = "rank"
  <2>1. BeginUnrank(number) /\ number \in 0..Count - 1
    BY <1>1, <1>3 DEF CallBack, SafeInv, RankInDomain
  <2>2. /\ tokens = word /\ position = Len(word) /\ Wound(position)
        /\ Last = <<node, number>> /\ Nested(number, Size(node)) /\ AtTerminal
    BY <1>1, <1>3 DEF TripInv, EncodeWalk
  <2>3. Size(node) = 1
    BY <2>2, HereFacts DEF AtTerminal, Here
  <2>4. Wound(Len(word))' /\ AtTerminal' /\ Last' = Last /\ Nested(Last[2], 1)'
    BY <1>1, <2>2, <2>3 DEF Wound, AtTerminal, Last, Nested, Size
  <2>5. op' = "unrank" /\ tokens' = <<>> /\ node' = schema.root /\ number' = number
    BY <2>1, HereFacts DEF BeginUnrank
  <2>6. trail[1] = <<schema.root, number - number>>
    BY <2>2, TripTypes DEF Wound
  <2>7. UnrankBack'
    BY <1>1, <2>2, <2>4, <2>5, <2>6, TripTypes DEF UnrankBack
  <2> QED BY <1>1, <1>3, <2>7 DEF TripInv, DecodeWalk, EncodeWalk, RankBack
<1> QED BY <1>2, <1>3, TripTypes

LEMMA TripUnrankTerminal == SafeInv /\ TripInv /\ UnrankTerminal => TripInv'
<1> SUFFICES ASSUME SafeInv, TripInv, UnrankTerminal PROVE TripInv'
  OBVIOUS
<1>1. /\ op = "unrank" /\ Here.type = "terminal"
      /\ number = 0
  BY HereFacts DEF UnrankTerminal, SafeInv, InBounds
<1>2. /\ op' = "returned"
      /\ UNCHANGED <<schema, first, leg, given, word, tokens, position, number, node, trail>>
  BY <1>1 DEF UnrankTerminal, Stop, walk
<1>3. CASE first = "unrank"
  <2>1. leg = 1 /\ Unwound /\ Last = <<node, number>>
    BY <1>1, <1>3, TripTypes DEF TripInv, DecodeWalk
  <2>2. DecodeWalk'
    BY <1>1, <1>2, <2>1 DEF DecodeWalk, Unwound, Last, AtTerminal, Here
  <2> QED BY <1>2, <1>3, <2>1, <2>2 DEF TripInv, RankBack, EncodeWalk, UnrankBack
<1>4. CASE first = "rank"
  <2>1. /\ leg = 2 /\ UnrankBack
    BY <1>1, <1>4, TripTypes DEF TripInv
  <2>2. Len(tokens) = Len(word)
    <3>1. SUFFICES ASSUME Len(tokens) < Len(word) PROVE FALSE
      BY <1>4, <2>1, TripTypes DEF UnrankBack
    <3> DEFINE j == Len(tokens) + 1
    <3>2. j \in 1..Len(word)
      BY <3>1, TripTypes
    <3>3. Leads(schema, trail[j][1], word[j], trail[j + 1][1], trail[j + 1][2] - trail[j][2])
      BY <1>4, <2>1, <3>2 DEF UnrankBack, Wound
    <3>4. trail[j][1] = node
      BY <1>4, <2>1 DEF UnrankBack
    <3> QED BY <1>1, <3>3, <3>4 DEF Leads, Here
  <2>3. tokens = word
    BY <1>4, <2>1, <2>2, TripTypes DEF UnrankBack
  <2>4. UnrankBack'
    BY <1>2, <1>4, <2>1, <2>3 DEF UnrankBack, Wound, AtTerminal, Last, Nested, Size
  <2> QED BY <1>2, <1>4, <2>1, <2>4 DEF TripInv, DecodeWalk, RankBack, EncodeWalk
<1> QED BY <1>3, <1>4, TripTypes

LEMMA TripUnrankStep == SafeInv /\ TripInv /\ (UnrankChoice \/ UnrankRange) => TripInv'
<1> SUFFICES ASSUME SafeInv, TripInv, UnrankChoice \/ UnrankRange PROVE TripInv'
  OBVIOUS
<1>1. PICK tok, t, d :
           /\ tok \in Token
           /\ Leads(schema, node, tok, t, d)
           /\ d <= number /\ number < d + Size(t)
           /\ tokens' = Append(tokens, tok)
           /\ StepTo(t, number - d)
           /\ op = "unrank" /\ op' = op /\ position' = position
  BY UnrankTakes
<1>2. t \in DOMAIN schema.nodes /\ d \in Nat
  BY <1>1, LeadsInside, TripTypes
<1>3. /\ node' = t /\ number' = number - d
      /\ UNCHANGED <<schema, first, leg, given, word>>
  BY <1>1 DEF StepTo
<1>4. CASE first = "unrank"
  <2>1. leg = 1 /\ Unwound /\ Last = <<node, number>>
    BY <1>1, <1>4, TripTypes DEF TripInv, DecodeWalk
  <2> DEFINE k == Len(tokens)
  <2>2. trail' = Append(trail, <<t, number - d>>) /\ Len(trail) = k + 1 /\ k \in Nat
    BY <1>1, <2>1, TripTypes DEF StepTo, Unwound
  <2>3. /\ Len(trail') = k + 2 /\ Len(tokens') = k + 1
        /\ trail'[k + 2] = <<t, number - d>> /\ tokens'[k + 1] = tok
        /\ \A j \in 1..k + 1 : trail'[j] = trail[j]
        /\ \A j \in 1..k : tokens'[j] = tokens[j]
    BY <1>1, <2>2, TripTypes
  <2>4. trail[k + 1] = <<node, number>>
    BY <2>1, <2>2 DEF Last
  <2>5. number - (number - d) = d
    BY <1>2, TripTypes
  <2>6. ASSUME NEW j \in 1..k + 1
        PROVE  Leads(schema, trail'[j][1], tokens'[j], trail'[j + 1][1],
                     trail'[j][2] - trail'[j + 1][2])
    <3>1. CASE j = k + 1
      BY <1>1, <2>2, <2>3, <2>4, <2>5, <3>1
    <3>2. CASE j \in 1..k
      <4>1. j + 1 \in 1..k + 1
        BY <2>2, <3>2
      <4> QED BY <2>1, <2>3, <3>2, <4>1 DEF Unwound
    <3> QED BY <2>2, <3>1, <3>2
  <2>7. Unwound'
    BY <1>3, <2>1, <2>2, <2>3, <2>6 DEF Unwound
  <2>8. Last' = <<t, number - d>>
    BY <2>3 DEF Last
  <2>9. DecodeWalk'
    BY <1>1, <1>3, <2>7, <2>8 DEF DecodeWalk
  <2> QED BY <1>3, <1>4, <2>1, <2>9 DEF TripInv, RankBack, EncodeWalk, UnrankBack
<1>5. CASE first = "rank"
  <2>1. leg = 2 /\ UnrankBack /\ trail' = trail
    BY <1>1, <1>5, TripTypes DEF TripInv, StepTo
  <2> DEFINE k == Len(tokens) + 1
  <2>2. /\ Wound(Len(word)) /\ AtTerminal /\ Nested(Last[2], 1)
        /\ Len(tokens) <= Len(word) /\ trail[k] = <<node, Last[2] - number>>
        /\ \A j \in 1..Len(tokens) : tokens[j] = word[j]
    BY <1>5, <2>1 DEF UnrankBack
  <2>3. schema.nodes[node].type # "terminal"
    BY <1>1 DEF Leads
  <2>4. k \in 1..Len(word) /\ k + 1 \in 1..Len(trail) /\ Len(trail) = Len(word) + 1
    <3>1. Len(tokens) # Len(word)
      BY <2>2, <2>3 DEF Wound, AtTerminal, Last
    <3> QED BY <2>2, <3>1, TripTypes DEF Wound
  <2> DEFINE x == trail[k + 1][2]
  <2>5. Leads(schema, node, word[k], trail[k + 1][1], x - (Last[2] - number))
    <3>1. trail[k][1] = node /\ trail[k][2] = Last[2] - number
      BY <2>2
    <3> QED BY <2>2, <2>4, <3>1 DEF Wound
  <2>6. x <= Last[2] /\ Last[2] + 1 <= x + Size(trail[k + 1][1])
    BY <2>2, <2>4 DEF Nested
  <2>7. x \in Int /\ Last[2] \in Int /\ number \in Int /\ Size(trail[k + 1][1]) \in Nat
    <3>1. Len(trail) \in 1..Len(trail)
      BY <2>4, TripTypes
    <3> QED BY <2>4, <3>1, TripTypes, NodeFacts DEF Last, Size
  <2> DEFINE e == x - (Last[2] - number)
  <2>8. e <= number /\ number < e + Size(trail[k + 1][1])
    BY <2>6, <2>7
  <2> HIDE DEF e, x
  <2>9. tok = word[k] /\ t = trail[k + 1][1] /\ d = e
    <3>1. Leads(schema, node, word[k], trail[k + 1][1], e)
      BY <2>5 DEF e
    <3>2. e <= number /\ number < e + schema.counts[trail[k + 1][1]]
      BY <2>8 DEF Size
    <3>3. d <= number /\ number < d + schema.counts[t] /\ Leads(schema, node, tok, t, d)
      BY <1>1 DEF Size
    <3>4. schema \in Schemas /\ node \in DOMAIN schema.nodes /\ number \in Int
      BY TripTypes
    <3> HIDE DEF k
    <3> QED BY <3>1, <3>2, <3>3, <3>4, LeadsApart
  <2>10. number - d = Last[2] - x
    BY <2>7, <2>9 DEF e
  <2>11. trail[k + 1] = <<t, Last[2] - (number - d)>>
    <3>1. Last[2] - (number - d) = x
      BY <2>7, <2>10
    <3>2. trail[k + 1] \in (DOMAIN schema.nodes) \X Int
      BY <2>4, TripTypes
    <3> QED BY <2>9, <3>1, <3>2 DEF x
  <2>12. /\ Len(tokens') = k /\ tokens'[k] = tok
         /\ \A j \in 1..Len(tokens) : tokens'[j] = tokens[j]
    BY <1>1, TripTypes
  <2>13. ASSUME NEW j \in 1..Len(tokens') PROVE tokens'[j] = word[j]
    <3>1. CASE j = k
      BY <2>9, <2>12, <3>1
    <3>2. CASE j # k
      <4>1. j \in 1..Len(tokens)
        BY <2>12, <3>2, TripTypes
      <4> QED BY <2>2, <2>12, <4>1
    <3> QED BY <3>1, <3>2
  <2>14. UnrankBack'
    BY <1>1, <1>3, <2>1, <2>2, <2>4, <2>11, <2>12, <2>13
       DEF UnrankBack, Wound, AtTerminal, Last, Nested, Size
  <2> QED BY <1>3, <1>5, <2>1, <2>14 DEF TripInv, DecodeWalk, RankBack, EncodeWalk
<1> QED BY <1>4, <1>5, TripTypes

LEMMA TripRankTerminal == SafeInv /\ TripInv /\ RankTerminal => TripInv'
<1> SUFFICES ASSUME SafeInv, TripInv, RankTerminal PROVE TripInv'
  OBVIOUS
<1>1. /\ op = "rank" /\ Here.type = "terminal"
      /\ op' = IF position # Len(tokens) THEN "raised" ELSE "returned"
      /\ UNCHANGED <<schema, first, leg, given, word, tokens, position, number, node, trail>>
  BY DEF RankTerminal, Stop, walk
<1>2. CASE first = "rank"
  <2>1. leg = 1 /\ EncodeWalk
    BY <1>1, <1>2, TripTypes DEF TripInv
  <2>2. tokens = word /\ Last = <<node, number>>
    BY <1>1, <1>2, <2>1 DEF EncodeWalk
  <2>3. AtTerminal
    BY <1>1, <2>2 DEF AtTerminal, Here
  <2>4. EncodeWalk'
    BY <1>1, <1>2, <2>1, <2>2, <2>3 DEF EncodeWalk, Wound, AtTerminal, Last, Nested, Size
  <2> QED BY <1>1, <1>2, <2>1, <2>4 DEF TripInv, DecodeWalk, RankBack, UnrankBack
<1>3. CASE first = "unrank"
  <2>1. leg = 2 /\ RankBack
    BY <1>1, <1>3, TripTypes DEF TripInv
  <2>2. position = Len(tokens)
    <3>1. SUFFICES ASSUME position < Len(tokens) PROVE FALSE
      BY <1>3, <2>1, TripTypes DEF RankBack
    <3> DEFINE j == position + 1
    <3>2. j \in 1..Len(tokens)
      BY <3>1, TripTypes
    <3>3. Leads(schema, trail[j][1], tokens[j], trail[j + 1][1], trail[j][2] - trail[j + 1][2])
      BY <1>3, <2>1, <3>2 DEF RankBack, Unwound
    <3>4. trail[j][1] = node
      BY <1>3, <2>1 DEF RankBack
    <3> QED BY <1>1, <3>3, <3>4 DEF Leads, Here
  <2>3. number = given
    <3>1. Last = <<node, given - number>> /\ Last[2] = 0
      BY <1>3, <2>1, <2>2 DEF RankBack, Unwound, Last
    <3>2. given - number = 0
      BY <3>1
    <3> QED BY <3>2, TripTypes
  <2>4. op' = "returned"
    BY <1>1, <2>2
  <2>5. RankBack'
    BY <1>1, <1>3, <2>1, <2>3, <2>4 DEF RankBack, Unwound, AtTerminal, Last
  <2> QED BY <1>1, <1>3, <2>1, <2>5 DEF TripInv, DecodeWalk, EncodeWalk, UnrankBack
<1> QED BY <1>2, <1>3, TripTypes

LEMMA TripRankTooShort == SafeInv /\ TripInv /\ RankTooShort => TripInv'
<1> SUFFICES ASSUME SafeInv, TripInv, RankTooShort PROVE TripInv'
  OBVIOUS
<1>1. /\ op = "rank" /\ Here.type # "terminal" /\ position >= Len(tokens)
      /\ op' = "raised"
      /\ UNCHANGED <<schema, first, leg, given, word, tokens, position, number, node, trail>>
  BY DEF RankTooShort, Stop, walk, Consumed
<1>2. first # "unrank"
  <2>1. SUFFICES ASSUME first = "unrank" PROVE FALSE
    OBVIOUS
  <2>2. leg = 2 /\ RankBack
    BY <1>1, <2>1, TripTypes DEF TripInv
  <2>3. position = Len(tokens)
    BY <1>1, <2>1, <2>2, TripTypes DEF RankBack
  <2>4. Last = <<node, given - number>> /\ AtTerminal
    BY <2>1, <2>2, <2>3 DEF RankBack, Unwound, Last
  <2> QED BY <1>1, <2>4 DEF AtTerminal, Here
<1>3. first = "rank" /\ leg = 1
  BY <1>1, <1>2, TripTypes
<1> QED BY <1>1, <1>3 DEF TripInv, DecodeWalk, RankBack, EncodeWalk, UnrankBack

LEMMA TripRankStep == SafeInv /\ TripInv /\ (RankChoice \/ RankRange) => TripInv'
<1> SUFFICES ASSUME SafeInv, TripInv, RankChoice \/ RankRange PROVE TripInv'
  OBVIOUS
<1>1. op = "rank" /\ position < Len(tokens)
  BY RankTakes
<1> DEFINE k == position + 1
<1>2. k \in 1..Len(tokens) /\ Current = tokens[k]
  BY <1>1, TripTypes DEF Current
<1>3. CASE first = "rank"
  <2>1. leg = 1 /\ EncodeWalk
    BY <1>1, <1>3, TripTypes DEF TripInv
  <2>2. CASE Stop("raised")
    <3>1. op' = "raised" /\ first' = first /\ leg' = leg
      BY <2>2 DEF Stop
    <3> QED BY <1>3, <2>1, <3>1 DEF TripInv, DecodeWalk, RankBack, EncodeWalk, UnrankBack
  <2>3. ASSUME NEW t, NEW d,
               Leads(schema, node, Current, t, d), StepTo(t, number + d),
               op' = op, position' = position + 1, tokens' = tokens
        PROVE  TripInv'
    <3>1. /\ node' = t /\ number' = number + d
          /\ UNCHANGED <<schema, first, leg, given, word>>
          /\ trail' = Append(trail, <<t, number + d>>)
      BY <2>1, <2>3 DEF StepTo
    <3>2. /\ tokens = word /\ Wound(position) /\ Last = <<node, number>>
          /\ Nested(number, Size(node))
      BY <1>1, <1>3, <2>1 DEF EncodeWalk
    <3>3. Len(trail) = k /\ trail[k] = <<node, number>> /\ k \in Nat
      BY <3>2, TripTypes DEF Wound, Last
    <3>4. /\ Len(trail') = k + 1 /\ trail'[k + 1] = <<t, number + d>>
          /\ \A j \in 1..k : trail'[j] = trail[j]
      BY <3>1, <3>3, TripTypes
    <3>5. /\ t \in DOMAIN schema.nodes /\ d \in Nat /\ Size(t) \in Nat
          /\ d + Size(t) <= Size(node) /\ Size(node) \in Nat
      <4>1. t \in DOMAIN schema.nodes /\ d \in Nat /\ d + Size(t) <= Size(node)
        BY <2>3, TripTypes, LeadsInside DEF Size
      <4> QED BY <4>1, TripTypes, NodeFacts DEF Size
    <3>6. (number + d) - number = d
      BY <3>5, TripTypes
    <3>7. /\ trail'[1] = <<schema.root, 0>>
          /\ \A j \in 1..k : Leads(schema, trail'[j][1], word[j], trail'[j + 1][1],
                                  trail'[j + 1][2] - trail'[j][2])
      <4>1. ASSUME NEW j \in 1..k
            PROVE  Leads(schema, trail'[j][1], word[j], trail'[j + 1][1],
                         trail'[j + 1][2] - trail'[j][2])
        <5>1. CASE j = k
          BY <1>2, <2>3, <3>2, <3>3, <3>4, <3>6, <5>1
        <5>2. CASE j \in 1..position
          <6>1. j + 1 \in 1..k
            BY <5>2, TripTypes
          <6> QED BY <3>2, <3>4, <5>2, <6>1 DEF Wound
        <5> QED BY <5>1, <5>2, TripTypes
      <4>2. trail'[1] = <<schema.root, 0>>
        BY <3>2, <3>3, <3>4, TripTypes DEF Wound
      <4> QED BY <4>1, <4>2
    <3>8. Nested(number, Size(node))'
      <4>1. ASSUME NEW j \in 1..k + 1
            PROVE  /\ trail'[j][2] <= number + d
                   /\ number + d + Size(t) <= trail'[j][2] + Size(trail'[j][1])
        <5>1. CASE j = k + 1
          BY <3>4, <3>5, <5>1, TripTypes
        <5>2. CASE j \in 1..k
          <6>1. /\ trail'[j] = trail[j] /\ trail[j][2] \in Int
                /\ trail[j][1] \in DOMAIN schema.nodes
            BY <3>3, <3>4, <5>2, TripTypes
          <6>2. Size(trail[j][1]) \in Nat
            BY <6>1, TripTypes, NodeFacts DEF Size
          <6>3. trail[j][2] <= number /\ number + Size(node) <= trail[j][2] + Size(trail[j][1])
            BY <3>2, <3>3, <5>2 DEF Nested
          <6> DEFINE a == trail[j][2]
                     b == Size(trail[j][1])
          <6>4. number \in Int /\ a \in Int /\ b \in Nat
            BY <6>1, <6>2, TripTypes
          <6> HIDE DEF a, b
          <6>5. a <= number /\ number + Size(node) <= a + b
            BY <6>3 DEF a, b
          <6>6. a <= number + d /\ number + d + Size(t) <= a + b
            BY <3>5, <6>4, <6>5
          <6> QED BY <6>1, <6>6 DEF a, b
        <5> QED BY <3>3, <5>1, <5>2
      <4> QED BY <3>1, <3>4, <4>1 DEF Nested, Size
    <3>9. EncodeWalk'
      <4>1. Last' = <<t, number + d>>
        BY <3>4 DEF Last
      <4>2. position' <= Len(word') /\ tokens' = word'
        BY <1>2, <2>3, <3>1, <3>2, TripTypes
      <4>3. Wound(position)'
        <5>1. position' = k /\ schema' = schema /\ word' = word
          BY <2>3, <3>1
        <5> HIDE DEF k
        <5> QED BY <3>4, <3>7, <5>1 DEF Wound
      <4> QED BY <1>1, <2>3, <3>1, <3>8, <4>1, <4>2, <4>3 DEF EncodeWalk
    <3> QED BY <1>3, <2>1, <3>1, <3>9 DEF TripInv, DecodeWalk, RankBack, UnrankBack
  <2> QED BY <2>2, <2>3, RankTakes
<1>4. CASE first = "unrank"
  <2>1. /\ leg = 2 /\ RankBack
    BY <1>1, <1>4, TripTypes DEF TripInv
  <2>2. /\ Unwound /\ AtTerminal /\ Last[2] = 0
        /\ trail[k] = <<node, given - number>>
    BY <1>4, <2>1 DEF RankBack
  <2> DEFINE x == trail[k + 1][2]
             e == (given - number) - x
  <2>3. Leads(schema, node, Current, trail[k + 1][1], e)
    <3>1. trail[k][1] = node /\ trail[k][2] = given - number
      BY <2>2
    <3> QED BY <1>2, <2>2, <3>1 DEF Unwound
  <2>4. PICK t, d : /\ Leads(schema, node, Current, t, d)
                    /\ StepTo(t, number + d)
                    /\ op' = op /\ position' = position + 1 /\ tokens' = tokens
    BY <2>3, RankTakes
  <2>5. t = trail[k + 1][1] /\ d = e
    <3> HIDE DEF k, e
    <3>1. schema \in Schemas /\ node \in DOMAIN schema.nodes
      BY TripTypes
    <3> QED BY <2>3, <2>4, <3>1, LeadsOnce
  <2>6. k + 1 \in 1..Len(trail)
    <3>1. Len(trail) = Len(tokens) + 1
      BY <2>2 DEF Unwound
    <3> QED BY <1>2, <3>1, TripTypes
  <2>7. trail[k + 1] \in (DOMAIN schema.nodes) \X Int
    BY <2>6, TripTypes
  <2>8. trail[k + 1] = <<t, given - (number + d)>>
    <3>1. x \in Int
      BY <2>7
    <3> HIDE DEF x
    <3>2. given - (number + d) = x
      BY <2>5, <3>1, TripTypes
    <3> QED BY <2>5, <2>7, <3>2 DEF x
  <2>9. /\ node' = t /\ number' = number + d /\ trail' = trail
        /\ UNCHANGED <<schema, first, leg, given, word>>
    BY <2>1, <2>4 DEF StepTo
  <2>10. position' <= Len(tokens) /\ position' + 1 = k + 1
    BY <1>2, <2>4, TripTypes
  <2>11. RankBack'
    BY <1>1, <2>1, <2>2, <2>4, <2>8, <2>9, <2>10
       DEF RankBack, Unwound, AtTerminal, Last
  <2> QED BY <1>4, <2>1, <2>9, <2>11 DEF TripInv, DecodeWalk, EncodeWalk, UnrankBack
<1> QED BY <1>3, <1>4, TripTypes

LEMMA TripNext == SafeInv /\ TripInv /\ [Next]_vars => TripInv'
<1> SUFFICES ASSUME SafeInv, TripInv, [Next]_vars PROVE TripInv'
  OBVIOUS
<1>1. CASE UNCHANGED vars
  BY <1>1 DEF vars, walk, TripInv, DecodeWalk, RankBack, EncodeWalk, UnrankBack,
              Unwound, Wound, AtTerminal, Last, Nested, Size
<1>2. CASE Next
  BY <1>2, TripCallUnrank, TripCallRank, TripCallBack, TripUnrankTerminal,
     TripUnrankStep, TripRankTerminal, TripRankTooShort, TripRankStep
     DEF Next, UnrankStep, RankStep
<1> QED BY <1>1, <1>2

\* rank and unrank are inverse: for every schema, every index and every
\* accepted value, the second call returns the argument of the first.
THEOREM RoundTrips == Spec => []RoundTrip
<1>1. SafeInv /\ TripInv => RoundTrip
  <2> SUFFICES ASSUME SafeInv, TripInv, leg = 2
               PROVE  /\ op # "raised"
                      /\ op = "returned" => IF first = "unrank" THEN number = given
                                                                ELSE tokens = word
    BY DEF RoundTrip
  <2> QED BY TripTypes DEF TripInv, RankBack, UnrankBack
<1>2. Spec => [](SafeInv /\ TripInv)
  BY SafeInit, SafeNext, TripInit, TripNext, PTL DEF Spec
<1> QED BY <1>1, <1>2, PTL

-----------------------------------------------------------------------------
(* rank accepts the words of the schema.                                   *)

LEMMA FollowsLeads ==
  ASSUME NEW s \in Schemas, NEW n \in DOMAIN s.nodes, NEW tok, NEW t
  PROVE  Follows(s, n, tok, t) <=> \E d : Leads(s, n, tok, t, d)
<1>1. CASE s.nodes[n].type = "choice"
  <2>1. DOMAIN s.nodes[n].branches = 1..Ways(s, n)
    BY <1>1, ChoiceFacts DEF BranchesOf
  <2> QED BY <1>1, <2>1 DEF Follows, Leads, BranchesOf, Target
<1>2. CASE s.nodes[n].type = "range"
  <2>1. PICK a, b \in Int : a = s.nodes[n].start /\ b = s.nodes[n].stop
    BY <1>2, RangeFacts
  <2>2. ASSUME NEW v \in a..b, tok = <<"int", v>>, t = s.nodes[n].target
        PROVE  \E d : Leads(s, n, tok, t, d)
    <3>1. v - a \in 0..b - a /\ a + (v - a) = v
      BY <2>1
    <3>2. Leads(s, n, tok, t, (v - a) * s.counts[t])
      BY <1>2, <2>1, <2>2, <3>1 DEF Leads
    <3> QED BY <3>2
  <2>3. ASSUME NEW d, Leads(s, n, tok, t, d) PROVE Follows(s, n, tok, t)
    <3>1. PICK v \in 0..b - a : tok = <<"int", a + v>> /\ t = s.nodes[n].target
      BY <1>2, <2>1, <2>3 DEF Leads
    <3>2. a + v \in a..b
      BY <2>1
    <3> QED BY <1>2, <2>1, <3>1, <3>2 DEF Follows
  <2>4. Follows(s, n, tok, t) => \E v \in a..b : tok = <<"int", v>> /\ t = s.nodes[n].target
    BY <1>2, <2>1 DEF Follows
  <2> QED BY <2>2, <2>3, <2>4
<1>3. CASE s.nodes[n].type = "terminal"
  BY <1>3 DEF Follows, Leads
<1> QED BY <1>1, <1>2, <1>3, NodeFacts

\* A walk that spells the argument of rank goes through the nodes rank passes.
LEMMA SameWalk ==
  ASSUME SafeInv, TripInv, first = "rank", leg = 1, op = "rank",
         NEW path \in [1..Len(word) + 1 -> DOMAIN schema.nodes],
         Spells(schema, schema.root, word, path)
  PROVE  /\ position <= Len(word) /\ tokens = word
         /\ path[position + 1] = node
<1>1. /\ position <= Len(word) /\ tokens = word
      /\ Wound(position) /\ Last = <<node, number>>
  BY DEF TripInv, EncodeWalk
<1> DEFINE Bad == {j \in 1..position + 1 : path[j] # trail[j][1]}
<1>2. Bad = {}
  <2>1. SUFFICES ASSUME Bad # {} PROVE FALSE
    OBVIOUS
  <2>2. PICK j \in Bad : \A k \in Bad : j <= k
    <3>1. Bad \subseteq Nat
      BY TripTypes
    <3> QED BY <2>1, <3>1, LeastNat
  <2>3. path[1] = schema.root /\ trail[1][1] = schema.root
    BY <1>1 DEF Spells, Wound
  <2>4. j \in 1..position + 1 /\ path[j] # trail[j][1] /\ j # 1
    BY <2>3
  <2>5. PICK i : i = j - 1
    OBVIOUS
  <2>6. i \in 1..position /\ i \in 1..Len(word) /\ i + 1 = j /\ i \notin Bad
        /\ i \in 1..position + 1
    BY <1>1, <2>2, <2>4, <2>5, TripTypes
  <2>7. path[i] = trail[i][1] /\ path[i] \in DOMAIN schema.nodes
    BY <2>6, TripTypes
  <2>8. Follows(schema, path[i], word[i], path[j])
    BY <2>6 DEF Spells
  <2>9. PICK d : Leads(schema, path[i], word[i], path[j], d)
    BY <2>7, <2>8, FollowsLeads, TripTypes
  <2>10. Leads(schema, path[i], word[i], trail[j][1], trail[j][2] - trail[i][2])
    BY <1>1, <2>6, <2>7 DEF Wound
  <2>11. path[j] = trail[j][1]
    <3>1. schema \in Schemas
      BY TripTypes
    <3> QED BY <2>7, <2>9, <2>10, <3>1, LeadsOnce
  <2> QED BY <2>4, <2>11
<1>3. position + 1 \in 1..position + 1 /\ Len(trail) = position + 1
  BY <1>1, TripTypes DEF Wound
<1>4. path[position + 1] = trail[position + 1][1]
  BY <1>2, <1>3
<1>5. trail[position + 1][1] = node
  BY <1>1, <1>3 DEF Last
<1> QED BY <1>1, <1>4, <1>5

\* What rank refuses is not a word.
LEMMA RaisedIsNoWord ==
  ASSUME SafeInv, TripInv, first = "rank", leg = 1, RankStep, op' = "raised"
  PROVE  ~ IsWord(schema, schema.root, word)
<1>1. SUFFICES ASSUME NEW path \in [1..Len(word) + 1 -> DOMAIN schema.nodes],
                      Spells(schema, schema.root, word, path)
               PROVE  FALSE
  BY DEF IsWord
<1>2. op = "rank"
  BY DEF RankStep, RankTerminal, RankTooShort, RankChoice, RankRange
<1>3. /\ position <= Len(word) /\ tokens = word /\ path[position + 1] = node
      /\ position \in Nat /\ Len(word) \in Nat
  BY <1>1, <1>2, SameWalk, TripTypes
<1>4. ASSUME position < Len(word)
      PROVE  \E d : Leads(schema, node, word[position + 1], path[position + 2], d)
  <2>1. position + 1 \in 1..Len(word) /\ (position + 1) + 1 = position + 2
    BY <1>3, <1>4
  <2>2. Follows(schema, node, word[position + 1], path[position + 2])
    BY <1>1, <1>3, <2>1 DEF Spells
  <2> QED BY <2>2, FollowsLeads, TripTypes
<1>5. CASE RankTerminal
  <2>1. Here.type = "terminal" /\ position < Len(word)
    BY <1>3, <1>5 DEF RankTerminal, Stop
  <2> QED BY <1>4, <2>1 DEF Leads, Here
<1>6. CASE RankTooShort
  <2>1. Here.type # "terminal" /\ position = Len(word)
    BY <1>3, <1>6 DEF RankTooShort, Consumed
  <2> QED BY <1>1, <1>3, <2>1 DEF Spells, Here
<1>7. CASE RankChoice \/ RankRange
  <2>1. position < Len(tokens) /\ \A t, d : ~ Leads(schema, node, Current, t, d)
    BY <1>2, <1>7, RankTakes
  <2>2. PICK d : Leads(schema, node, word[position + 1], path[position + 2], d)
    BY <1>3, <1>4, <2>1
  <2> QED BY <1>3, <2>1, <2>2 DEF Current
<1> QED BY <1>5, <1>6, <1>7 DEF RankStep

\* The nodes and tokens of a finished walk make a word.
LEMMA TrailIsWord ==
  ASSUME SafeInv, NEW w \in Seq(Token), Len(trail) = Len(w) + 1,
         trail[1][1] = schema.root, AtTerminal,
         \A j \in 1..Len(w) : \E d : Leads(schema, trail[j][1], w[j], trail[j + 1][1], d)
  PROVE  IsWord(schema, schema.root, w)
<1> DEFINE path == [j \in 1..Len(w) + 1 |-> trail[j][1]]
<1>1. Len(w) \in Nat /\ path \in [1..Len(w) + 1 -> DOMAIN schema.nodes]
  BY TripTypes
<1>2. path[1] = schema.root /\ path[Len(w) + 1] = Last[1]
  BY <1>1 DEF Last
<1>3. ASSUME NEW i \in 1..Len(w) PROVE Follows(schema, path[i], w[i], path[i + 1])
  <2>1. i \in 1..Len(w) + 1 /\ i + 1 \in 1..Len(w) + 1
    BY <1>1
  <2>2. path[i] = trail[i][1] /\ path[i + 1] = trail[i + 1][1]
        /\ path[i] \in DOMAIN schema.nodes
    BY <1>1, <2>1
  <2> HIDE DEF path
  <2> QED BY <2>2, FollowsLeads, TripTypes
<1> HIDE DEF path
<1> QED BY <1>1, <1>2, <1>3 DEF IsWord, Spells, AtTerminal

\* How the first call has ended.
EndInv ==
  /\ first = "unrank" /\ leg = 1 =>
       /\ op \in {"unrank", "returned"} => given \in 0..Count - 1
       /\ op = "raised" => given \notin 0..Count - 1
  /\ first = "rank" /\ leg = 1 /\ op = "raised" => ~ IsWord(schema, schema.root, word)

LEMMA EndInit == Init => EndInv
BY DEF Init, EndInv

LEMMA SameWords ==
  ASSUME UNCHANGED <<schema, word>>
  PROVE  IsWord(schema, schema.root, word)' <=> IsWord(schema, schema.root, word)
BY DEF IsWord, Spells, Follows

LEMMA EndNext == SafeInv /\ TripInv /\ EndInv /\ [Next]_vars => EndInv'
<1> SUFFICES ASSUME SafeInv, TripInv, EndInv, [Next]_vars PROVE EndInv'
  OBVIOUS
<1>1. CASE UNCHANGED vars
  <2>1. UNCHANGED <<schema, first, leg, op, given, word>>
    BY <1>1 DEF vars
  <2> QED BY <2>1, SameWords DEF EndInv, Count
<1>2. CASE CallUnrank
  <2>1. PICK index \in Indices : given' = index /\ BeginUnrank(index)
    BY <1>2 DEF CallUnrank
  <2>2. schema' = schema /\ first' = "unrank" /\ index \in Int /\ Count \in Int
    BY <1>2, InputsAssumption, HereFacts DEF CallUnrank
  <2> QED BY <2>1, <2>2 DEF EndInv, BeginUnrank, Count
<1>3. CASE CallRank
  <2>1. op' = "rank" /\ first' = "rank"
    BY <1>3 DEF CallRank, BeginRank
  <2> QED BY <2>1 DEF EndInv
<1>4. CASE CallBack
  BY <1>4 DEF CallBack, EndInv
<1>5. CASE UnrankStep
  <2>1. op = "unrank" /\ UNCHANGED <<schema, first, leg, given>>
        /\ op' \in {"unrank", "returned", "assertion"}
    BY <1>5 DEF UnrankStep, UnrankTerminal, UnrankChoice, UnrankRange, Stop, StepTo
  <2> QED BY <2>1 DEF EndInv, Count
<1>6. CASE RankStep
  <2>1. op = "rank" /\ UNCHANGED <<schema, first, leg, word>>
    BY <1>6 DEF RankStep, RankTerminal, RankTooShort, RankChoice, RankRange, Stop, StepTo
  <2>2. first = "rank" <=> leg = 1
    BY <2>1, TripTypes
  <2>3. op' = "raised" /\ leg = 1 => ~ IsWord(schema, schema.root, word)
    BY <1>6, <2>2, RaisedIsNoWord
  <2>4. IsWord(schema, schema.root, word)' <=> IsWord(schema, schema.root, word)
    BY <2>1, SameWords
  <2> QED BY <2>1, <2>2, <2>3, <2>4 DEF EndInv
<1> QED BY <1>1, <1>2, <1>3, <1>4, <1>5, <1>6 DEF Next

\* For every schema, rank accepts the sequences of tokens that spell a walk from
\* the root to a terminal and no others; unrank accepts 0..count-1, and what it
\* returns is such a sequence (255-290, 295-322).
THEOREM AcceptsWords == Spec => []AcceptsExactly
<1>1. SafeInv /\ TripInv /\ EndInv => AcceptsExactly
  <2>1. SUFFICES ASSUME SafeInv, TripInv, EndInv, leg = 1, op \in {"returned", "raised"}
                 PROVE  AcceptsExactly
    BY DEF AcceptsExactly
  <2>2. CASE first = "rank"
    <3>1. ASSUME op = "returned" PROVE IsWord(schema, schema.root, word)
      <4>1. Wound(Len(word)) /\ AtTerminal
        BY <2>1, <2>2, <3>1 DEF TripInv, EncodeWalk
      <4>2. /\ \A j \in 1..Len(word) : \E d : Leads(schema, trail[j][1], word[j], trail[j + 1][1], d)
            /\ Len(trail) = Len(word) + 1 /\ trail[1][1] = schema.root
        BY <4>1 DEF Wound
      <4> QED BY <2>1, <4>1, <4>2, TrailIsWord, TripTypes
    <3> QED BY <2>1, <2>2, <3>1 DEF AcceptsExactly, EndInv
  <2>3. CASE first = "unrank"
    <3>1. ASSUME op = "returned" PROVE IsWord(schema, schema.root, tokens)
      <4>1. Unwound /\ AtTerminal
        BY <2>1, <2>3, <3>1 DEF TripInv, DecodeWalk
      <4>2. /\ \A j \in 1..Len(tokens) :
                 \E d : Leads(schema, trail[j][1], tokens[j], trail[j + 1][1], d)
            /\ Len(trail) = Len(tokens) + 1 /\ trail[1][1] = schema.root
        BY <4>1 DEF Unwound
      <4> QED BY <2>1, <4>1, <4>2, TrailIsWord, TripTypes
    <3> QED BY <2>1, <2>3, <3>1 DEF AcceptsExactly, EndInv
  <2> QED BY <2>1, <2>2, <2>3, TripTypes
<1>2. Spec => [](SafeInv /\ TripInv /\ EndInv)
  BY SafeInit, SafeNext, TripInit, TripNext, EndInit, EndNext, PTL DEF Spec
<1> QED BY <1>1, <1>2, PTL

-----------------------------------------------------------------------------
(* A node has as many words as its count says.                             *)

WordsFrom(s, n) == {w \in Seq(Token) : IsWord(s, n, w)}

\* A sequence with one more element in front.
LEMMA ConsFacts ==
  ASSUME NEW x \in Token, NEW v \in Seq(Token)
  PROVE  /\ <<x>> \o v \in Seq(Token) /\ Len(<<x>> \o v) = Len(v) + 1
         /\ (<<x>> \o v)[1] = x
         /\ \A j \in 1..Len(v) : (<<x>> \o v)[j + 1] = v[j]
         /\ Tail(<<x>> \o v) = v
<1> DEFINE w == <<x>> \o v
<1>1. /\ w \in Seq(Token) /\ Len(w) = Len(v) + 1 /\ Len(v) \in Nat
      /\ w[1] = x /\ \A j \in 1..Len(v) : w[j + 1] = v[j]
  OBVIOUS
<1> HIDE DEF w
<1>2. /\ Tail(w) \in Seq(Token) /\ Len(Tail(w)) = Len(v)
      /\ \A j \in 1..Len(v) : Tail(w)[j] = w[j + 1]
  <2>1. w # <<>>
    BY <1>1
  <2> QED BY <1>1, <2>1, HeadTailProperties
<1>3. Tail(w) = v
  BY <1>1, <1>2, SeqEqual
<1> QED BY <1>1, <1>3 DEF w

\* A token that leads somewhere is a token.
LEMMA LeadsToken ==
  ASSUME NEW s \in Schemas, NEW n \in DOMAIN s.nodes, NEW tok, NEW t, NEW d,
         Leads(s, n, tok, t, d)
  PROVE  tok \in Token
<1>1. CASE s.nodes[n].type = "choice"
  BY <1>1, ChoiceFacts DEF Leads, Token, BranchesOf
<1>2. CASE s.nodes[n].type = "range"
  <2>1. s.nodes[n].start \in Int /\ s.nodes[n].stop \in Int
    BY <1>2, RangeFacts
  <2> QED BY <1>2, <2>1 DEF Leads, Token
<1> QED BY <1>1, <1>2 DEF Leads

\* Each index of a node lies in the block that some token leads to.
LEMMA LeadsAll ==
  ASSUME NEW s \in Schemas, NEW n \in DOMAIN s.nodes, s.nodes[n].type # "terminal",
         NEW x \in 0..s.counts[n] - 1
  PROVE  \E tok, t, d : Leads(s, n, tok, t, d) /\ d <= x /\ x < d + s.counts[t]
<1>1. x \in Nat /\ x < s.counts[n]
  BY NodeFacts
<1>2. CASE s.nodes[n].type = "choice"
  <2>1. PICK b : b = Bisect(s.ends[n], x)
    OBVIOUS
  <2>2. /\ b \in 0..Ways(s, n) - 1
        /\ s.offsets[n][b + 1] <= x /\ x < s.ends[n][b + 1]
    BY <1>1, <1>2, <2>1, BisectFacts
  <2>3. b + 1 \in 1..Ways(s, n)
    BY <1>2, <2>2, ChoiceFacts
  <2>4. s.ends[n][b + 1] = s.offsets[n][b + 1] + s.counts[Target(s, n, b + 1)]
    BY <1>2, <2>3, ChoiceFacts
  <2>5. Leads(s, n, <<"str", BranchesOf(s, n)[b + 1].value>>, Target(s, n, b + 1),
              s.offsets[n][b + 1])
    BY <1>2, <2>3 DEF Leads
  <2> QED BY <2>2, <2>4, <2>5
<1>3. CASE s.nodes[n].type = "range"
  <2>1. PICK a, b, c, t : /\ a = s.nodes[n].start /\ b = s.nodes[n].stop
                          /\ t = s.nodes[n].target /\ c = s.counts[t]
    OBVIOUS
  <2>2. a \in Int /\ b \in Int /\ c \in Nat /\ c > 0 /\ s.counts[n] = (b - a + 1) * c
    BY <1>3, <2>1, RangeFacts
  <2>3. PICK q, r : q = x \div c /\ r = x % c
    OBVIOUS
  <2>4. q \in 0..(b - a + 1) - 1 /\ r \in 0..c - 1 /\ x = q * c + r
    BY <1>1, <2>2, <2>3, DivModFacts
  <2>5. q \in 0..b - a
    BY <2>2, <2>4
  <2>6. q * c \in Int
    BY <2>2, <2>5
  <2>7. q * c <= x /\ x < q * c + c
    BY <2>2, <2>4, <2>6
  <2>8. Leads(s, n, <<"int", a + q>>, t, q * c)
    BY <1>3, <2>1, <2>5 DEF Leads
  <2> QED BY <2>1, <2>7, <2>8
<1> QED BY <1>2, <1>3, NodeFacts

\* The words of a node are a token and a word of the node it leads to.
LEMMA WordsUnfold ==
  ASSUME NEW s \in Schemas, NEW n \in DOMAIN s.nodes, s.nodes[n].type # "terminal"
  PROVE  /\ \A w \in WordsFrom(s, n) : \E tok, t, d, v :
              Leads(s, n, tok, t, d) /\ v \in WordsFrom(s, t) /\ w = <<tok>> \o v
         /\ \A tok, t, d, v :
              Leads(s, n, tok, t, d) /\ v \in WordsFrom(s, t) => <<tok>> \o v \in WordsFrom(s, n)
<1>1. ASSUME NEW w \in WordsFrom(s, n)
      PROVE  \E tok, t, d, v :
               Leads(s, n, tok, t, d) /\ v \in WordsFrom(s, t) /\ w = <<tok>> \o v
  <2>1. w \in Seq(Token) /\ Len(w) \in Nat
    BY DEF WordsFrom
  <2>2. PICK path \in [1..Len(w) + 1 -> DOMAIN s.nodes] : Spells(s, n, w, path)
    BY DEF WordsFrom, IsWord
  <2>3. path[1] = n /\ s.nodes[path[Len(w) + 1]].type = "terminal"
        /\ \A i \in 1..Len(w) : Follows(s, path[i], w[i], path[i + 1])
    BY <2>2 DEF Spells
  <2>4. Len(w) # 0
    BY <2>3
  <2>5. 1 \in 1..Len(w) /\ 2 \in 1..Len(w) + 1 /\ w # <<>>
    BY <2>1, <2>4
  <2>6. PICK tok, t, v : tok = w[1] /\ t = path[2] /\ v = Tail(w)
    OBVIOUS
  <2>7. t \in DOMAIN s.nodes /\ Follows(s, n, tok, t)
    BY <2>3, <2>5, <2>6
  <2>8. PICK d : Leads(s, n, tok, t, d)
    BY <2>7, FollowsLeads
  <2>9. /\ v \in Seq(Token) /\ Len(v) = Len(w) - 1 /\ \A i \in 1..Len(v) : v[i] = w[i + 1]
    BY <2>1, <2>5, <2>6, HeadTailProperties
  <2>10. v \in WordsFrom(s, t)
    <3> DEFINE p == [j \in 1..Len(v) + 1 |-> path[j + 1]]
    <3>1. \A j \in 1..Len(v) + 1 : j + 1 \in 1..Len(w) + 1
      BY <2>1, <2>9
    <3>2. p \in [1..Len(v) + 1 -> DOMAIN s.nodes]
      BY <3>1
    <3>3. 1 \in 1..Len(v) + 1 /\ Len(v) + 1 \in 1..Len(v) + 1 /\ (Len(v) + 1) + 1 = Len(w) + 1
      BY <2>1, <2>4, <2>9
    <3>4. p[1] = t /\ p[Len(v) + 1] = path[Len(w) + 1]
      BY <2>6, <3>3
    <3>5. ASSUME NEW i \in 1..Len(v) PROVE Follows(s, p[i], v[i], p[i + 1])
      <4>1. i + 1 \in 1..Len(w) /\ i \in 1..Len(v) + 1 /\ i + 1 \in 1..Len(v) + 1
        BY <2>1, <2>9
      <4>2. Follows(s, path[i + 1], w[i + 1], path[(i + 1) + 1])
        BY <2>3, <4>1
      <4>3. p[i] = path[i + 1] /\ p[i + 1] = path[(i + 1) + 1] /\ v[i] = w[i + 1]
        BY <2>9, <4>1
      <4> QED BY <4>2, <4>3
    <3> HIDE DEF p
    <3>6. Spells(s, t, v, p)
      BY <2>3, <3>4, <3>5 DEF Spells
    <3> QED BY <2>9, <3>2, <3>6 DEF WordsFrom, IsWord
  <2>11. w = <<tok>> \o v
    <3>1. tok \in Token
      BY <2>1, <2>5, <2>6
    <3>2. /\ <<tok>> \o v \in Seq(Token) /\ Len(<<tok>> \o v) = Len(v) + 1
          /\ (<<tok>> \o v)[1] = tok
          /\ \A j \in 1..Len(v) : (<<tok>> \o v)[j + 1] = v[j]
      BY <2>9, <3>1, ConsFacts
    <3> DEFINE u == <<tok>> \o v
    <3> HIDE DEF u
    <3>3. ASSUME NEW i \in 1..Len(w) PROVE w[i] = u[i]
      <4>1. CASE i = 1
        BY <2>6, <3>2, <4>1 DEF u
      <4>2. CASE i # 1
        <5>1. PICK j : j = i - 1
          OBVIOUS
        <5>2. j \in 1..Len(v) /\ j + 1 = i
          BY <2>1, <2>9, <4>2, <5>1
        <5>3. u[j + 1] = v[j] /\ v[j] = w[j + 1]
          BY <2>9, <3>2, <5>2 DEF u
        <5> QED BY <5>2, <5>3
      <4> QED BY <4>1, <4>2
    <3>4. Len(u) = Len(w) /\ u \in Seq(Token)
      BY <2>1, <2>9, <3>2 DEF u
    <3>5. w = u
      BY <2>1, <3>3, <3>4, SeqEqual
    <3> QED BY <3>5 DEF u
  <2> QED BY <2>8, <2>10, <2>11
<1>2. ASSUME NEW tok, NEW t, NEW d, NEW v, Leads(s, n, tok, t, d), v \in WordsFrom(s, t)
      PROVE  <<tok>> \o v \in WordsFrom(s, n)
  <2>1. tok \in Token /\ t \in DOMAIN s.nodes /\ Follows(s, n, tok, t)
    <3>1. tok \in Token /\ t \in DOMAIN s.nodes
      BY <1>2, LeadsToken, LeadsInside
    <3> QED BY <1>2, <3>1, FollowsLeads
  <2>2. v \in Seq(Token) /\ Len(v) \in Nat
    BY <1>2 DEF WordsFrom
  <2>3. PICK p \in [1..Len(v) + 1 -> DOMAIN s.nodes] : Spells(s, t, v, p)
    BY <1>2 DEF WordsFrom, IsWord
  <2>4. p[1] = t /\ s.nodes[p[Len(v) + 1]].type = "terminal"
        /\ \A i \in 1..Len(v) : Follows(s, p[i], v[i], p[i + 1])
    BY <2>3 DEF Spells
  <2>5. PICK w : w = <<tok>> \o v
    OBVIOUS
  <2>6. /\ w \in Seq(Token) /\ Len(w) = Len(v) + 1 /\ w[1] = tok
        /\ \A j \in 1..Len(v) : w[j + 1] = v[j]
    BY <2>1, <2>2, <2>5, ConsFacts
  <2> DEFINE path == [j \in 1..Len(w) + 1 |-> IF j = 1 THEN n ELSE p[j - 1]]
  <2>7. path \in [1..Len(w) + 1 -> DOMAIN s.nodes]
    <3>1. \A j \in 1..Len(w) + 1 : j # 1 => j - 1 \in 1..Len(v) + 1
      BY <2>2, <2>6
    <3> QED BY <3>1
  <2>8. path[1] = n /\ path[2] = p[1] /\ path[Len(w) + 1] = p[Len(v) + 1]
    <3>1. 1 \in 1..Len(w) + 1 /\ 2 \in 1..Len(w) + 1 /\ Len(w) + 1 \in 1..Len(w) + 1
          /\ 2 - 1 = 1 /\ (Len(w) + 1) - 1 = Len(v) + 1 /\ Len(w) + 1 # 1
      BY <2>2, <2>6
    <3> QED BY <3>1
  <2>9. ASSUME NEW i \in 1..Len(w) PROVE Follows(s, path[i], w[i], path[i + 1])
    <3>1. CASE i = 1
      BY <2>1, <2>4, <2>6, <2>8, <3>1
    <3>2. CASE i # 1
      <4>1. PICK j : j = i - 1
        OBVIOUS
      <4>2. j \in 1..Len(v) /\ i = j + 1 /\ i \in 1..Len(w) + 1 /\ i + 1 \in 1..Len(w) + 1
            /\ (i + 1) - 1 = j + 1 /\ i + 1 # 1
        BY <2>2, <2>6, <3>2, <4>1
      <4>3. path[i] = p[j] /\ path[i + 1] = p[j + 1] /\ w[i] = v[j]
        BY <2>6, <3>2, <4>1, <4>2
      <4>4. Follows(s, p[j], v[j], p[j + 1])
        BY <2>4, <4>2
      <4> QED BY <4>3, <4>4
    <3> QED BY <3>1, <3>2
  <2> HIDE DEF path
  <2>10. Spells(s, n, w, path)
    BY <2>4, <2>8, <2>9 DEF Spells
  <2> QED BY <2>5, <2>6, <2>7, <2>10 DEF WordsFrom, IsWord
<1> QED BY <1>1, <1>2

\* f lists the words of node n, each once, in as many places as n counts.
Lists(s, n, f) ==
  /\ f \in [0..s.counts[n] - 1 -> WordsFrom(s, n)]
  /\ \A i, j \in 0..s.counts[n] - 1 : f[i] = f[j] => i = j
  /\ \A w \in WordsFrom(s, n) : \E i \in 0..s.counts[n] - 1 : f[i] = w

LEMMA TerminalLists ==
  ASSUME NEW s \in Schemas, NEW n \in DOMAIN s.nodes, s.nodes[n].type = "terminal"
  PROVE  \E f : Lists(s, n, f)
<1>1. 0..s.counts[n] - 1 = {0}
  <2>1. s.counts[n] = 1
    BY NodeFacts
  <2> QED BY <2>1
<1>2. <<>> \in WordsFrom(s, n)
  <2> DEFINE path == [i \in 1..Len(<<>>) + 1 |-> n]
  <2>1. path \in [1..Len(<<>>) + 1 -> DOMAIN s.nodes]
    OBVIOUS
  <2>2. path[1] = n /\ Len(<<>>) = 0 /\ path[Len(<<>>) + 1] = n
    OBVIOUS
  <2>3. 1..Len(<<>>) = {}
    BY <2>2
  <2> HIDE DEF path
  <2>4. Spells(s, n, <<>>, path)
    BY <2>2, <2>3, Zenon DEF Spells
  <2>5. <<>> \in Seq(Token)
    OBVIOUS
  <2> QED BY <2>1, <2>4, <2>5 DEF WordsFrom, IsWord
<1>3. ASSUME NEW w \in WordsFrom(s, n) PROVE w = <<>>
  <2>1. w \in Seq(Token) /\ Len(w) \in Nat
    BY DEF WordsFrom
  <2>2. PICK path \in [1..Len(w) + 1 -> DOMAIN s.nodes] : Spells(s, n, w, path)
    BY DEF WordsFrom, IsWord
  <2>3. ASSUME 1 \in 1..Len(w) PROVE FALSE
    BY <2>2, <2>3 DEF Spells, Follows
  <2>4. Len(w) = 0
    BY <2>1, <2>3
  <2> QED BY <2>1, <2>4
<1> DEFINE f == [i \in 0..s.counts[n] - 1 |-> <<>>]
<1>4. f \in [0..s.counts[n] - 1 -> WordsFrom(s, n)] /\ f[0] = <<>>
  BY <1>1, <1>2
<1> HIDE DEF f
<1>5. Lists(s, n, f)
  BY <1>1, <1>3, <1>4, Zenon DEF Lists
<1> QED BY <1>5

\* The list of a node is made of the lists F[t] of the nodes it leads to, one
\* block for each token, its words with that token in front.
LEMMA InnerLists ==
  ASSUME NEW s \in Schemas, NEW n \in DOMAIN s.nodes, s.nodes[n].type # "terminal", NEW F,
         \A t \in DOMAIN s.nodes : s.depths[t] < s.depths[n] => Lists(s, t, F[t])
  PROVE  \E f : Lists(s, n, f)
<1> DEFINE At(x, tok, t, d) == Leads(s, n, tok, t, d) /\ d <= x /\ x < d + s.counts[t]
           Holds(x, w) == \E tok, t, d : At(x, tok, t, d) /\ w = <<tok>> \o F[t][x - d]
           f == [x \in 0..s.counts[n] - 1 |-> CHOOSE w : Holds(x, w)]
<1>1. ASSUME NEW tok, NEW t, NEW d, Leads(s, n, tok, t, d)
      PROVE  /\ t \in DOMAIN s.nodes /\ d \in Nat /\ d + s.counts[t] <= s.counts[n]
             /\ s.counts[t] \in Nat /\ s.counts[n] \in Nat
             /\ Lists(s, t, F[t]) /\ tok \in Token
  <2>1. t \in DOMAIN s.nodes /\ d \in Nat /\ d + s.counts[t] <= s.counts[n]
        /\ s.depths[t] < s.depths[n]
    BY <1>1, LeadsInside
  <2>2. s.counts[t] \in Nat /\ s.counts[n] \in Nat
    BY <2>1, NodeFacts
  <2>3. tok \in Token
    BY <1>1, LeadsToken
  <2> QED BY <2>1, <2>2, <2>3
<1>2. ASSUME NEW x \in 0..s.counts[n] - 1, NEW tok, NEW t, NEW d, At(x, tok, t, d)
      PROVE  /\ x - d \in 0..s.counts[t] - 1
             /\ F[t][x - d] \in WordsFrom(s, t)
             /\ F[t][x - d] \in Seq(Token)
             /\ <<tok>> \o F[t][x - d] \in WordsFrom(s, n)
  <2>1. x - d \in 0..s.counts[t] - 1
    BY <1>1, <1>2
  <2>2. F[t][x - d] \in WordsFrom(s, t)
    BY <1>1, <1>2, <2>1 DEF Lists
  <2>3. F[t][x - d] \in Seq(Token)
    BY <2>2 DEF WordsFrom
  <2>4. <<tok>> \o F[t][x - d] \in WordsFrom(s, n)
    BY <1>2, <2>2, WordsUnfold
  <2> QED BY <2>1, <2>2, <2>3, <2>4
<1>3. ASSUME NEW x \in 0..s.counts[n] - 1
      PROVE  \E tok, t, d : At(x, tok, t, d) /\ f[x] = <<tok>> \o F[t][x - d]
  <2>1. \E w : Holds(x, w)
    BY LeadsAll
  <2>2. Holds(x, f[x])
    BY <2>1
  <2> QED BY <2>2
<1>4. ASSUME NEW x \in 0..s.counts[n] - 1, NEW tok, NEW t, NEW d, At(x, tok, t, d)
      PROVE  f[x] = <<tok>> \o F[t][x - d]
  <2> HIDE DEF f
  <2>1. PICK tok2, t2, d2 : At(x, tok2, t2, d2) /\ f[x] = <<tok2>> \o F[t2][x - d2]
    BY <1>3
  <2>2. x \in Int
    OBVIOUS
  <2>3. tok = tok2 /\ t = t2 /\ d = d2
    BY <1>4, <2>1, <2>2, LeadsApart
  <2> QED BY <2>1, <2>3
<1>5. f \in [0..s.counts[n] - 1 -> WordsFrom(s, n)]
  <2> DEFINE Listed(x) == CHOOSE w : Holds(x, w)
  <2>1. ASSUME NEW x \in 0..s.counts[n] - 1 PROVE Listed(x) \in WordsFrom(s, n)
    <3>1. f[x] = Listed(x)
      OBVIOUS
    <3> HIDE DEF f, Listed
    <3>2. PICK tok, t, d : At(x, tok, t, d) /\ f[x] = <<tok>> \o F[t][x - d]
      BY <1>3
    <3>3. f[x] \in WordsFrom(s, n)
      BY <1>2, <3>2
    <3> QED BY <3>1, <3>3
  <2>2. f = [x \in 0..s.counts[n] - 1 |-> Listed(x)]
    OBVIOUS
  <2> HIDE DEF f, Listed
  <2> QED BY <2>1, <2>2
<1> HIDE DEF f
<1>6. ASSUME NEW x \in 0..s.counts[n] - 1, NEW y \in 0..s.counts[n] - 1, f[x] = f[y]
      PROVE  x = y
  <2>1. PICK tok, t, d : At(x, tok, t, d) /\ f[x] = <<tok>> \o F[t][x - d]
    BY <1>3
  <2>2. PICK tok2, t2, d2 : At(y, tok2, t2, d2) /\ f[y] = <<tok2>> \o F[t2][y - d2]
    BY <1>3
  <2>3. PICK v, v2 : v = F[t][x - d] /\ v2 = F[t2][y - d2]
    OBVIOUS
  <2>4. tok \in Token /\ tok2 \in Token /\ v \in Seq(Token) /\ v2 \in Seq(Token)
    BY <1>1, <1>2, <2>1, <2>2, <2>3
  <2>5. /\ (<<tok>> \o v)[1] = tok /\ Tail(<<tok>> \o v) = v
        /\ (<<tok2>> \o v2)[1] = tok2 /\ Tail(<<tok2>> \o v2) = v2
    BY <2>4, ConsFacts
  <2>6. <<tok>> \o v = <<tok2>> \o v2
    BY <1>6, <2>1, <2>2, <2>3
  <2>7. tok = tok2 /\ v = v2
    BY <2>5, <2>6
  <2>8. t = t2 /\ d = d2
    BY <2>1, <2>2, <2>7, LeadsOnce
  <2>9. /\ x - d \in 0..s.counts[t] - 1 /\ y - d \in 0..s.counts[t] - 1
        /\ Lists(s, t, F[t]) /\ d \in Nat
    BY <1>1, <1>2, <2>1, <2>2, <2>8
  <2>10. x - d = y - d
    <3>1. F[t][x - d] = F[t][y - d]
      BY <2>3, <2>7, <2>8
    <3>2. \A i, j \in 0..s.counts[t] - 1 : F[t][i] = F[t][j] => i = j
      BY <2>9 DEF Lists
    <3> QED BY <2>9, <3>1, <3>2
  <2>11. x \in Int /\ y \in Int
    OBVIOUS
  <2> QED BY <2>9, <2>10, <2>11
<1>7. ASSUME NEW w \in WordsFrom(s, n) PROVE \E x \in 0..s.counts[n] - 1 : f[x] = w
  <2>1. PICK tok, t, d, v : Leads(s, n, tok, t, d) /\ v \in WordsFrom(s, t) /\ w = <<tok>> \o v
    BY WordsUnfold
  <2>2. PICK i \in 0..s.counts[t] - 1 : F[t][i] = v
    BY <1>1, <2>1 DEF Lists
  <2>3. PICK x : x = d + i
    OBVIOUS
  <2>4. x \in 0..s.counts[n] - 1 /\ d <= x /\ x < d + s.counts[t] /\ x - d = i
    BY <1>1, <2>1, <2>2, <2>3
  <2>5. At(x, tok, t, d)
    BY <2>1, <2>4
  <2> HIDE DEF At
  <2>6. f[x] = <<tok>> \o F[t][x - d]
    BY <1>4, <2>4, <2>5
  <2> QED BY <2>1, <2>2, <2>4, <2>6
<1>8. Lists(s, n, f)
  BY <1>5, <1>6, <1>7, Zenon DEF Lists
<1> QED BY <1>8

\* No node is the least deep one without a list.
LEMMA AllListed ==
  ASSUME NEW s \in Schemas, NEW n \in DOMAIN s.nodes
  PROVE  \E f : Lists(s, n, f)
<1> DEFINE Bad == {m \in DOMAIN s.nodes : ~ \E f : Lists(s, m, f)}
           Depths == {s.depths[m] : m \in Bad}
<1>1. ASSUME n \in Bad PROVE FALSE
  <2>1. Depths \subseteq Nat
    BY NodeFacts
  <2>2. Depths # {}
    BY <1>1
  <2>3. PICK k \in Depths : \A j \in Depths : k <= j
    <3> HIDE DEF Depths
    <3> QED BY <2>1, <2>2, LeastNat
  <2>4. PICK m \in Bad : k = s.depths[m]
    OBVIOUS
  <2> DEFINE F == [t \in DOMAIN s.nodes |-> CHOOSE f : Lists(s, t, f)]
  <2>5. ASSUME NEW t \in DOMAIN s.nodes, s.depths[t] < s.depths[m] PROVE Lists(s, t, F[t])
    <3>1. s.depths[t] \in Nat /\ s.depths[m] \in Nat
      BY NodeFacts
    <3>2. s.depths[t] \notin Depths
      <4>1. ASSUME s.depths[t] \in Depths PROVE FALSE
        <5> HIDE DEF Depths
        <5>1. k <= s.depths[t]
          BY <2>3, <4>1
        <5> QED BY <2>4, <2>5, <3>1, <5>1
      <4> QED BY <4>1
    <3>3. \E f : Lists(s, t, f)
      BY <3>2
    <3> QED BY <3>3
  <2> HIDE DEF F
  <2>6. \E f : Lists(s, m, f)
    <3>1. CASE s.nodes[m].type = "terminal"
      BY <3>1, TerminalLists
    <3>2. CASE s.nodes[m].type # "terminal"
      BY <2>5, <3>2, InnerLists
    <3> QED BY <3>1, <3>2
  <2> QED BY <2>6
<1> QED BY <1>1

\* A node's count is the number of words that can be read from it, each of
\* them once however many paths the schema has (the counting of _compile).
THEOREM CountsAreExact ==
  ASSUME NEW s \in Schemas, NEW n \in DOMAIN s.nodes
  PROVE  /\ IsFiniteSet(WordsFrom(s, n))
         /\ Cardinality(WordsFrom(s, n)) = s.counts[n]
<1>1. PICK f : Lists(s, n, f)
  BY AllListed
<1>2. PICK c : c = s.counts[n]
  OBVIOUS
<1>3. c \in Nat /\ c > 0
  BY <1>2, NodeFacts
<1>4. f \in Bijection(0..c - 1, WordsFrom(s, n))
  BY <1>1, <1>2, Fun_IsBij DEF Lists
<1>5. ExistsBijection(0..c - 1, WordsFrom(s, n))
  BY <1>4, Fun_ExistsBij
<1>6. IsFiniteSet(0..c - 1) /\ Cardinality(0..c - 1) = c
  <2>1. 0 \in Int /\ c - 1 \in Int /\ ~ (0 > c - 1) /\ (c - 1) - 0 + 1 = c
    BY <1>3
  <2> QED BY <2>1, FS_Interval
<1> QED BY <1>2, <1>5, <1>6, FS_Bijection

-----------------------------------------------------------------------------
(* Audits of rank and unrank, or of any two functions *)

\* The ranks that have been looked at so far.
Looked(ranks) ==
  /\ ranks \in SUBSET Audit!AllRanks /\ left \in SUBSET Audit!AllRanks /\ ranks \cap left = {}
  /\ Audit!Exhaustive => ranks \cup left = Audit!AllRanks
  /\ checked = Cardinality(ranks)
  /\ seen = {Audit!Collected(i) : i \in ranks}
  /\ failures \in Nat
  /\ failures = 0 => \A i \in ranks : Audit!Returns(i)
  /\ failures # 0 => \E i \in Audit!AllRanks : ~Audit!Returns(i)

\* Something that the audit is right to complain of.
Wrong(i) == ~Audit!Returns(i) \/ forth[i] # Reference[count][i + 1]

\* The invariant of an audit.
AuditInv ==
  /\ count \in Domains
  /\ pc \in {"start", "loop", "passed", "failed", "raised"}
  /\ pc = "start" => checked = 0 /\ failures = 0 /\ seen = {}
  /\ pc \in {"loop", "passed"} => \E ranks : Looked(ranks)
  /\ pc \in {"loop", "passed"} /\ audit = "theorems" =>
       \A i \in Audit!AllRanks : forth[i] = Reference[count][i + 1]
  /\ pc = "passed" => left = {} /\ failures = 0
  /\ pc \in {"failed", "raised"} => \E i \in Audit!AllRanks : Wrong(i)

\* The size in the instance is the size of the lemmas.
LEMMA SameSize == \A S : Audit!Cardinality(S) = Cardinality(S)
BY DEF Audit!Cardinality, Cardinality

LEMMA DomainFacts ==
  ASSUME Domains \subseteq Nat, count \in Domains
  PROVE  /\ Audit!AllRanks \subseteq Nat
         /\ IsFiniteSet(Audit!AllRanks) /\ Cardinality(Audit!AllRanks) = count
<1>1. PICK c \in Nat : c = count
  OBVIOUS
<1>2. IsFiniteSet(0..c - 1) /\ Cardinality(0..c - 1) = c
  <2>1. 0 \in Int /\ c - 1 \in Int
    OBVIOUS
  <2>2. Cardinality(0..c - 1) = IF 0 > c - 1 THEN 0 ELSE (c - 1) - 0 + 1
    BY <2>1, FS_Interval
  <2>3. (IF 0 > c - 1 THEN 0 ELSE (c - 1) - 0 + 1) = c
    OBVIOUS
  <2> QED BY <2>1, <2>2, <2>3, FS_Interval
<1> QED BY <1>1, <1>2 DEF Audit!AllRanks

\* Ranks that come back are collected apart from each other.
LEMMA CollectedApart ==
  ASSUME Domains \subseteq Nat, count \in Domains,
         NEW ranks \in SUBSET Audit!AllRanks, \A i \in ranks : Audit!Returns(i)
  PROVE  Cardinality({Audit!Collected(i) : i \in ranks}) = Cardinality(ranks)
<1> DEFINE f == [i \in ranks |-> Audit!Collected(i)]
           T == {Audit!Collected(i) : i \in ranks}
<1>1. ASSUME NEW i \in ranks, NEW j \in ranks, Audit!Collected(i) = Audit!Collected(j)
      PROVE  i = j
  <2>1. back[forth[i]] = i /\ back[forth[j]] = j
    BY DEF Audit!Returns
  <2>2. CASE audit = "permutation"
    BY <1>1, <2>1, <2>2 DEF Audit!Collected
  <2>3. CASE audit # "permutation"
    BY <1>1, <2>1, <2>3 DEF Audit!Collected
  <2> QED BY <2>2, <2>3
<1>2. f \in Bijection(ranks, T)
  <2>1. f \in [ranks -> T]
    OBVIOUS
  <2>2. \A t \in T : \E i \in ranks : f[i] = t
    OBVIOUS
  <2>3. \A i, j \in ranks : f[i] = f[j] => i = j
    BY <1>1
  <2> HIDE DEF f, T
  <2> QED BY <2>1, <2>2, <2>3, Fun_IsBij
<1> HIDE DEF f
<1>3. IsFiniteSet(ranks)
  BY DomainFacts, FS_Subset
<1>4. ExistsBijection(ranks, T)
  BY <1>2, Fun_ExistsBij
<1> HIDE DEF T
<1>5. Cardinality(T) = Cardinality(ranks)
  BY <1>3, <1>4, FS_Bijection
<1> QED BY <1>5 DEF T

\* When everything looked at has come back, the sets are what they should be.
LEMMA SetsAgree ==
  ASSUME Domains \subseteq Nat, AuditInv, NEW ranks, Looked(ranks), left = {}, Audit!SetFails
  PROVE  \E i \in Audit!AllRanks : ~Audit!Returns(i)
<1>1. SUFFICES ASSUME \A i \in Audit!AllRanks : Audit!Returns(i) PROVE FALSE
  OBVIOUS
<1>2. Audit!Exhaustive
  BY DEF Audit!SetFails, Audit!Exhaustive
<1>3. ranks = Audit!AllRanks
  BY <1>2 DEF Looked
<1>4. seen = {Audit!Collected(i) : i \in Audit!AllRanks}
  BY <1>3 DEF Looked
<1>5. CASE audit = "generated"
  <2>1. \A i \in Audit!AllRanks : Audit!Collected(i) = i
    BY <1>1, <1>5 DEF Audit!Collected, Audit!Returns
  <2>2. seen = Audit!AllRanks
    BY <1>4, <2>1
  <2> QED BY <1>5, <2>2 DEF Audit!SetFails
<1>6. CASE audit # "generated"
  <2>1. Cardinality(seen) # count
    BY <1>6, SameSize DEF Audit!SetFails
  <2>2. count \in Domains
    BY DEF AuditInv
  <2>3. Cardinality(seen) = Cardinality(Audit!AllRanks)
    BY <1>1, <1>4, <2>2, CollectedApart
  <2> QED BY <2>1, <2>2, <2>3, DomainFacts
<1> QED BY <1>5, <1>6

\* What the functions and the domain say stays.
SameAudit == UNCHANGED <<audit, count, forth, back>>

LEMMA AuditStays ==
  ASSUME SameAudit
  PROVE  /\ Audit!AllRanks' = Audit!AllRanks /\ Audit!Exhaustive' = Audit!Exhaustive
         /\ \A i : Audit!Returns(i)' = Audit!Returns(i)
         /\ \A i : Audit!Collected(i)' = Audit!Collected(i)
         /\ \A i : Wrong(i)' = Wrong(i)
BY DEF SameAudit, Audit!AllRanks, Audit!Exhaustive, Audit!Returns, Audit!Collected, Wrong

LEMMA AuditStart ==
  ASSUME Domains \subseteq Nat, AuditInv, Audit!Start
  PROVE  AuditInv'
<1>1. SameAudit /\ pc = "start" /\ UNCHANGED <<checked, failures, seen>>
  BY DEF Audit!Start, SameAudit
<1>2. checked' = 0 /\ failures' = 0 /\ seen' = {}
  BY <1>1 DEF AuditInv
<1>3. left' \in SUBSET Audit!AllRanks /\ (Audit!Exhaustive => left' = Audit!AllRanks)
  BY DEF Audit!Start, Audit!kSubset
<1>4. Looked({})'
  <2>1. Cardinality({}) = 0
    BY FS_EmptySet
  <2> QED BY <1>1, <1>2, <1>3, <2>1, AuditStays DEF Looked
<1>5. CASE audit = "theorems" /\ \E i \in Audit!AllRanks : forth[i] # Reference[count][i + 1]
  <2>1. pc' = "failed"
    BY <1>5 DEF Audit!Start
  <2>2. \E i \in Audit!AllRanks : Wrong(i)
    BY <1>5 DEF Wrong
  <2>3. (\E i \in Audit!AllRanks : Wrong(i))'
    BY <1>1, <2>2, AuditStays
  <2> QED BY <1>1, <2>1, <2>3 DEF AuditInv, SameAudit
<1>6. CASE ~(audit = "theorems" /\ \E i \in Audit!AllRanks : forth[i] # Reference[count][i + 1])
  <2>1. pc' = "loop"
    BY <1>6 DEF Audit!Start
  <2>2. audit' = "theorems" =>
          \A i \in Audit!AllRanks' : forth'[i] = Reference[count'][i + 1]
    BY <1>1, <1>6, AuditStays DEF SameAudit
  <2> QED BY <1>1, <1>4, <2>1, <2>2 DEF AuditInv, SameAudit
<1> QED BY <1>5, <1>6

LEMMA AuditCheck ==
  ASSUME Domains \subseteq Nat, AuditInv, Audit!Check
  PROVE  AuditInv'
<1>1. SameAudit /\ pc = "loop" /\ left # {}
  BY DEF Audit!Check, SameAudit
<1>2. count \in Domains /\ count' \in Domains
  BY <1>1 DEF AuditInv, SameAudit
<1>3. PICK ranks : Looked(ranks)
  BY <1>1 DEF AuditInv
<1>4. PICK i \in left : i = Audit!Min(left)
  <2>1. left \subseteq Nat
    BY <1>2, <1>3, DomainFacts DEF Looked
  <2>2. \E m \in left : \A k \in left : m =< k
    BY <1>1, <2>1, LeastNat
  <2> QED BY <2>2 DEF Audit!Min
<1>5. i \in Audit!AllRanks /\ i \notin ranks
  BY <1>3 DEF Looked
<1>6. ASSUME ~Audit!Returns(i) PROVE (\E k \in Audit!AllRanks : Wrong(k))'
  BY <1>1, <1>5, <1>6, AuditStays DEF Wrong
<1>7. CASE back[forth[i]] = Audit!Raises
  <2>1. pc' = "raised"
    BY <1>4, <1>7 DEF Audit!Check
  <2>2. i # Audit!Raises
    BY <1>2, <1>5, DomainFacts DEF Audit!Raises
  <2>3. ~Audit!Returns(i)
    BY <1>7, <2>2 DEF Audit!Returns
  <2> QED BY <1>2, <1>6, <2>1, <2>3 DEF AuditInv
<1>8. CASE back[forth[i]] # Audit!Raises /\ Audit!Fails(i) /\ audit = "theorems"
  <2>1. pc' = "failed"
    BY <1>4, <1>8 DEF Audit!Check
  <2>2. ~Audit!Returns(i)
    BY <1>8 DEF Audit!Returns, Audit!Fails
  <2> QED BY <1>2, <1>6, <2>1, <2>2 DEF AuditInv
<1>9. CASE back[forth[i]] # Audit!Raises /\ ~(Audit!Fails(i) /\ audit = "theorems")
  <2>1. /\ checked' = checked + 1
        /\ failures' = IF Audit!Fails(i) THEN failures + 1 ELSE failures
        /\ seen' = seen \cup {Audit!Collected(i)}
        /\ left' = left \ {i}
        /\ pc' = "loop"
    BY <1>1, <1>4, <1>9 DEF Audit!Check
  <2> DEFINE more == ranks \cup {i}
  <2>2. more \in SUBSET Audit!AllRanks /\ left' \in SUBSET Audit!AllRanks /\ more \cap left' = {}
    BY <1>3, <1>5, <2>1 DEF Looked
  <2>3. Audit!Exhaustive => more \cup left' = Audit!AllRanks
    BY <1>3, <2>1 DEF Looked
  <2>4. checked' = Cardinality(more)
    <3>1. IsFiniteSet(ranks)
      BY <1>2, <1>3, DomainFacts, FS_Subset DEF Looked
    <3>2. Cardinality(more) = Cardinality(ranks) + 1
      BY <1>5, <3>1, FS_AddElement
    <3> QED BY <1>3, <2>1, <3>2 DEF Looked
  <2>5. seen' = {Audit!Collected(k) : k \in more}
    <3>1. seen = {Audit!Collected(k) : k \in ranks}
      BY <1>3 DEF Looked
    <3> QED BY <2>1, <3>1
  <2>6. failures \in Nat /\ failures' \in Nat /\ (Audit!Fails(i) => failures' # 0)
    BY <1>3, <2>1 DEF Looked
  <2>7. failures' = 0 => \A k \in more : Audit!Returns(k)
    BY <1>3, <2>1, <2>6 DEF Looked, Audit!Fails, Audit!Returns
  <2>8. failures' # 0 => \E k \in Audit!AllRanks : ~Audit!Returns(k)
    BY <1>3, <1>5, <2>1 DEF Looked, Audit!Fails, Audit!Returns
  <2>9. Looked(more)'
    <3>1. \A k : Audit!Returns(k)' = Audit!Returns(k) /\ Audit!Collected(k)' = Audit!Collected(k)
      BY <1>1, AuditStays
    <3>2. Audit!AllRanks' = Audit!AllRanks /\ Audit!Exhaustive' = Audit!Exhaustive
      BY <1>1, AuditStays
    <3> QED BY <2>2, <2>3, <2>4, <2>5, <2>6, <2>7, <2>8, <3>1, <3>2 DEF Looked
  <2>10. audit' = "theorems" => \A k \in Audit!AllRanks' : forth'[k] = Reference[count'][k + 1]
    BY <1>1, AuditStays DEF AuditInv, SameAudit
  <2> QED BY <1>2, <2>1, <2>9, <2>10 DEF AuditInv
<1> QED BY <1>7, <1>8, <1>9

LEMMA AuditFinish ==
  ASSUME Domains \subseteq Nat, AuditInv, Audit!Finish
  PROVE  AuditInv'
<1>1. SameAudit /\ pc = "loop" /\ left = {} /\ UNCHANGED <<left, checked, seen>>
  BY DEF Audit!Finish, SameAudit
<1>2. count' \in Domains
  BY <1>1 DEF AuditInv, SameAudit
<1>3. PICK ranks : Looked(ranks)
  BY <1>1 DEF AuditInv
<1>4. failures \in Nat
  BY <1>3 DEF Looked
<1>5. CASE failures' = 0
  <2>1. pc' = "passed" /\ failures = 0
    BY <1>4, <1>5 DEF Audit!Finish
  <2>2. Looked(ranks)'
    <3>1. \A k : Audit!Returns(k)' = Audit!Returns(k) /\ Audit!Collected(k)' = Audit!Collected(k)
      BY <1>1, AuditStays
    <3>2. Audit!AllRanks' = Audit!AllRanks /\ Audit!Exhaustive' = Audit!Exhaustive
      BY <1>1, AuditStays
    <3> QED BY <1>1, <1>3, <1>5, <2>1, <3>1, <3>2 DEF Looked
  <2>3. audit' = "theorems" => \A k \in Audit!AllRanks' : forth'[k] = Reference[count'][k + 1]
    BY <1>1, AuditStays DEF AuditInv, SameAudit
  <2> QED BY <1>1, <1>2, <1>5, <2>1, <2>2, <2>3 DEF AuditInv
<1>6. CASE failures' # 0
  <2>1. pc' = "failed"
    BY <1>6 DEF Audit!Finish
  <2>2. Audit!SetFails \/ failures # 0
    BY <1>6 DEF Audit!Finish
  <2>3. \E i \in Audit!AllRanks : ~Audit!Returns(i)
    BY <1>1, <1>3, <2>2, SetsAgree DEF Looked
  <2>4. (\E i \in Audit!AllRanks : Wrong(i))'
    BY <1>1, <2>3, AuditStays DEF Wrong
  <2> QED BY <1>2, <2>1, <2>4 DEF AuditInv
<1> QED BY <1>5, <1>6

\* The verdict of an audit says what it has been able to see, for every size of
\* the domain, every two functions and every sample: what passes on a whole
\* domain has an inverse there, what passes on a sample has as many values apart
\* from each other as were checked, and a failed verdict names a wrong rank.
THEOREM VerdictsHold ==
  ASSUME Domains \subseteq Nat
  PROVE  Audit!Spec => []Audit!VerdictsAreTrue
<1>1. Audit!Init => AuditInv
  BY DEF Audit!Init, AuditInv
<1>2. AuditInv /\ [Audit!Next]_(Audit!vars) => AuditInv'
  <2>1. SUFFICES ASSUME AuditInv, [Audit!Next]_(Audit!vars) PROVE AuditInv'
    OBVIOUS
  <2>2. CASE Audit!Start
    BY <2>1, <2>2, AuditStart
  <2>3. CASE Audit!Check
    BY <2>1, <2>3, AuditCheck
  <2>4. CASE Audit!Finish
    BY <2>1, <2>4, AuditFinish
  <2>5. CASE UNCHANGED Audit!vars
    <3>1. SameAudit /\ UNCHANGED <<pc, left, checked, failures, seen>>
      BY <2>5 DEF Audit!vars, SameAudit
    <3>2. \A ranks : Looked(ranks)' = Looked(ranks)
      BY <3>1 DEF Looked, SameAudit, Audit!AllRanks, Audit!Exhaustive, Audit!Returns, Audit!Collected
    <3> QED BY <2>1, <3>1, <3>2, AuditStays DEF AuditInv, SameAudit
  <2> QED BY <2>1, <2>2, <2>3, <2>4, <2>5 DEF Audit!Next
<1>3. AuditInv => Audit!VerdictsAreTrue
  <2>1. SUFFICES ASSUME AuditInv PROVE Audit!VerdictsAreTrue
    OBVIOUS
  <2>2. count \in Domains
    BY <2>1 DEF AuditInv
  <2>3. CASE pc = "passed"
    <3>1. PICK ranks : Looked(ranks)
      BY <2>1, <2>3 DEF AuditInv
    <3>2. left = {} /\ failures = 0
      BY <2>1, <2>3 DEF AuditInv
    <3>3. \A i \in ranks : Audit!Returns(i)
      BY <3>1, <3>2 DEF Looked
    <3>4. Audit!Exhaustive => \A i \in Audit!AllRanks : Audit!Returns(i)
      BY <3>1, <3>2, <3>3 DEF Looked
    <3>5. audit = "theorems" => \A i \in Audit!AllRanks : forth[i] = Reference[count][i + 1]
      BY <2>1, <2>3 DEF AuditInv
    <3>6. Cardinality({i \in Audit!AllRanks : Audit!Returns(i)}) >= checked
      <4> DEFINE right == {i \in Audit!AllRanks : Audit!Returns(i)}
      <4>1. right \in SUBSET Audit!AllRanks /\ ranks \in SUBSET right
        BY <3>1, <3>3 DEF Looked
      <4> HIDE DEF right
      <4>2. IsFiniteSet(right)
        BY <2>2, <4>1, DomainFacts, FS_Subset
      <4>3. Cardinality(ranks) <= Cardinality(right) /\ IsFiniteSet(ranks)
        BY <4>1, <4>2, FS_Subset
      <4>4. Cardinality(ranks) \in Nat /\ Cardinality(right) \in Nat
        BY <4>2, <4>3, FS_CardinalityType
      <4>5. checked = Cardinality(ranks)
        BY <3>1 DEF Looked
      <4>6. Cardinality(right) >= checked
        BY <4>3, <4>4, <4>5
      <4> QED BY <4>6 DEF right
    <3>7. checked = Cardinality(seen)
      BY <2>2, <3>1, <3>3, CollectedApart DEF Looked
    <3> QED BY <2>3, <3>4, <3>5, <3>6, <3>7, SameSize DEF Audit!VerdictsAreTrue
  <2>4. CASE pc \in {"failed", "raised"}
    BY <2>1, <2>4 DEF AuditInv, Wrong, Audit!VerdictsAreTrue
  <2>5. CASE pc \notin {"passed", "failed", "raised"}
    BY <2>5 DEF Audit!VerdictsAreTrue
  <2> QED BY <2>3, <2>4, <2>5
<1> QED BY <1>1, <1>2, <1>3, PTL DEF Audit!Spec
=============================================================================
