----------------------- MODULE CompiledSchema_proofs -----------------------
(***************************************************************************)
(* The constructor of a schema, for any document and any limits: it        *)
(* accepts exactly the connected acyclic documents that parse and are      *)
(* within the limits, what it accepts satisfies the equations that rank    *)
(* and unrank rely on, and its counts and depths are those of the words.   *)
(* Then the same question for the native engine, which counts by a         *)
(* recursion in machine words (NativeCount).                               *)
(* Last, the field check of the second paper's engine (FieldCheck).        *)
(***************************************************************************)
EXTENDS CompiledSchema, NumberLemmas, FiniteSetTheorems, FunctionTheorems, SequenceTheorems

\* The edges of the names taken so far that no longer hold their targets back.
Taken == Elements(topological)
Released ==
  {e \in Edges(nodes) : /\ e[1] \in Taken
                        /\ e[1] = LastTaken => e[2] < edge}

Ordering == pc \in {"kahn", "count", "ready"}
Counting == pc \in {"count", "ready"}

GivenInv ==
  /\ IsDocument(doc)
  /\ \A l \in {"maxNodes", "maxDomainBits", "maxDepth", "maxRangeWidth"} : limits[l] \in Nat

\* The verdict is the reason of the rejection, and a reason once given is true.
VerdictInv ==
  /\ pc \in {"parse", "targets", "reach", "kahn", "count", "ready", "rejected"}
  /\ pc # "rejected" => verdict = "none"
  /\ pc = "rejected" =>
       \/ verdict = "parse" /\ ~ParseAccepts
       \/ verdict = "missing target" /\ ~Closed
       \/ verdict = "unreachable" /\ ~Connected
       \/ verdict = "cycle" /\ ~Acyclic
       \/ /\ verdict \in {"bits", "depth"}
          /\ ParseAccepts /\ Closed /\ Connected /\ Acyclic
  /\ pc \notin {"parse", "rejected"} => ParseAccepts
  /\ pc = "reach" \/ Ordering => Closed
  /\ Ordering => Connected
  /\ Counting => Acyclic

\* What a pass finds that only later passes change.
StartInv ==
  /\ pc \in {"parse", "targets"} => reachable = {}
  /\ pc \in {"parse", "targets", "reach"} => topological = <<>> /\ edge = 1
  /\ pc \in {"parse", "targets", "reach", "kahn"} =>
       position = 1 /\ counts = EmptyMap /\ depths = EmptyMap

\* What is visited or pending is in every closed set that holds the root, and the
\* targets of what is visited are visited or pending.
ReachInv ==
  pc = "reach" =>
    /\ reachable \subseteq Declared
    /\ pending \in Seq(Declared)
    /\ \A S \in SUBSET Declared :
         doc.root \in S /\ ClosedUnder(S) => reachable \cup Elements(pending) \subseteq S
    /\ doc.root \in reachable \cup Elements(pending)
    /\ \A n \in reachable : Elements(TargetsOf(n)) \subseteq reachable \cup Elements(pending)

\* A name is taken or queued when none of its incoming edges is left, once, and
\* after the names those edges come from.
KahnInv ==
  pc = "kahn" =>
    /\ reachable = Declared
    /\ topological \in Seq(Declared) /\ queue \in Seq(Declared)
    /\ edge \in Nat \ {0}
    /\ DOMAIN indegree = Declared
    /\ \A n \in Declared :
         /\ indegree[n] = Cardinality(EdgesInto(nodes, n) \ Released)
         /\ indegree[n] = 0 <=> n \in Taken \cup Elements(queue)
    /\ \A i, j \in DOMAIN topological : topological[i] = topological[j] => i = j
    /\ \A i, j \in DOMAIN queue : queue[i] = queue[j] => i = j
    /\ Taken \cap Elements(queue) = {}
    /\ \A j \in DOMAIN topological : \A e \in EdgesInto(nodes, topological[j]) :
         \E i \in DOMAIN topological : i < j /\ topological[i] = e[1]

\* The postorder has every name once, after its targets.
PostorderInv ==
  Counting =>
    /\ postorder \in Seq(Declared)
    /\ Elements(postorder) = Declared
    /\ \A p, q \in DOMAIN postorder : postorder[p] = postorder[q] => p = q
    /\ \A p \in DOMAIN postorder : \A t \in Elements(TargetsOf(postorder[p])) :
         \E q \in DOMAIN postorder : q < p /\ postorder[q] = t

\* The names counted are those before the position, and their counts and depths
\* solve the equations of the counting pass.
CountInv ==
  Counting =>
    /\ position \in 1..Len(postorder) + 1
    /\ DOMAIN counts = {postorder[p] : p \in 1..position - 1}
    /\ DOMAIN depths = DOMAIN counts
    /\ \A n \in DOMAIN counts :
         /\ counts[n] \in Nat \ {0} /\ counts[n] = Total(nodes[n])
         /\ depths[n] \in 0..limits.maxDepth
         /\ \A t \in Elements(TargetsOf(n)) : t \in DOMAIN counts /\ depths[t] < depths[n]

IndexInv ==
  pc = "ready" =>
    /\ position = Len(postorder) + 1
    /\ \A n \in ChoiceNames :
         /\ offsets[n] = [i \in DOMAIN nodes[n].branches |->
                            PrefixSum(BranchCounts(nodes[n], counts))[i - 1]]
         /\ ends[n] = [i \in DOMAIN nodes[n].branches |->
                         PrefixSum(BranchCounts(nodes[n], counts))[i]]

IInv ==
  /\ GivenInv /\ VerdictInv /\ StartInv
  /\ ReachInv /\ KahnInv /\ PostorderInv /\ CountInv /\ IndexInv

-----------------------------------------------------------------------------
(* Prefix sums *)

\* The equations that PrefixSum is meant to satisfy on its first n + 1 points.
SumsUpTo(c, n, f) ==
  /\ f \in [0..n -> Int]
  /\ f[0] = 0
  /\ \A i \in 1..n : f[i] = f[i - 1] + c[i]

\* There is a function that satisfies them on all points.
LEMMA PrefixSumExists ==
  ASSUME NEW c, NEW len \in Nat, \A i \in 1..len : c[i] \in Int
  PROVE  \E f : SumsUpTo(c, len, f)
<1> DEFINE Bad == {n \in 0..len : ~ \E f : SumsUpTo(c, n, f)}
<1>1. SUFFICES ASSUME Bad # {} PROVE FALSE
  OBVIOUS
<1>2. PICK m \in Bad : \A k \in Bad : m <= k
  <2>1. Bad \subseteq Nat
    OBVIOUS
  <2> QED BY <1>1, <2>1, LeastNat
<1>3. m # 0
  <2>1. SumsUpTo(c, 0, [i \in 0..0 |-> 0])
    BY DEF SumsUpTo
  <2> QED BY <2>1
<1>4. m \in 1..len
  BY <1>3
<1>5. m - 1 \in 0..len /\ m - 1 \notin Bad
  BY <1>2, <1>4
<1>6. PICK f : SumsUpTo(c, m - 1, f)
  BY <1>5
<1> DEFINE g == [i \in 0..m |-> IF i = m THEN f[m - 1] + c[m] ELSE f[i]]
<1>7. SumsUpTo(c, m, g)
  <2>1. c[m] \in Int /\ f[m - 1] \in Int
    BY <1>4, <1>6 DEF SumsUpTo
  <2>2. g \in [0..m -> Int]
    BY <1>4, <1>6, <2>1 DEF SumsUpTo
  <2>3. g[0] = 0
    BY <1>4, <1>6 DEF SumsUpTo
  <2>4. ASSUME NEW i \in 1..m PROVE g[i] = g[i - 1] + c[i]
    BY <1>4, <1>6 DEF SumsUpTo
  <2> QED BY <2>2, <2>3, <2>4 DEF SumsUpTo
<1> QED BY <1>7

\* PrefixSum satisfies its equations (the running offset of 220-226).
THEOREM PrefixSumFacts ==
  ASSUME NEW c, Len(c) \in Nat, \A i \in 1..Len(c) : c[i] \in Int
  PROVE  SumsUpTo(c, Len(c), PrefixSum(c))
<1> DEFINE f == PrefixSum(c)
<1>1. PICK h : SumsUpTo(c, Len(c), h)
  BY PrefixSumExists
<1>2. h = [i \in 0..Len(c) |-> IF i = 0 THEN 0 ELSE h[i - 1] + c[i]]
  <2>1. \A i \in 0..Len(c) : h[i] = IF i = 0 THEN 0 ELSE h[i - 1] + c[i]
    BY <1>1 DEF SumsUpTo
  <2>2. h = [i \in 0..Len(c) |-> h[i]]
    BY <1>1 DEF SumsUpTo
  <2> QED BY <2>1, <2>2
<1>3. f = [i \in 0..Len(c) |-> IF i = 0 THEN 0 ELSE f[i - 1] + c[i]]
  BY <1>2, Zenon DEF PrefixSum
<1> HIDE DEF f
<1> DEFINE Bad == {n \in 0..Len(c) : f[n] # h[n]}
<1>4. Bad = {}
  <2>1. SUFFICES ASSUME Bad # {} PROVE FALSE
    OBVIOUS
  <2>2. PICK m \in Bad : \A k \in Bad : m <= k
    <3>1. Bad \subseteq Nat
      OBVIOUS
    <3> QED BY <2>1, <3>1, LeastNat
  <2>3. f[0] = 0 /\ h[0] = 0
    BY <1>3, <1>1 DEF SumsUpTo
  <2>4. m \in 1..Len(c) /\ m - 1 \in 0..Len(c) /\ m - 1 \notin Bad
    BY <2>2, <2>3
  <2>5. f[m] = f[m - 1] + c[m] /\ h[m] = h[m - 1] + c[m]
    BY <1>3, <1>1, <2>4 DEF SumsUpTo
  <2> QED BY <2>4, <2>5
<1>5. f = h
  <2>1. f = [i \in 0..Len(c) |-> f[i]]
    BY <1>3
  <2>2. h = [i \in 0..Len(c) |-> h[i]]
    BY <1>1 DEF SumsUpTo
  <2>3. \A i \in 0..Len(c) : f[i] = h[i]
    BY <1>4
  <2> QED BY <2>1, <2>2, <2>3
<1> QED BY <1>5, <1>1 DEF f

-----------------------------------------------------------------------------
(* Nodes and edges *)

\* A function on an initial interval of the naturals is a sequence.
LEMMA SeqOfFunction ==
  ASSUME NEW S, NEW n \in Nat, NEW f \in [1..n -> S]
  PROVE  f \in Seq(S) /\ Len(f) = n
<1>1. f \in Seq(S)
  BY SeqDef
<1>2. DOMAIN f = 1..Len(f) /\ Len(f) \in Nat
  BY <1>1, LenProperties
<1> QED BY <1>1, <1>2

\* The form of a node says what its targets are.
LEMMA NodeFacts ==
  ASSUME GivenInv, NEW n \in Declared
  PROVE  /\ nodes[n].type \in {"terminal", "choice", "range", "other"}
         /\ nodes[n].type = "choice" =>
              /\ nodes[n].branches \in Seq(Branch)
              /\ DOMAIN nodes[n].branches = 1..Len(nodes[n].branches)
              /\ Len(TargetsOf(n)) = Len(nodes[n].branches)
              /\ \A i \in 1..Len(nodes[n].branches) :
                   TargetsOf(n)[i] = nodes[n].branches[i].target
         /\ nodes[n].type = "range" =>
              /\ TargetsOf(n) = <<nodes[n].target>>
              /\ nodes[n].start \in Int /\ nodes[n].stop \in Int
         /\ nodes[n].type \in {"terminal", "other"} => TargetsOf(n) = <<>>
         /\ TargetsOf(n) \in Seq(Names)
<1>1. PICK it : it = nodes[n] /\ IsNode(it) /\ TargetsOf(n) = Targets(it)
  BY DEF GivenInv, IsDocument, nodes, Declared, TargetsOf
<1>2. CASE it \in ChoiceNode
  <2>1. it.type = "choice" /\ it.branches \in Seq(Branch)
    BY <1>2 DEF ChoiceNode
  <2>2. Len(it.branches) \in Nat /\ DOMAIN it.branches = 1..Len(it.branches)
        /\ \A i \in 1..Len(it.branches) : it.branches[i].target \in Names
    <3>1. \A i \in 1..Len(it.branches) : it.branches[i] \in Branch
      BY <2>1, ElementOfSeq
    <3> QED BY <2>1, <3>1, LenProperties DEF Branch
  <2>3. Targets(it) = [i \in 1..Len(it.branches) |-> it.branches[i].target]
    BY <2>1, <2>2 DEF Targets
  <2>4. Targets(it) \in [1..Len(it.branches) -> Names]
    BY <2>2, <2>3
  <2>5. Targets(it) \in Seq(Names) /\ Len(Targets(it)) = Len(it.branches)
    BY <2>2, <2>4, SeqOfFunction
  <2> QED BY <1>1, <2>1, <2>2, <2>3, <2>5
<1>3. CASE it \in RangeNode
  <2>1. it.type = "range" /\ it.start \in Int /\ it.stop \in Int /\ it.target \in Names
    BY <1>3 DEF RangeNode
  <2>2. Targets(it) = <<it.target>>
    BY <2>1 DEF Targets
  <2> QED BY <1>1, <2>1, <2>2
<1>4. CASE it \in TerminalNode \cup Malformed
  <2>1. it.type \in {"terminal", "other"}
    BY <1>4 DEF TerminalNode, Malformed
  <2>2. Targets(it) = <<>>
    BY <2>1 DEF Targets
  <2> QED BY <1>1, <2>1, <2>2
<1> QED BY <1>1, <1>2, <1>3, <1>4 DEF IsNode

LEMMA TargetsFacts ==
  ASSUME GivenInv, NEW n \in Declared
  PROVE  /\ TargetsOf(n) \in Seq(Names) /\ Len(TargetsOf(n)) \in Nat
         /\ DOMAIN TargetsOf(n) = 1..Len(TargetsOf(n))
<1>1. TargetsOf(n) \in Seq(Names)
  BY NodeFacts
<1> QED BY <1>1, LenProperties

\* The image of a finite set under a function is finite.
LEMMA FiniteImage ==
  ASSUME NEW S, IsFiniteSet(S), NEW f, DOMAIN f = S
  PROVE  IsFiniteSet({f[x] : x \in S}) /\ Cardinality({f[x] : x \in S}) <= Cardinality(S)
<1> DEFINE T == {f[x] : x \in S}
           g == [x \in S |-> f[x]]
<1>1. g \in [S -> T] /\ \A t \in T : \E x \in S : g[x] = t
  OBVIOUS
<1>2. g \in Surjection(S, T)
  BY <1>1, Fun_IsSurj
<1> HIDE DEF g, T
<1>3. IsFiniteSet(T) /\ Cardinality(T) <= Cardinality(S)
  BY <1>2, FS_Surjection
<1> QED BY <1>3 DEF T

LEMMA EdgesFinite == GivenInv => IsFiniteSet(Edges(nodes))
<1> SUFFICES ASSUME GivenInv PROVE IsFiniteSet(Edges(nodes))
  OBVIOUS
<1> DEFINE Out(n) == {<<n, i>> : i \in DOMAIN TargetsOf(n)}
           All == [n \in Declared |-> Out(n)]
<1>1. ASSUME NEW n \in Declared PROVE IsFiniteSet(Out(n))
  <2> DEFINE f == [i \in DOMAIN TargetsOf(n) |-> <<n, i>>]
  <2>1. IsFiniteSet(1..Len(TargetsOf(n))) /\ DOMAIN TargetsOf(n) = 1..Len(TargetsOf(n))
    <3>1. Len(TargetsOf(n)) \in Int /\ DOMAIN TargetsOf(n) = 1..Len(TargetsOf(n))
      BY TargetsFacts
    <3> QED BY <3>1, FS_Interval
  <2>2. IsFiniteSet(DOMAIN TargetsOf(n))
    BY <2>1
  <2>3. DOMAIN f = DOMAIN TargetsOf(n) /\ Out(n) = {f[i] : i \in DOMAIN TargetsOf(n)}
    OBVIOUS
  <2> HIDE DEF f, Out
  <2>4. IsFiniteSet({f[i] : i \in DOMAIN TargetsOf(n)})
    BY <2>2, <2>3, FiniteImage
  <2> QED BY <2>3, <2>4
<1>2. IsFiniteSet(Declared)
  BY DEF GivenInv, IsDocument, nodes, Declared
<1>3. DOMAIN All = Declared /\ \A n \in Declared : All[n] = Out(n)
  OBVIOUS
<1> HIDE DEF Out, All
<1>4. IsFiniteSet({All[n] : n \in Declared})
  BY <1>2, <1>3, FiniteImage
<1>5. IsFiniteSet(UNION {All[n] : n \in Declared})
  BY <1>1, <1>3, <1>4, FS_UNION
<1>6. Edges(nodes) = UNION {All[n] : n \in Declared}
  BY <1>3 DEF Out, Edges, TargetsOf, Declared
<1> QED BY <1>5, <1>6

\* An edge is a declared name with one of the positions of its targets.
LEMMA EdgeFacts ==
  /\ \A e \in Edges(nodes) : /\ e = <<e[1], e[2]>> /\ e[1] \in Declared
                             /\ e[2] \in DOMAIN TargetsOf(e[1])
  /\ \A n \in Declared : \A i \in DOMAIN TargetsOf(n) : <<n, i>> \in Edges(nodes)
  /\ \A t : EdgesInto(nodes, t) = {e \in Edges(nodes) : TargetsOf(e[1])[e[2]] = t}
BY DEF Edges, EdgesInto, TargetsOf, Declared

LEMMA EdgesIntoFinite ==
  ASSUME GivenInv, NEW t, NEW R
  PROVE  /\ IsFiniteSet(EdgesInto(nodes, t) \ R)
         /\ Cardinality(EdgesInto(nodes, t) \ R) \in Nat
         /\ Cardinality(EdgesInto(nodes, t) \ R) = 0 <=> EdgesInto(nodes, t) \subseteq R
<1>1. EdgesInto(nodes, t) \ R \in SUBSET Edges(nodes)
  BY EdgeFacts
<1>2. IsFiniteSet(EdgesInto(nodes, t) \ R)
  BY <1>1, EdgesFinite, FS_Subset
<1>3. Cardinality(EdgesInto(nodes, t) \ R) = 0 <=> EdgesInto(nodes, t) \ R = {}
  BY <1>2, FS_EmptySet
<1> QED BY <1>2, <1>3, FS_CardinalityType

\* The elements of a sequence and of what is left when one is taken off.
LEMMA ElementsFacts ==
  ASSUME NEW S, NEW s \in Seq(S)
  PROVE  /\ Elements(s) \subseteq S
         /\ \A t \in Seq(S) : s \o t \in Seq(S) /\ Elements(s \o t) = Elements(s) \cup Elements(t)
         /\ \A x \in S : Append(s, x) \in Seq(S) /\ Elements(Append(s, x)) = Elements(s) \cup {x}
         /\ s # <<>> =>
              /\ SubSeq(s, 1, Len(s) - 1) \in Seq(S)
              /\ s[Len(s)] \in S
              /\ Elements(s) = Elements(SubSeq(s, 1, Len(s) - 1)) \cup {s[Len(s)]}
         /\ s # <<>> =>
              /\ Head(s) \in S /\ Head(s) = s[1] /\ Tail(s) \in Seq(S)
              /\ Elements(s) = Elements(Tail(s)) \cup {Head(s)}
<1>1. Elements(s) \subseteq S
  BY DEF Elements
<1>2. ASSUME NEW t \in Seq(S)
      PROVE  s \o t \in Seq(S) /\ Elements(s \o t) = Elements(s) \cup Elements(t)
  <2>1. /\ s \o t \in Seq(S) /\ Len(s \o t) = Len(s) + Len(t)
        /\ \A i \in 1..Len(s) + Len(t) :
             (s \o t)[i] = IF i <= Len(s) THEN s[i] ELSE t[i - Len(s)]
    BY ConcatProperties
  <2>2. \A i \in 1..Len(s) : (s \o t)[i] = s[i] /\ i \in 1..Len(s) + Len(t)
    BY <2>1
  <2>3. \A i \in 1..Len(t) : (s \o t)[Len(s) + i] = t[i] /\ Len(s) + i \in 1..Len(s) + Len(t)
    BY <2>1
  <2>4. DOMAIN s = 1..Len(s) /\ DOMAIN t = 1..Len(t) /\ DOMAIN (s \o t) = 1..Len(s) + Len(t)
    BY <2>1
  <2>5. Elements(s) \subseteq Elements(s \o t)
    BY <2>2, <2>4 DEF Elements
  <2>6. Elements(t) \subseteq Elements(s \o t)
    BY <2>3, <2>4 DEF Elements
  <2>7. Elements(s \o t) \subseteq Elements(s) \cup Elements(t)
    <3>1. SUFFICES ASSUME NEW i \in 1..Len(s) + Len(t)
                   PROVE  (s \o t)[i] \in Elements(s) \cup Elements(t)
      BY <2>4 DEF Elements
    <3>2. CASE i <= Len(s)
      BY <2>1, <2>4, <3>1, <3>2 DEF Elements
    <3>3. CASE i > Len(s)
      <4>1. i - Len(s) \in 1..Len(t) /\ (s \o t)[i] = t[i - Len(s)]
        BY <2>1, <3>1, <3>3
      <4> QED BY <2>4, <4>1 DEF Elements
    <3> QED BY <3>1, <3>2, <3>3
  <2> QED BY <2>1, <2>5, <2>6, <2>7
<1>3. ASSUME NEW x \in S
      PROVE  Append(s, x) \in Seq(S) /\ Elements(Append(s, x)) = Elements(s) \cup {x}
  <2>1. /\ Append(s, x) \in Seq(S) /\ DOMAIN Append(s, x) = 1..Len(s) + 1
        /\ DOMAIN s = 1..Len(s) /\ Len(s) \in Nat
        /\ \A i \in 1..Len(s) : Append(s, x)[i] = s[i]
        /\ Append(s, x)[Len(s) + 1] = x
    OBVIOUS
  <2> QED BY <2>1 DEF Elements
<1>4. ASSUME s # <<>>
      PROVE  /\ SubSeq(s, 1, Len(s) - 1) \in Seq(S)
             /\ s[Len(s)] \in S
             /\ Elements(s) = Elements(SubSeq(s, 1, Len(s) - 1)) \cup {s[Len(s)]}
  <2>1. Len(s) \in Nat \ {0} /\ DOMAIN s = 1..Len(s) /\ s[Len(s)] \in S
    BY <1>4
  <2> DEFINE r == SubSeq(s, 1, Len(s) - 1)
  <2>2. /\ r \in Seq(S) /\ DOMAIN r = 1..Len(s) - 1
        /\ \A i \in 1..Len(s) - 1 : r[i] = s[i]
    <3>1. \A i \in 1..Len(s) - 1 : s[i] \in S
      BY <2>1
    <3> QED BY <2>1, <3>1
  <2> HIDE DEF r
  <2>3. Elements(s) = Elements(r) \cup {s[Len(s)]}
    BY <2>1, <2>2 DEF Elements
  <2> QED BY <2>1, <2>2, <2>3 DEF r
<1>5. ASSUME s # <<>>
      PROVE  /\ Head(s) \in S /\ Head(s) = s[1] /\ Tail(s) \in Seq(S)
             /\ Elements(s) = Elements(Tail(s)) \cup {Head(s)}
  <2>1. /\ Len(s) \in Nat \ {0} /\ DOMAIN s = 1..Len(s)
        /\ Head(s) \in S /\ Head(s) = s[1] /\ Tail(s) \in Seq(S)
        /\ DOMAIN Tail(s) = 1..Len(s) - 1
        /\ \A i \in 1..Len(s) - 1 : Tail(s)[i] = s[i + 1]
    BY <1>5
  <2>2. Elements(Tail(s)) \subseteq Elements(s) /\ Head(s) \in Elements(s)
    BY <2>1 DEF Elements
  <2>3. ASSUME NEW i \in 1..Len(s) PROVE s[i] \in Elements(Tail(s)) \cup {Head(s)}
    <3>1. CASE i = 1
      BY <2>1, <3>1
    <3>2. CASE i # 1
      <4>1. i - 1 \in 1..Len(s) - 1 /\ (i - 1) + 1 = i
        BY <2>1, <3>2
      <4>2. s[i] = Tail(s)[i - 1] /\ i - 1 \in DOMAIN Tail(s)
        BY <2>1, <4>1
      <4> QED BY <4>2 DEF Elements
    <3> QED BY <3>1, <3>2
  <2>4. Elements(s) \subseteq Elements(Tail(s)) \cup {Head(s)}
    BY <2>1, <2>3 DEF Elements
  <2> QED BY <2>1, <2>2, <2>4
<1> QED BY <1>1, <1>2, <1>3, <1>4, <1>5

-----------------------------------------------------------------------------
(* Parsing and the search *)

\* No step changes the document or the limits.
LEMMA SameDocument ==
  ASSUME UNCHANGED given
  PROVE  /\ nodes' = nodes /\ doc' = doc /\ limits' = limits /\ Declared' = Declared
         /\ ChoiceNames' = ChoiceNames
         /\ \A n : TargetsOf(n)' = TargetsOf(n)
         /\ ParseAccepts' = ParseAccepts /\ Closed' = Closed
         /\ \A S : ClosedUnder(S)' = ClosedUnder(S)
         /\ Connected' = Connected /\ Acyclic' = Acyclic
         /\ GivenInv => GivenInv'
BY DEF given, nodes, Declared, ChoiceNames, TargetsOf, ParseAccepts, ParseNode, Closed,
       ClosedUnder, Connected, Acyclic, GivenInv

LEMMA InitIInv == Init => IInv
<1> SUFFICES ASSUME Init PROVE IInv
  OBVIOUS
<1>1. GivenInv
  <2>1. PICK c \in Calls : doc = c.doc /\ limits = c.limits
    BY DEF Init
  <2> QED BY <2>1, CallsAssumption DEF GivenInv
<1>2. pc = "parse" /\ verdict = "none" /\ StartInv
  BY DEF Init, StartInv
<1> QED BY <1>1, <1>2 DEF IInv, VerdictInv, ReachInv, KahnInv, PostorderInv, CountInv,
                         IndexInv, Ordering, Counting

LEMMA ParseStep == IInv /\ Parse => IInv'
<1> SUFFICES ASSUME IInv, Parse PROVE IInv'
  OBVIOUS
<1>1. /\ pc = "parse" /\ verdict = "none" /\ UNCHANGED <<ordering, tables>>
      /\ \/ ParseAccepts /\ pc' = "targets" /\ verdict' = verdict
         \/ ~ParseAccepts /\ pc' = "rejected" /\ verdict' = "parse"
  BY DEF Parse, Reject, IInv, VerdictInv
<1>2. GivenInv' /\ ParseAccepts' = ParseAccepts
  BY SameDocument DEF Parse, IInv
<1>3. VerdictInv' /\ StartInv'
  BY <1>1, <1>2 DEF IInv, VerdictInv, StartInv, Ordering, Counting, ordering, tables
<1> QED BY <1>1, <1>2, <1>3
        DEF IInv, ReachInv, KahnInv, PostorderInv, CountInv, IndexInv, Ordering, Counting

LEMMA CheckTargetsStep == IInv /\ CheckTargets => IInv'
<1> SUFFICES ASSUME IInv, CheckTargets PROVE IInv'
  OBVIOUS
<1>1. Closed <=> \A n \in Declared : \A i \in DOMAIN TargetsOf(n) : TargetsOf(n)[i] \in Declared
  BY DEF Closed, ClosedUnder, Elements
<1>2. /\ pc = "targets" /\ verdict = "none" /\ ParseAccepts
      /\ UNCHANGED <<given, reachable, indegree, queue, topological, edge, tables>>
      /\ \/ Closed /\ pc' = "reach" /\ pending' = <<doc.root>> /\ verdict' = verdict
         \/ ~Closed /\ pc' = "rejected" /\ verdict' = "missing target"
  BY <1>1 DEF CheckTargets, Reject, IInv, VerdictInv
<1>3. /\ GivenInv' /\ ParseAccepts' = ParseAccepts /\ Closed' = Closed
      /\ Declared' = Declared /\ doc' = doc /\ \A S : ClosedUnder(S)' = ClosedUnder(S)
  BY <1>2, SameDocument DEF IInv
<1>4. VerdictInv' /\ StartInv'
  BY <1>2, <1>3 DEF IInv, VerdictInv, StartInv, Ordering, Counting, tables
<1>5. ReachInv'
  <2>1. SUFFICES ASSUME pc' = "reach" PROVE ReachInv'
    BY DEF ReachInv
  <2>2. pending' = <<doc.root>> /\ doc.root \in Declared /\ reachable' = {}
    BY <1>2, <2>1 DEF ParseAccepts, IInv, StartInv
  <2>3. Elements(pending') = {doc.root} /\ pending' \in Seq(Declared)
    BY <2>2 DEF Elements
  <2>4. Elements(pending)' = Elements(pending')
    BY DEF Elements
  <2> QED BY <1>3, <2>2, <2>3, <2>4 DEF ReachInv
<1> QED BY <1>2, <1>3, <1>4, <1>5
        DEF IInv, KahnInv, PostorderInv, CountInv, IndexInv, Ordering, Counting

LEMMA VisitStep == IInv /\ Visit => IInv'
<1> SUFFICES ASSUME IInv, Visit PROVE IInv'
  OBVIOUS
<1>1. PICK name, rest :
        /\ name = pending[Len(pending)]
        /\ rest = SubSeq(pending, 1, Len(pending) - 1)
        /\ pc = "reach" /\ pending # <<>>
        /\ IF name \in reachable
             THEN pending' = rest /\ UNCHANGED reachable
             ELSE /\ reachable' = reachable \cup {name}
                  /\ pending' = rest \o TargetsOf(name)
  BY DEF Visit
<1>2. UNCHANGED <<given, pc, verdict, indegree, queue, topological, edge, tables>>
  BY DEF Visit
<1>3. /\ GivenInv' /\ ParseAccepts' = ParseAccepts /\ Closed' = Closed /\ doc' = doc
      /\ Declared' = Declared /\ \A S : ClosedUnder(S)' = ClosedUnder(S)
      /\ \A n : TargetsOf(n)' = TargetsOf(n)
  BY <1>2, SameDocument DEF IInv
<1>4. VerdictInv' /\ StartInv'
  BY <1>1, <1>2, <1>3 DEF IInv, VerdictInv, StartInv, Ordering, Counting, tables
<1>5. /\ Closed /\ GivenInv /\ reachable \subseteq Declared /\ pending \in Seq(Declared)
      /\ \A S \in SUBSET Declared :
           doc.root \in S /\ ClosedUnder(S) => reachable \cup Elements(pending) \subseteq S
      /\ doc.root \in reachable \cup Elements(pending)
      /\ \A n \in reachable : Elements(TargetsOf(n)) \subseteq reachable \cup Elements(pending)
  BY <1>1 DEF IInv, VerdictInv, ReachInv
<1>6. /\ rest \in Seq(Declared) /\ name \in Declared
      /\ Elements(pending) = Elements(rest) \cup {name}
  BY <1>1, <1>5, ElementsFacts
<1>7. /\ pending' \in Seq(Declared) /\ reachable' = reachable \cup {name}
      /\ \/ name \in reachable /\ Elements(pending') = Elements(rest)
         \/ Elements(pending') = Elements(rest) \cup Elements(TargetsOf(name))
  <2>1. CASE name \in reachable
    BY <1>1, <1>6, <2>1
  <2>2. CASE name \notin reachable
    <3>1. TargetsOf(name) \in Seq(Declared)
      <4>1. TargetsOf(name) \in Seq(Names) /\ Elements(TargetsOf(name)) \subseteq Declared
        BY <1>5, <1>6, NodeFacts DEF Closed, ClosedUnder
      <4> QED BY <4>1 DEF Elements
    <3>2. \A t \in Seq(Declared) :
            rest \o t \in Seq(Declared) /\ Elements(rest \o t) = Elements(rest) \cup Elements(t)
      BY <1>6, ElementsFacts
    <3>3. pending' = rest \o TargetsOf(name) /\ reachable' = reachable \cup {name}
      BY <1>1, <2>2
    <3> QED BY <3>1, <3>2, <3>3
  <2> QED BY <2>1, <2>2
<1>8. Elements(pending)' = Elements(pending')
  BY DEF Elements
<1>9. ReachInv'
  <2>1. ASSUME NEW S \in SUBSET Declared, doc.root \in S, ClosedUnder(S)
        PROVE  reachable' \cup Elements(pending') \subseteq S
    <3>1. reachable \cup Elements(rest) \cup {name} \subseteq S
      BY <1>5, <1>6, <2>1
    <3>2. Elements(TargetsOf(name)) \subseteq S
      BY <2>1, <3>1 DEF ClosedUnder
    <3> QED BY <1>7, <3>1, <3>2
  <2>2. doc.root \in reachable' \cup Elements(pending')
    BY <1>5, <1>6, <1>7
  <2>3. ASSUME NEW n \in reachable'
        PROVE  Elements(TargetsOf(n)) \subseteq reachable' \cup Elements(pending')
    <3>1. CASE n \in reachable
      BY <1>5, <1>6, <1>7, <3>1
    <3>2. CASE n \notin reachable
      BY <1>7, <2>3, <3>2
    <3> QED BY <3>1, <3>2
  <2>4. reachable' \subseteq Declared
    BY <1>5, <1>6, <1>7
  <2> QED BY <1>3, <1>7, <1>8, <2>1, <2>2, <2>3, <2>4 DEF ReachInv
<1> QED BY <1>1, <1>2, <1>3, <1>4, <1>9
        DEF IInv, KahnInv, PostorderInv, CountInv, IndexInv, Ordering, Counting

\* A list of as many distinct members as a finite set has holds them all.
LEMMA FullList ==
  ASSUME NEW S, IsFiniteSet(S), NEW q \in [1..Cardinality(S) -> S],
         \A i, j \in DOMAIN q : q[i] = q[j] => i = j
  PROVE  q \in Seq(S) /\ Len(q) = Cardinality(S) /\ Elements(q) = S
<1>1. Cardinality(S) \in Nat
  BY FS_CardinalityType
<1>2. q \in Seq(S) /\ Len(q) = Cardinality(S)
  BY <1>1, SeqOfFunction
<1>3. q \in Injection(1..Cardinality(S), S)
  BY Fun_IsInj
<1>4. Cardinality(1..Cardinality(S)) = Cardinality(S)
  <2>1. 1 \in Int /\ Cardinality(S) \in Int
    BY <1>1
  <2>2. Cardinality(1..Cardinality(S))
          = IF 1 > Cardinality(S) THEN 0 ELSE Cardinality(S) - 1 + 1
    BY <2>1, FS_Interval
  <2> QED BY <1>1, <2>2
<1>5. q \in Surjection(1..Cardinality(S), S)
  BY <1>3, <1>4, FS_Injection
<1>6. \A x \in S : \E i \in 1..Cardinality(S) : q[i] = x
  BY <1>5 DEF Surjection
<1> QED BY <1>2, <1>6 DEF Elements

\* The queue that Kahn's algorithm starts with.
LEMMA StartKahnFacts ==
  ASSUME GivenInv, UNCHANGED given, reachable = Declared, topological = <<>>, StartKahn,
         UNCHANGED <<reachable, topological>>
  PROVE  /\ DOMAIN indegree' = Declared
         /\ \A n \in Declared : indegree'[n] = Cardinality(EdgesInto(nodes, n))
         /\ queue' \in Seq(Declared)
         /\ Elements(queue') = {n \in Declared : indegree'[n] = 0}
         /\ \A i, j \in DOMAIN queue' : queue'[i] = queue'[j] => i = j
<1> DEFINE sources == {n \in Declared : Cardinality(EdgesInto(nodes, n)) = 0}
<1>1. indegree' = [n \in Declared |-> Cardinality(EdgesInto(nodes, n))]
  BY DEF StartKahn
<1>2. {n \in Declared : indegree'[n] = 0} = sources
  BY <1>1
<1>3. PICK q \in [1..Cardinality(sources) -> sources] :
        /\ \A i, j \in DOMAIN q : q[i] = q[j] => i = j
        /\ queue' = q
  <2> DEFINE degree == [n \in reachable |-> Cardinality(EdgesInto(nodes, n))]
             first == {n \in reachable : degree[n] = 0}
  <2>1. \E q \in [1..Cardinality(first) -> first] :
          /\ \A i, j \in DOMAIN q : q[i] = q[j] => i = j
          /\ queue' = q
    BY Zenon DEF StartKahn
  <2>2. first = sources
    OBVIOUS
  <2> HIDE DEF first, sources
  <2> QED BY <2>1, <2>2
<1>4. IsFiniteSet(sources)
  <2>1. IsFiniteSet(Declared) /\ sources \in SUBSET Declared
    BY DEF GivenInv, IsDocument, Declared, nodes
  <2> QED BY <2>1, FS_Subset
<1>5. sources \subseteq Declared
  OBVIOUS
<1> HIDE DEF sources
<1>6. queue' \in Seq(sources) /\ Elements(queue') = sources
  BY <1>3, <1>4, FullList
<1>7. queue' \in Seq(Declared)
  BY <1>5, <1>6, SeqMonotonic
<1>8. \A i, j \in DOMAIN queue' : queue'[i] = queue'[j] => i = j
  BY <1>3
<1>9. DOMAIN indegree' = Declared
      /\ \A n \in Declared : indegree'[n] = Cardinality(EdgesInto(nodes, n))
  BY <1>1
<1> QED BY <1>2, <1>6, <1>7, <1>8, <1>9, Zenon

LEMMA CheckReachableStep == IInv /\ CheckReachable => IInv'
<1> SUFFICES ASSUME IInv, CheckReachable PROVE IInv'
  OBVIOUS
<1>1. /\ pc = "reach" /\ pending = <<>> /\ verdict = "none" /\ ParseAccepts /\ Closed
      /\ topological = <<>> /\ edge = 1
      /\ UNCHANGED <<given, pending, reachable, topological, edge, tables>>
      /\ \/ /\ Declared \ reachable # {}
            /\ pc' = "rejected" /\ verdict' = "unreachable"
         \/ /\ Declared \ reachable = {}
            /\ StartKahn /\ pc' = "kahn" /\ verdict' = verdict
  BY DEF CheckReachable, Reject, StartKahn, IInv, VerdictInv, StartInv
<1>2. /\ GivenInv' /\ ParseAccepts' = ParseAccepts /\ Closed' = Closed /\ doc' = doc
      /\ nodes' = nodes /\ Declared' = Declared /\ Connected' = Connected
  BY <1>1, SameDocument DEF IInv
<1>3. /\ reachable \subseteq Declared /\ doc.root \in reachable /\ ClosedUnder(reachable)
      /\ \A S \in SUBSET Declared : doc.root \in S /\ ClosedUnder(S) => reachable \subseteq S
  <2>1. Elements(pending) = {}
    BY <1>1 DEF Elements
  <2> QED BY <1>1, <2>1 DEF IInv, ReachInv, ClosedUnder
<1>4. Connected <=> Declared \ reachable = {}
  <2>1. ASSUME Declared \ reachable # {} PROVE ~Connected
    BY <1>3, <2>1 DEF Connected
  <2>2. ASSUME Declared \ reachable = {} PROVE Connected
    BY <1>3, <2>2 DEF Connected
  <2> QED BY <2>1, <2>2
<1>5. VerdictInv' /\ StartInv'
  BY <1>1, <1>2, <1>4 DEF IInv, VerdictInv, StartInv, Ordering, Counting, tables
<1>6. KahnInv'
  <2>1. SUFFICES ASSUME pc' = "kahn" PROVE KahnInv'
    BY DEF KahnInv
  <2>2. reachable = Declared /\ reachable' = Declared
    BY <1>1, <1>3, <2>1
  <2>3. topological' = <<>> /\ edge' = 1 /\ DOMAIN topological' = {}
    BY <1>1
  <2>4. Taken' = {}
    BY <2>3 DEF Taken, Elements
  <2>5. Released' = {}
    BY <2>4 DEF Released
  <2>6. /\ DOMAIN indegree' = Declared
        /\ \A n \in Declared : indegree'[n] = Cardinality(EdgesInto(nodes, n))
        /\ queue' \in Seq(Declared)
        /\ Elements(queue') = {n \in Declared : indegree'[n] = 0}
        /\ \A i, j \in DOMAIN queue' : queue'[i] = queue'[j] => i = j
    BY <1>1, <2>1, <2>2, StartKahnFacts DEF IInv
  <2>7. Elements(queue)' = Elements(queue')
    BY DEF Elements
  <2>8. \A n \in Declared : EdgesInto(nodes, n) \ Released' = EdgesInto(nodes, n)
    BY <2>5
  <2>9. \A n \in Declared :
          /\ indegree'[n] = Cardinality(EdgesInto(nodes, n) \ Released')
          /\ indegree'[n] = 0 <=> n \in Taken' \cup Elements(queue')
    BY <2>4, <2>6, <2>8
  <2>10. topological' \in Seq(Declared)
    BY <2>3
  <2> QED BY <1>2, <2>2, <2>3, <2>4, <2>6, <2>7, <2>9, <2>10 DEF KahnInv
<1> QED BY <1>1, <1>2, <1>5, <1>6
        DEF IInv, ReachInv, PostorderInv, CountInv, IndexInv, Ordering, Counting

-----------------------------------------------------------------------------
(* Kahn's algorithm *)

\* When the inner loop has ended, no edge of a name taken is left.
LEMMA AllReleased ==
  ASSUME IInv, pc = "kahn", EdgesDone
  PROVE  Released = {e \in Edges(nodes) : e[1] \in Taken}
<1>1. SUFFICES ASSUME NEW e \in Edges(nodes), e[1] \in Taken, e[1] = LastTaken
               PROVE  e[2] < edge
  BY DEF Released
<1>2. topological # <<>>
  BY <1>1 DEF Taken, Elements
<1>3. edge > Len(TargetsOf(LastTaken)) /\ edge \in Nat
  BY <1>2 DEF EdgesDone, IInv, KahnInv
<1>4. e[1] \in Declared /\ e[2] \in DOMAIN TargetsOf(e[1])
  BY EdgeFacts
<1>5. e[2] \in 1..Len(TargetsOf(LastTaken)) /\ Len(TargetsOf(LastTaken)) \in Nat
  BY <1>1, <1>4, TargetsFacts DEF IInv
<1> QED BY <1>3, <1>5

LEMMA TakeReadyStep == IInv /\ TakeReady => IInv'
<1> SUFFICES ASSUME IInv, TakeReady PROVE IInv'
  OBVIOUS
<1>1. PICK x : x = Head(queue)
  OBVIOUS
<1>2. /\ pc = "kahn" /\ EdgesDone /\ queue # <<>>
      /\ topological' = Append(topological, x) /\ queue' = Tail(queue) /\ edge' = 1
      /\ UNCHANGED <<given, pc, verdict, pending, reachable, indegree, tables>>
  BY <1>1 DEF TakeReady
<1>3. /\ GivenInv' /\ ParseAccepts' = ParseAccepts /\ Closed' = Closed /\ doc' = doc
      /\ nodes' = nodes /\ Declared' = Declared /\ Connected' = Connected
  BY <1>2, SameDocument DEF IInv
<1>4. VerdictInv' /\ StartInv'
  BY <1>2, <1>3 DEF IInv, VerdictInv, StartInv, Ordering, Counting, tables
<1>5. /\ reachable = Declared
      /\ topological \in Seq(Declared) /\ queue \in Seq(Declared)
      /\ DOMAIN indegree = Declared
      /\ \A n \in Declared :
           /\ indegree[n] = Cardinality(EdgesInto(nodes, n) \ Released)
           /\ indegree[n] = 0 <=> n \in Taken \cup Elements(queue)
      /\ \A i, j \in DOMAIN topological : topological[i] = topological[j] => i = j
      /\ \A i, j \in DOMAIN queue : queue[i] = queue[j] => i = j
      /\ Taken \cap Elements(queue) = {}
      /\ \A j \in DOMAIN topological : \A e \in EdgesInto(nodes, topological[j]) :
           \E i \in DOMAIN topological : i < j /\ topological[i] = e[1]
  BY <1>2 DEF IInv, KahnInv
<1>6. /\ x \in Declared /\ x = queue[1] /\ queue' \in Seq(Declared)
      /\ Elements(queue) = Elements(queue') \cup {x}
  BY <1>1, <1>2, <1>5, ElementsFacts
<1>7. /\ DOMAIN queue = 1..Len(queue) /\ DOMAIN queue' = 1..Len(queue) - 1
      /\ Len(queue) \in Nat \ {0}
      /\ \A i \in 1..Len(queue) - 1 : queue'[i] = queue[i + 1]
  BY <1>2, <1>5
<1>8. x \notin Elements(queue') /\ \A i, j \in DOMAIN queue' : queue'[i] = queue'[j] => i = j
  <2>1. \A i \in 1..Len(queue) - 1 : i + 1 \in 1..Len(queue) /\ 1 \in 1..Len(queue)
    BY <1>7
  <2>2. ASSUME NEW i \in 1..Len(queue) - 1 PROVE queue'[i] # x
    BY <1>5, <1>6, <1>7, <2>1
  <2>3. ASSUME NEW i \in 1..Len(queue) - 1, NEW j \in 1..Len(queue) - 1, queue'[i] = queue'[j]
        PROVE  i = j
    <3>1. i + 1 = j + 1
      BY <1>5, <1>7, <2>1, <2>3
    <3> QED BY <3>1
  <2> QED BY <1>7, <2>2, <2>3 DEF Elements
<1>9. /\ topological' \in Seq(Declared)
      /\ Elements(topological') = Taken \cup {x}
      /\ DOMAIN topological' = 1..Len(topological) + 1 /\ Len(topological) \in Nat
      /\ DOMAIN topological = 1..Len(topological) /\ Len(topological') = Len(topological) + 1
      /\ \A i \in 1..Len(topological) : topological'[i] = topological[i]
      /\ topological'[Len(topological) + 1] = x
  BY <1>2, <1>5, <1>6, ElementsFacts DEF Taken
<1>10. Taken' = Taken \cup {x} /\ LastTaken' = x /\ Elements(queue)' = Elements(queue')
  BY <1>9 DEF Taken, Elements, LastTaken
<1>11. x \notin Taken /\ EdgesInto(nodes, x) \subseteq Released
  <2>1. x \in Elements(queue)
    BY <1>6
  <2>2. Cardinality(EdgesInto(nodes, x) \ Released) = 0
    BY <1>5, <1>6, <2>1
  <2> QED BY <1>5, <2>1, <2>2, EdgesIntoFinite DEF IInv
<1>12. Released = {e \in Edges(nodes) : e[1] \in Taken}
  BY <1>2, AllReleased
<1>13. Released' = Released
  <2>1. Released'
          = {e \in Edges(nodes) : e[1] \in Taken \cup {x} /\ (e[1] = x => e[2] < 1)}
    BY <1>2, <1>3, <1>10 DEF Released
  <2>2. \A e \in Edges(nodes) : e[1] = x => ~ (e[2] < 1)
    <3>1. SUFFICES ASSUME NEW e \in Edges(nodes) PROVE ~ (e[2] < 1)
      OBVIOUS
    <3>2. e[2] \in 1..Len(TargetsOf(e[1])) /\ Len(TargetsOf(e[1])) \in Nat
      BY EdgeFacts, TargetsFacts DEF IInv
    <3> QED BY <3>2
  <2> QED BY <1>11, <1>12, <2>1, <2>2
<1>14. \A i, j \in DOMAIN topological' : topological'[i] = topological'[j] => i = j
  <2>1. \A i \in 1..Len(topological) : topological[i] # x
    BY <1>9, <1>11 DEF Taken, Elements
  <2> QED BY <1>5, <1>9, <2>1
<1>15. \A j \in DOMAIN topological' : \A e \in EdgesInto(nodes, topological'[j]) :
         \E i \in DOMAIN topological' : i < j /\ topological'[i] = e[1]
  <2>1. SUFFICES ASSUME NEW j \in DOMAIN topological', NEW e \in EdgesInto(nodes, topological'[j])
                 PROVE  \E i \in DOMAIN topological' : i < j /\ topological'[i] = e[1]
    OBVIOUS
  <2>2. CASE j \in DOMAIN topological
    <3>1. PICK i \in DOMAIN topological : i < j /\ topological[i] = e[1]
      BY <1>5, <1>9, <2>1, <2>2
    <3> QED BY <1>9, <3>1
  <2>3. CASE j = Len(topological) + 1
    <3>1. e[1] \in Taken
      BY <1>9, <1>11, <1>12, <2>3
    <3>2. PICK i \in DOMAIN topological : topological[i] = e[1]
      BY <3>1 DEF Taken, Elements
    <3> QED BY <1>9, <2>3, <3>2
  <2> QED BY <1>9, <2>2, <2>3
<1>16. KahnInv'
  <2>1. Taken' \cup Elements(queue') = Taken \cup Elements(queue)
    BY <1>6, <1>10
  <2>2. Taken' \cap Elements(queue') = {}
    BY <1>5, <1>6, <1>8, <1>10
  <2>3. \A n \in Declared :
          /\ indegree'[n] = Cardinality(EdgesInto(nodes, n) \ Released')
          /\ indegree'[n] = 0 <=> n \in Taken' \cup Elements(queue')
    BY <1>2, <1>5, <1>13, <2>1
  <2>4. /\ reachable' = Declared /\ edge' \in Nat \ {0} /\ DOMAIN indegree' = Declared
    BY <1>2, <1>5
  <2> QED BY <1>3, <1>6, <1>8, <1>9, <1>10, <1>14, <1>15, <2>2, <2>3, <2>4 DEF KahnInv
<1> QED BY <1>2, <1>3, <1>4, <1>16
        DEF IInv, ReachInv, PostorderInv, CountInv, IndexInv, Ordering, Counting

LEMMA ReleaseEdgeStep == IInv /\ ReleaseEdge => IInv'
<1> SUFFICES ASSUME IInv, ReleaseEdge PROVE IInv'
  OBVIOUS
<1>1. PICK y, t : y = LastTaken /\ t = TargetsOf(LastTaken)[edge]
  OBVIOUS
<1>2. /\ pc = "kahn" /\ ~EdgesDone
      /\ indegree' = [indegree EXCEPT ![t] = @ - 1]
      /\ queue' = IF indegree[t] - 1 = 0 THEN Append(queue, t) ELSE queue
      /\ edge' = edge + 1
      /\ UNCHANGED <<given, pc, verdict, pending, reachable, topological, tables>>
  BY <1>1 DEF ReleaseEdge
<1>3. /\ GivenInv' /\ ParseAccepts' = ParseAccepts /\ Closed' = Closed /\ doc' = doc
      /\ nodes' = nodes /\ Declared' = Declared /\ Connected' = Connected
  BY <1>2, SameDocument DEF IInv
<1>4. VerdictInv' /\ StartInv'
  BY <1>2, <1>3 DEF IInv, VerdictInv, StartInv, Ordering, Counting, tables
<1>5. /\ reachable = Declared
      /\ topological \in Seq(Declared) /\ queue \in Seq(Declared)
      /\ edge \in Nat \ {0}
      /\ DOMAIN indegree = Declared
      /\ \A n \in Declared :
           /\ indegree[n] = Cardinality(EdgesInto(nodes, n) \ Released)
           /\ indegree[n] = 0 <=> n \in Taken \cup Elements(queue)
      /\ \A i, j \in DOMAIN topological : topological[i] = topological[j] => i = j
      /\ \A i, j \in DOMAIN queue : queue[i] = queue[j] => i = j
      /\ Taken \cap Elements(queue) = {}
      /\ \A j \in DOMAIN topological : \A e \in EdgesInto(nodes, topological[j]) :
           \E i \in DOMAIN topological : i < j /\ topological[i] = e[1]
      /\ Closed
  BY <1>2 DEF IInv, KahnInv, VerdictInv, Ordering
<1>6. Taken' = Taken /\ LastTaken' = y /\ Elements(queue)' = Elements(queue')
  BY <1>1, <1>2 DEF Taken, Elements, LastTaken
<1>7. y \in Declared /\ y \in Taken /\ edge \in DOMAIN TargetsOf(y) /\ t \in Declared
  <2>1. topological # <<>> /\ ~ (edge > Len(TargetsOf(y)))
    BY <1>1, <1>2 DEF EdgesDone
  <2>2. y = topological[Len(topological)] /\ Len(topological) \in DOMAIN topological
    BY <1>1, <1>5, <2>1 DEF LastTaken
  <2>3. y \in Declared /\ y \in Taken
    BY <1>5, <2>2 DEF Taken, Elements
  <2>4. Len(TargetsOf(y)) \in Nat /\ DOMAIN TargetsOf(y) = 1..Len(TargetsOf(y))
    BY <2>3, TargetsFacts DEF IInv
  <2>5. edge \in DOMAIN TargetsOf(y)
    BY <1>5, <2>1, <2>4
  <2>6. t \in Declared
    BY <1>1, <1>5, <2>3, <2>5 DEF Closed, ClosedUnder, Elements
  <2> QED BY <2>3, <2>5, <2>6
<1>8. PICK e0 : e0 = <<y, edge>>
  OBVIOUS
<1>9. e0 \in Edges(nodes) /\ e0[1] = y /\ e0[2] = edge /\ e0 \in EdgesInto(nodes, t)
      /\ \A n : e0 \in EdgesInto(nodes, n) => n = t
  <2>1. e0 \in Edges(nodes) /\ e0[1] = y /\ e0[2] = edge
    BY <1>7, <1>8, EdgeFacts
  <2> QED BY <1>1, <2>1, EdgeFacts
<1>10. e0 \notin Released
  BY <1>1, <1>5, <1>9 DEF Released
<1>11. Released' = Released \cup {e0}
  <2>1. Released = {e \in Edges(nodes) : e[1] \in Taken /\ (e[1] = y => e[2] < edge)}
    BY <1>1 DEF Released
  <2>2. Released' = {e \in Edges(nodes) : e[1] \in Taken /\ (e[1] = y => e[2] < edge + 1)}
    BY <1>2, <1>3, <1>6 DEF Released
  <2>3. ASSUME NEW e \in Edges(nodes), e[1] = y
        PROVE  e[2] < edge + 1 <=> e[2] < edge \/ e = e0
    <3>1. e[2] \in Nat
      <4>1. e[2] \in DOMAIN TargetsOf(e[1]) /\ e[1] \in Declared
        BY EdgeFacts
      <4> QED BY <4>1, TargetsFacts DEF IInv
    <3>2. e[2] < edge + 1 <=> e[2] < edge \/ e[2] = edge
      BY <1>5, <3>1
    <3>3. e = <<e[1], e[2]>>
      BY EdgeFacts
    <3> QED BY <1>8, <1>9, <2>3, <3>2, <3>3
  <2>4. e0 \in {e \in Edges(nodes) : e[1] \in Taken /\ (e[1] = y => e[2] < edge + 1)}
    BY <1>5, <1>7, <1>9
  <2> QED BY <1>9, <2>1, <2>2, <2>3, <2>4
<1>12. \A n \in Declared \ {t} : indegree'[n] = Cardinality(EdgesInto(nodes, n) \ Released')
  <2>1. SUFFICES ASSUME NEW n \in Declared \ {t}
                 PROVE  indegree'[n] = Cardinality(EdgesInto(nodes, n) \ Released')
    OBVIOUS
  <2>2. EdgesInto(nodes, n) \ Released' = EdgesInto(nodes, n) \ Released
    BY <1>9, <1>11
  <2>3. indegree'[n] = indegree[n]
    BY <1>2, <1>5
  <2> QED BY <1>5, <2>2, <2>3
<1>13. /\ indegree'[t] = Cardinality(EdgesInto(nodes, t) \ Released')
       /\ indegree'[t] = indegree[t] - 1 /\ indegree[t] \in Nat \ {0}
  <2>1. EdgesInto(nodes, t) \ Released' = (EdgesInto(nodes, t) \ Released) \ {e0}
    BY <1>11
  <2>2. /\ IsFiniteSet(EdgesInto(nodes, t) \ Released)
        /\ Cardinality(EdgesInto(nodes, t) \ Released) \in Nat
        /\ Cardinality(EdgesInto(nodes, t) \ Released) = 0
             <=> EdgesInto(nodes, t) \subseteq Released
    BY EdgesIntoFinite DEF IInv
  <2>3. e0 \in EdgesInto(nodes, t) \ Released
    BY <1>9, <1>10
  <2>4. Cardinality((EdgesInto(nodes, t) \ Released) \ {e0})
          = Cardinality(EdgesInto(nodes, t) \ Released) - 1
    BY <2>2, <2>3, FS_RemoveElement
  <2>5. indegree'[t] = indegree[t] - 1
    BY <1>2, <1>5, <1>7
  <2>6. indegree[t] = Cardinality(EdgesInto(nodes, t) \ Released) /\ indegree[t] # 0
    BY <1>5, <1>7, <2>2, <2>3
  <2> QED BY <2>1, <2>2, <2>4, <2>5, <2>6
<1>14. t \notin Taken /\ t \notin Elements(queue)
  BY <1>5, <1>7, <1>13
<1>15. /\ queue' \in Seq(Declared)
       /\ Elements(queue') = IF indegree'[t] = 0 THEN Elements(queue) \cup {t} ELSE Elements(queue)
       /\ \A i, j \in DOMAIN queue' : queue'[i] = queue'[j] => i = j
  <2>1. CASE indegree'[t] = 0
    <3>1. queue' = Append(queue, t)
      BY <1>2, <1>13, <2>1
    <3>2. queue' \in Seq(Declared) /\ Elements(queue') = Elements(queue) \cup {t}
      BY <1>5, <1>7, <3>1, ElementsFacts
    <3>3. /\ DOMAIN queue' = 1..Len(queue) + 1 /\ DOMAIN queue = 1..Len(queue)
          /\ Len(queue) \in Nat
          /\ \A i \in 1..Len(queue) : queue'[i] = queue[i]
          /\ queue'[Len(queue) + 1] = t
      BY <1>5, <1>7, <3>1
    <3>4. \A i \in 1..Len(queue) : queue[i] # t
      BY <1>14, <3>3 DEF Elements
    <3> QED BY <1>5, <2>1, <3>2, <3>3, <3>4
  <2>2. CASE indegree'[t] # 0
    BY <1>2, <1>5, <1>13, <2>2
  <2> QED BY <2>1, <2>2
<1>16. KahnInv'
  <2>1. \A n \in Declared : indegree'[n] = Cardinality(EdgesInto(nodes, n) \ Released')
    BY <1>12, <1>13
  <2>2. \A n \in Declared : indegree'[n] = 0 <=> n \in Taken' \cup Elements(queue')
    <3>1. \A n \in Declared \ {t} : indegree'[n] = indegree[n]
      BY <1>2, <1>5
    <3>2. \A n \in Declared \ {t} : n \in Elements(queue') <=> n \in Elements(queue)
      BY <1>15
    <3>3. \A n \in Declared \ {t} : indegree'[n] = 0 <=> n \in Taken' \cup Elements(queue')
      BY <1>5, <1>6, <3>1, <3>2
    <3>4. indegree'[t] = 0 <=> t \in Taken' \cup Elements(queue')
      BY <1>6, <1>14, <1>15
    <3> QED BY <3>3, <3>4
  <2>3. Taken' \cap Elements(queue') = {}
    BY <1>5, <1>6, <1>14, <1>15
  <2>4. /\ reachable' = Declared /\ edge' \in Nat \ {0} /\ DOMAIN indegree' = Declared
        /\ topological' = topological
    BY <1>2, <1>5
  <2> QED BY <1>3, <1>5, <1>6, <1>15, <2>1, <2>2, <2>3, <2>4 DEF KahnInv
<1> QED BY <1>2, <1>3, <1>4, <1>16
        DEF IInv, ReachInv, PostorderInv, CountInv, IndexInv, Ordering, Counting

\* Kahn's algorithm has stopped: the names taken are all there are exactly when
\* their number is.
LEMMA TakenAll ==
  ASSUME IInv, pc = "kahn"
  PROVE  Len(topological) = Cardinality(Declared) <=> Taken = Declared
<1>1. /\ topological \in Seq(Declared) /\ Len(topological) \in Nat
      /\ DOMAIN topological = 1..Len(topological)
      /\ \A i, j \in DOMAIN topological : topological[i] = topological[j] => i = j
      /\ IsFiniteSet(Declared)
  BY DEF IInv, KahnInv, GivenInv, IsDocument, Declared, nodes
<1>2. topological \in [1..Len(topological) -> Declared]
  BY <1>1
<1>3. ASSUME Len(topological) = Cardinality(Declared) PROVE Taken = Declared
  BY <1>1, <1>2, <1>3, FullList DEF Taken
<1>4. ASSUME Taken = Declared PROVE Len(topological) = Cardinality(Declared)
  <2>1. \A n \in Declared : \E i \in 1..Len(topological) : topological[i] = n
    BY <1>1, <1>4 DEF Taken, Elements
  <2>2. topological \in Surjection(1..Len(topological), Declared)
    BY <1>2, <2>1, Fun_IsSurj
  <2>3. topological \in Injection(1..Len(topological), Declared)
    BY <1>1, <1>2, Fun_IsInj
  <2>4. ExistsBijection(1..Len(topological), Declared)
    BY <2>2, <2>3 DEF ExistsBijection, Bijection
  <2> QED BY <1>1, <2>4, FS_CountingElements
<1> QED BY <1>3, <1>4

\* A list in which every name comes after the sources of its edges shows that
\* no names follow each other in a circle.
LEMMA OrderedIsAcyclic ==
  ASSUME IInv, pc = "kahn", Taken = Declared
  PROVE  Acyclic
<1>1. SUFFICES ASSUME NEW S \in SUBSET Declared, S # {}
               PROVE  \E n \in S : \A m \in S : n \notin Elements(TargetsOf(m))
  BY DEF Acyclic
<1> DEFINE I == {i \in DOMAIN topological : topological[i] \in S}
<1>2. I \subseteq Nat /\ I # {}
  <2>1. DOMAIN topological \subseteq Nat
    BY DEF IInv, KahnInv
  <2>2. PICK n \in S : TRUE
    BY <1>1
  <2>3. n \in Taken
    BY <1>1
  <2> QED BY <2>1, <2>2, <2>3 DEF Taken, Elements
<1>3. PICK i \in I : \A k \in I : i <= k
  BY <1>2, LeastNat
<1>4. ASSUME NEW m \in S, topological[i] \in Elements(TargetsOf(m)) PROVE FALSE
  <2>1. PICK j \in DOMAIN TargetsOf(m) : TargetsOf(m)[j] = topological[i]
    BY <1>4 DEF Elements
  <2>2. m \in Declared
    OBVIOUS
  <2>3. <<m, j>> \in Edges(nodes)
    BY <2>1, <2>2, EdgeFacts
  <2>4. <<m, j>> \in EdgesInto(nodes, topological[i])
    BY <2>1, <2>3, EdgeFacts
  <2>5. PICK k \in DOMAIN topological : k < i /\ topological[k] = m
    BY <1>3, <2>4 DEF IInv, KahnInv
  <2>6. k \in I
    BY <1>4, <2>5
  <2> QED BY <1>2, <1>3, <2>5, <2>6
<1> QED BY <1>3, <1>4

\* Where it stops short, each of the names left has an edge from another of them.
LEMMA LeftIsCyclic ==
  ASSUME IInv, pc = "kahn", EdgesDone, queue = <<>>, Taken # Declared
  PROVE  ~Acyclic
<1> DEFINE S == Declared \ Taken
<1>1. S # {} /\ S \in SUBSET Declared
  <2>1. Taken \subseteq Declared
    BY DEF Taken, Elements, IInv, KahnInv
  <2> QED BY <2>1
<1>2. ASSUME NEW n \in S PROVE \E m \in S : n \in Elements(TargetsOf(m))
  <2>1. Elements(queue) = {}
    BY DEF Elements
  <2>2. Cardinality(EdgesInto(nodes, n) \ Released) # 0
    BY <2>1 DEF IInv, KahnInv
  <2>3. ~ (EdgesInto(nodes, n) \subseteq Released)
    BY <2>2, EdgesIntoFinite DEF IInv
  <2>4. PICK e \in EdgesInto(nodes, n) : e \notin Released
    BY <2>3
  <2>5. e \in Edges(nodes) /\ TargetsOf(e[1])[e[2]] = n
    BY EdgeFacts
  <2>6. e[1] \in Declared /\ e[2] \in DOMAIN TargetsOf(e[1]) /\ e[1] \notin Taken
    BY <2>4, <2>5, AllReleased, EdgeFacts
  <2> QED BY <2>5, <2>6 DEF Elements
<1> HIDE DEF S
<1> QED BY <1>1, <1>2 DEF Acyclic

LEMMA FinishOrderStep == IInv /\ FinishOrder => IInv'
<1> SUFFICES ASSUME IInv, FinishOrder PROVE IInv'
  OBVIOUS
<1>1. /\ pc = "kahn" /\ EdgesDone /\ queue = <<>> /\ reachable = Declared /\ verdict = "none"
      /\ ParseAccepts /\ Closed /\ Connected
      /\ UNCHANGED <<given, ordering, position, counts, depths, offsets, ends>>
      /\ \/ /\ Len(topological) # Cardinality(Declared)
            /\ pc' = "rejected" /\ verdict' = "cycle"
         \/ /\ Len(topological) = Cardinality(Declared)
            /\ postorder' = Reversed(topological) /\ pc' = "count" /\ verdict' = verdict
  <2>1. pc = "kahn" /\ FinishOrder /\ reachable = Declared /\ verdict = "none"
        /\ ParseAccepts /\ Closed /\ Connected
    BY DEF FinishOrder, IInv, KahnInv, VerdictInv, Ordering
  <2> QED BY <2>1 DEF FinishOrder, Reject
<1>2. /\ GivenInv' /\ ParseAccepts' = ParseAccepts /\ Closed' = Closed /\ doc' = doc
      /\ nodes' = nodes /\ Declared' = Declared /\ Connected' = Connected /\ Acyclic' = Acyclic
      /\ \A n : TargetsOf(n)' = TargetsOf(n)
  BY <1>1, SameDocument DEF IInv
<1>3. Acyclic <=> Len(topological) = Cardinality(Declared)
  BY <1>1, TakenAll, OrderedIsAcyclic, LeftIsCyclic
<1>4. VerdictInv' /\ StartInv'
  BY <1>1, <1>2, <1>3 DEF IInv, VerdictInv, StartInv, Ordering, Counting
<1>5. ASSUME pc' = "count" PROVE PostorderInv' /\ CountInv'
  <2>1. Taken = Declared /\ postorder' = Reversed(topological)
    BY <1>1, <1>5, TakenAll
  <2>2. PICK len \in Nat : len = Len(topological) /\ DOMAIN topological = 1..len
    BY <1>1 DEF IInv, KahnInv
  <2>3. /\ topological \in Seq(Declared)
        /\ \A i, j \in 1..len : topological[i] = topological[j] => i = j
        /\ \A j \in 1..len : \A e \in EdgesInto(nodes, topological[j]) :
             \E i \in 1..len : i < j /\ topological[i] = e[1]
    BY <1>1, <2>2 DEF IInv, KahnInv
  <2>4. postorder' = [i \in 1..len |-> topological[len + 1 - i]]
    BY <2>1, <2>2 DEF Reversed
  <2>5. \A i \in 1..len : len + 1 - i \in 1..len /\ len + 1 - (len + 1 - i) = i
    OBVIOUS
  <2>6. /\ DOMAIN postorder' = 1..len
        /\ \A i \in 1..len : postorder'[i] = topological[len + 1 - i]
        /\ \A i \in 1..len : topological[i] = postorder'[len + 1 - i]
    BY <2>4, <2>5
  <2>7. postorder' \in Seq(Declared) /\ Len(postorder') = len
    <3>1. postorder' \in [1..len -> Declared]
      BY <2>2, <2>3, <2>4, <2>5
    <3> QED BY <3>1, SeqOfFunction
  <2>8. Elements(postorder)' = Declared
    <3>1. Elements(postorder)' = {postorder'[i] : i \in 1..len}
      BY <2>6 DEF Elements
    <3>2. Declared = {topological[i] : i \in 1..len}
      BY <2>1, <2>2 DEF Taken, Elements
    <3>3. \A i \in 1..len : postorder'[i] \in Declared
      BY <2>5, <2>6, <3>2
    <3>4. \A i \in 1..len : topological[i] \in Elements(postorder)'
      BY <2>5, <2>6, <3>1
    <3> QED BY <3>1, <3>2, <3>3, <3>4
  <2>9. ASSUME NEW p \in 1..len, NEW q \in 1..len, postorder'[p] = postorder'[q] PROVE p = q
    <3>1. len + 1 - p = len + 1 - q
      BY <2>3, <2>5, <2>6, <2>9
    <3> QED BY <3>1
  <2>10. ASSUME NEW p \in 1..len, NEW t \in Elements(TargetsOf(postorder'[p]))
         PROVE  \E q \in 1..len : q < p /\ postorder'[q] = t
    <3>1. PICK a \in 1..len : a = len + 1 - p /\ postorder'[p] = topological[a]
      BY <2>5, <2>6
    <3>2. PICK j \in DOMAIN TargetsOf(topological[a]) : TargetsOf(topological[a])[j] = t
      BY <3>1 DEF Elements
    <3>3. topological[a] \in Declared
      BY <2>2, <2>3
    <3>4. t \in Declared
      BY <1>1, <3>2, <3>3 DEF Closed, ClosedUnder, Elements
    <3>5. PICK b \in 1..len : topological[b] = t
      BY <2>1, <2>2, <3>4 DEF Taken, Elements
    <3>6. <<topological[a], j>> \in Edges(nodes)
      BY <3>2, <3>3, EdgeFacts
    <3>7. <<topological[a], j>> \in EdgesInto(nodes, topological[b])
      BY <3>2, <3>5, <3>6, EdgeFacts
    <3>8. PICK i \in 1..len : i < b /\ topological[i] = topological[a]
      BY <2>3, <3>7
    <3>9. a < b
      BY <2>3, <3>8
    <3>10. len + 1 - b \in 1..len /\ len + 1 - b < p
      BY <3>1, <3>9
    <3>11. postorder'[len + 1 - b] = t
      BY <2>6, <3>5
    <3> QED BY <3>10, <3>11
  <2>11. PostorderInv'
    <3>1. \A t : Elements(TargetsOf(postorder[t]))' = Elements(TargetsOf(postorder'[t]))
      BY <1>2 DEF Elements
    <3> QED BY <1>2, <2>6, <2>7, <2>8, <2>9, <2>10, <3>1 DEF PostorderInv
  <2>12. CountInv'
    <3>1. position' = 1 /\ counts' = EmptyMap /\ depths' = EmptyMap
      BY <1>1 DEF IInv, StartInv
    <3>2. DOMAIN counts' = {} /\ DOMAIN depths' = {} /\ 1..position' - 1 = {}
      BY <3>1 DEF EmptyMap
    <3>3. {postorder'[p] : p \in 1..position' - 1} = {}
      BY <3>2
    <3>4. position' \in 1..Len(postorder') + 1
      BY <2>7, <3>1
    <3> QED BY <3>2, <3>3, <3>4 DEF CountInv
  <2> QED BY <2>11, <2>12
<1>6. pc' = "rejected" => PostorderInv' /\ CountInv'
  BY DEF PostorderInv, CountInv, Counting
<1> QED BY <1>1, <1>2, <1>4, <1>5, <1>6
        DEF IInv, ReachInv, KahnInv, IndexInv, Ordering, Counting

-----------------------------------------------------------------------------
(* Counting and indexing *)

LEMMA SumsArePositive ==
  ASSUME NEW c, NEW len \in Nat \ {0}, \A i \in 1..len : c[i] \in Nat \ {0},
         NEW f, SumsUpTo(c, len, f)
  PROVE  f[len] \in Nat \ {0}
<1> DEFINE Bad == {i \in 1..len : f[i] \notin Nat \ {0}}
<1>1. SUFFICES ASSUME Bad # {} PROVE FALSE
  OBVIOUS
<1>2. PICK m \in Bad : \A k \in Bad : m <= k
  <2>1. Bad \subseteq Nat
    OBVIOUS
  <2> QED BY <1>1, <2>1, LeastNat
<1>3. m \in 1..len /\ f[m] \notin Nat \ {0} /\ f[m] = f[m - 1] + c[m] /\ f[0] = 0
  BY DEF SumsUpTo
<1>4. f[m - 1] \in Nat
  <2>1. CASE m = 1
    BY <1>3, <2>1
  <2>2. CASE m # 1
    <3>1. m - 1 \in 1..len /\ m - 1 \notin Bad
      BY <1>2, <1>3, <2>2
    <3> QED BY <3>1
  <2> QED BY <2>1, <2>2
<1>5. c[m] \in Nat \ {0}
  BY <1>3
<1> QED BY <1>3, <1>4, <1>5

\* The counts of the branches of a choice node that have one.
LEMMA BranchFacts ==
  ASSUME GivenInv, NEW n \in Declared, nodes[n].type = "choice",
         \A t \in Elements(TargetsOf(n)) : counts[t] \in Nat \ {0}
  PROVE  /\ Len(nodes[n].branches) \in Nat
         /\ DOMAIN nodes[n].branches = 1..Len(nodes[n].branches)
         /\ \A i \in 1..Len(nodes[n].branches) :
              /\ BranchCounts(nodes[n], counts)[i] = counts[nodes[n].branches[i].target]
              /\ BranchCounts(nodes[n], counts)[i] \in Nat \ {0}
         /\ SumsUpTo(BranchCounts(nodes[n], counts), Len(nodes[n].branches),
                     PrefixSum(BranchCounts(nodes[n], counts)))
<1>1. PICK b, c : b = nodes[n].branches /\ c = BranchCounts(nodes[n], counts)
  OBVIOUS
<1>2. /\ Len(b) \in Nat /\ DOMAIN b = 1..Len(b)
      /\ Len(TargetsOf(n)) = Len(b)
      /\ \A i \in 1..Len(b) : TargetsOf(n)[i] = b[i].target
  <2>1. b \in Seq(Branch) /\ Len(TargetsOf(n)) = Len(b)
        /\ \A i \in 1..Len(b) : TargetsOf(n)[i] = b[i].target
    BY <1>1, NodeFacts
  <2> QED BY <2>1, LenProperties
<1>3. DOMAIN TargetsOf(n) = 1..Len(b)
  BY <1>2, TargetsFacts
<1>4. \A i \in 1..Len(b) : b[i].target \in Elements(TargetsOf(n))
  BY <1>2, <1>3 DEF Elements
<1>5. c = [i \in 1..Len(b) |-> counts[b[i].target]]
  BY <1>1, <1>2 DEF BranchCounts
<1>6. c \in [1..Len(b) -> Nat \ {0}] /\ \A i \in 1..Len(b) : c[i] = counts[b[i].target]
  BY <1>4, <1>5
<1>7. Len(c) = Len(b)
  BY <1>2, <1>6, SeqOfFunction
<1>8. \A i \in 1..Len(c) : c[i] \in Int
  BY <1>6, <1>7
<1>9. SumsUpTo(c, Len(c), PrefixSum(c))
  BY <1>2, <1>7, <1>8, PrefixSumFacts
<1>10. \A i \in 1..Len(b) : c[i] \in Nat \ {0}
  BY <1>6
<1> HIDE <1>5
<1> QED BY <1>1, <1>2, <1>6, <1>7, <1>9, <1>10

\* What parsing has left of a node.
LEMMA ParsedNode ==
  ASSUME ParseAccepts, NEW n \in Declared
  PROVE  \/ nodes[n].type = "terminal"
         \/ /\ nodes[n].type = "choice" /\ nodes[n].branches # <<>>
            /\ DistinctValues(nodes[n])
         \/ nodes[n].type = "range" /\ nodes[n].start <= nodes[n].stop
BY DEF ParseAccepts, ParseNode

\* A name whose targets have positive counts gets one, from these counts alone.
LEMMA TotalIsPositive ==
  ASSUME GivenInv, ParseAccepts, NEW n \in Declared,
         \A t \in Elements(TargetsOf(n)) : counts[t] \in Nat \ {0}
  PROVE  Total(nodes[n]) \in Nat \ {0}
<1>1. CASE nodes[n].type = "terminal"
  BY <1>1 DEF Total
<1>2. CASE nodes[n].type = "choice"
  <2>1. PICK len : len = Len(nodes[n].branches)
    OBVIOUS
  <2>2. len \in Nat \ {0}
    <3>1. nodes[n].branches # <<>> /\ nodes[n].branches \in Seq(Branch)
      BY <1>2, ParsedNode, NodeFacts
    <3> QED BY <2>1, <3>1, EmptySeq
  <2>3. PrefixSum(BranchCounts(nodes[n], counts))[len] \in Nat \ {0}
    <3>1. /\ \A i \in 1..len : BranchCounts(nodes[n], counts)[i] \in Nat \ {0}
          /\ SumsUpTo(BranchCounts(nodes[n], counts), len,
                      PrefixSum(BranchCounts(nodes[n], counts)))
      BY <1>2, <2>1, BranchFacts
    <3> QED BY <2>2, <3>1, SumsArePositive
  <2> QED BY <1>2, <2>1, <2>3 DEF Total
<1>3. CASE nodes[n].type = "range"
  <2>1. /\ nodes[n].start <= nodes[n].stop /\ nodes[n].start \in Int /\ nodes[n].stop \in Int
        /\ TargetsOf(n) = <<nodes[n].target>>
    BY <1>3, ParsedNode, NodeFacts
  <2>2. counts[nodes[n].target] \in Nat \ {0}
    BY <2>1 DEF Elements
  <2>3. Width(nodes[n]) \in Nat \ {0}
    BY <2>1 DEF Width
  <2>4. \A w, c \in Nat \ {0} : w * c \in Nat \ {0}
    OBVIOUS
  <2> QED BY <1>3, <2>2, <2>3, <2>4 DEF Total
<1> QED BY <1>1, <1>2, <1>3, ParsedNode

LEMMA SameTotal ==
  ASSUME GivenInv, UNCHANGED given, NEW n \in Declared,
         \A t \in Elements(TargetsOf(n)) : counts'[t] = counts[t]
  PROVE  Total(nodes[n])' = Total(nodes[n])
<1>1. nodes' = nodes
  BY SameDocument
<1>2. CASE nodes[n].type = "choice"
  <2>1. BranchCounts(nodes[n], counts)' = BranchCounts(nodes[n], counts)
    <3>1. TargetsOf(n) = [i \in DOMAIN nodes[n].branches |-> nodes[n].branches[i].target]
      BY <1>2 DEF TargetsOf, Targets
    <3>2. \A i \in DOMAIN nodes[n].branches :
            nodes[n].branches[i].target \in Elements(TargetsOf(n))
      BY <3>1 DEF Elements
    <3> QED BY <1>1, <3>2 DEF BranchCounts
  <2>2. /\ Total(nodes[n]) = PrefixSum(BranchCounts(nodes[n], counts))[Len(nodes[n].branches)]
        /\ Total(nodes[n])'
             = PrefixSum(BranchCounts(nodes[n], counts)')[Len(nodes[n].branches)]
    BY <1>1, <1>2 DEF Total, BranchCounts, PrefixSum
  <2> QED BY <2>1, <2>2
<1>3. CASE nodes[n].type = "range"
  <2>1. nodes[n].target \in Elements(TargetsOf(n))
    BY <1>3, NodeFacts DEF Elements
  <2> QED BY <1>1, <1>3, <2>1 DEF Total, Width
<1>4. CASE nodes[n].type \notin {"choice", "range"}
  BY <1>1, <1>4 DEF Total
<1> QED BY <1>2, <1>3, <1>4

\* A name is one deeper than the deepest of its targets.
LEMMA DepthFacts ==
  ASSUME GivenInv, ParseAccepts, NEW n \in Declared, NEW most \in Nat,
         \A t \in Elements(TargetsOf(n)) : depths[t] \in 0..most
  PROVE  /\ Depth(nodes[n]) \in Nat
         /\ \A t \in Elements(TargetsOf(n)) : depths[t] < Depth(nodes[n])
<1>1. CASE nodes[n].type = "terminal"
  <2>1. TargetsOf(n) = <<>>
    BY <1>1, NodeFacts
  <2>2. Elements(TargetsOf(n)) = {}
    BY <2>1 DEF Elements
  <2> QED BY <1>1, <2>2 DEF Depth
<1>2. CASE nodes[n].type # "terminal"
  <2> DEFINE S == {depths[TargetsOf(n)[i]] : i \in DOMAIN TargetsOf(n)}
  <2>1. S \in SUBSET (0..most) /\ \A t \in Elements(TargetsOf(n)) : depths[t] \in S
    BY DEF Elements
  <2>2. S # {}
    <3>1. 1 \in DOMAIN TargetsOf(n)
      <4>1. CASE nodes[n].type = "range"
        BY <4>1, NodeFacts
      <4>2. CASE nodes[n].type = "choice"
        <5>1. /\ nodes[n].branches # <<>> /\ nodes[n].branches \in Seq(Branch)
              /\ Len(TargetsOf(n)) = Len(nodes[n].branches)
          BY <4>2, ParsedNode, NodeFacts
        <5>2. Len(TargetsOf(n)) # 0
          BY <5>1, EmptySeq
        <5> QED BY <5>2, TargetsFacts
      <4> QED BY <1>2, <4>1, <4>2, ParsedNode
    <3> QED BY <3>1
  <2>3. Depth(nodes[n]) = 1 + Max(S)
    BY <1>2 DEF Depth, TargetsOf
  <2> HIDE DEF S
  <2>4. Max(S) \in S /\ \A x \in S : x <= Max(S)
    BY <2>1, <2>2, MaxFacts
  <2>5. Max(S) \in Nat /\ \A x \in S : x \in Nat
    <3>1. 0..most \subseteq Nat
      OBVIOUS
    <3> QED BY <2>1, <2>4, <3>1, Zenon
  <2>6. \A x \in S : x < 1 + Max(S)
    BY <2>4, <2>5
  <2> QED BY <2>1, <2>3, <2>5, <2>6
<1> QED BY <1>1, <1>2

\* The verdict on a positive count: too many bits, too deep, or none.
LEMMA ComplaintFacts ==
  ASSUME GivenInv, NEW total \in Nat \ {0}, NEW depth \in Nat
  PROVE  /\ Complaint(total, depth) \in {"bits", "depth", "none"}
         /\ Complaint(total, depth) = "none" => depth \in 0..limits.maxDepth
<1>1. limits.maxDepth \in Nat
  BY DEF GivenInv
<1> QED BY <1>1 DEF Complaint

LEMMA CountNodeStep == IInv /\ CountNode => IInv'
<1> SUFFICES ASSUME IInv, CountNode PROVE IInv'
  OBVIOUS
<1>1. PICK name, total, depth :
        /\ name = postorder[position]
        /\ total = Total(nodes[name])
        /\ depth = Depth(nodes[name])
        /\ IF Complaint(total, depth) # "none"
             THEN Reject(Complaint(total, depth)) /\ UNCHANGED <<position, counts, depths>>
             ELSE /\ counts' = [n \in DOMAIN counts \cup {name} |->
                                  IF n = name THEN total ELSE counts[n]]
                  /\ depths' = [n \in DOMAIN depths \cup {name} |->
                                  IF n = name THEN depth ELSE depths[n]]
                  /\ position' = position + 1
                  /\ UNCHANGED <<pc, verdict>>
  BY DEF CountNode
<1>2. /\ pc = "count" /\ position <= Len(postorder) /\ verdict = "none"
      /\ ParseAccepts /\ Closed /\ Connected /\ Acyclic /\ GivenInv
      /\ UNCHANGED <<given, ordering, postorder, offsets, ends>>
  BY DEF CountNode, IInv, VerdictInv, Ordering, Counting
<1>3. /\ GivenInv' /\ ParseAccepts' = ParseAccepts /\ Closed' = Closed
      /\ nodes' = nodes /\ Declared' = Declared /\ Connected' = Connected /\ Acyclic' = Acyclic
      /\ limits' = limits
      /\ \A n : TargetsOf(n)' = TargetsOf(n)
  BY <1>2, SameDocument
<1>4. PICK len \in Nat : len = Len(postorder) /\ DOMAIN postorder = 1..len
  <2>1. postorder \in Seq(Declared)
    BY <1>2 DEF IInv, PostorderInv, Counting
  <2> QED BY <2>1, LenProperties
<1>5. /\ \A p \in 1..len : postorder[p] \in Declared
      /\ \A p, q \in 1..len : postorder[p] = postorder[q] => p = q
      /\ \A p \in 1..len : \A t \in Elements(TargetsOf(postorder[p])) :
           \E q \in 1..len : q < p /\ postorder[q] = t
  <2>1. Counting /\ postorder \in Seq(Declared)
    BY <1>2 DEF IInv, PostorderInv, Counting
  <2>2. \A p \in 1..len : postorder[p] \in Declared
    BY <1>4, <2>1, ElementOfSeq
  <2> QED BY <1>4, <2>1, <2>2 DEF IInv, PostorderInv
<1>6. /\ position \in 1..len
      /\ DOMAIN counts = {postorder[p] : p \in 1..position - 1}
      /\ DOMAIN depths = DOMAIN counts
      /\ \A n \in DOMAIN counts :
           /\ counts[n] \in Nat \ {0} /\ counts[n] = Total(nodes[n])
           /\ depths[n] \in 0..limits.maxDepth
           /\ \A t \in Elements(TargetsOf(n)) : t \in DOMAIN counts /\ depths[t] < depths[n]
  BY <1>2, <1>4 DEF IInv, CountInv, Counting
<1>7. /\ name \in Declared /\ name \notin DOMAIN counts
      /\ \A t \in Elements(TargetsOf(name)) : t \in DOMAIN counts
  <2>1. \A p \in 1..position - 1 : p \in 1..len /\ p # position
    BY <1>6
  <2>2. name \in Declared /\ name \notin DOMAIN counts
    BY <1>1, <1>5, <1>6, <2>1
  <2>3. ASSUME NEW t \in Elements(TargetsOf(name)) PROVE t \in DOMAIN counts
    <3>1. PICK q \in 1..len : q < position /\ postorder[q] = t
      BY <1>1, <1>5, <1>6, <2>3
    <3>2. q \in 1..position - 1
      BY <1>6, <3>1
    <3> QED BY <1>6, <3>1, <3>2
  <2> QED BY <2>2, <2>3
<1>8. limits.maxDepth \in Nat
  BY <1>2 DEF GivenInv
<1>9. total \in Nat \ {0}
  BY <1>1, <1>2, <1>6, <1>7, TotalIsPositive
<1>10. depth \in Nat /\ \A t \in Elements(TargetsOf(name)) : depths[t] < depth
  BY <1>1, <1>2, <1>6, <1>7, <1>8, DepthFacts
<1>11. /\ Complaint(total, depth) \in {"bits", "depth", "none"}
       /\ Complaint(total, depth) = "none" => depth \in 0..limits.maxDepth
  BY <1>2, <1>9, <1>10, ComplaintFacts
<1>12. \/ pc' = "rejected" /\ verdict' \in {"bits", "depth"}
       \/ /\ pc' = "count" /\ verdict' = verdict
          /\ depth \in 0..limits.maxDepth
          /\ counts' = [n \in DOMAIN counts \cup {name} |->
                          IF n = name THEN total ELSE counts[n]]
          /\ depths' = [n \in DOMAIN depths \cup {name} |->
                          IF n = name THEN depth ELSE depths[n]]
          /\ position' = position + 1
  BY <1>1, <1>2, <1>11 DEF Reject
<1>13. VerdictInv' /\ StartInv'
  BY <1>2, <1>3, <1>12 DEF IInv, VerdictInv, StartInv, Ordering, Counting
<1>14. PostorderInv'
  <2>1. \A t : Elements(TargetsOf(postorder[t]))' = Elements(TargetsOf(postorder[t]))
    BY <1>2, <1>3 DEF Elements
  <2>2. Elements(postorder)' = Elements(postorder)
    BY <1>2 DEF Elements
  <2>3. postorder' = postorder
    BY <1>2
  <2> QED BY <1>2, <1>3, <2>1, <2>2, <2>3 DEF IInv, PostorderInv, Counting
<1>15. CountInv'
  <2>1. SUFFICES ASSUME pc' = "count" PROVE CountInv'
    BY <1>12 DEF CountInv, Counting
  <2>2. /\ DOMAIN counts' = DOMAIN counts \cup {name} /\ DOMAIN depths' = DOMAIN counts'
        /\ counts'[name] = total /\ depths'[name] = depth /\ position' = position + 1
        /\ \A n \in DOMAIN counts : counts'[n] = counts[n] /\ depths'[n] = depths[n]
        /\ depth \in 0..limits.maxDepth
    BY <1>6, <1>7, <1>12, <2>1
  <2>3. DOMAIN counts' = {postorder[p] : p \in 1..position' - 1}
    <3>1. 1..position' - 1 = (1..position - 1) \cup {position}
      BY <1>6, <2>2
    <3> QED BY <1>1, <1>6, <2>2, <3>1
  <2>4. \A n \in DOMAIN counts' : Total(nodes[n])' = Total(nodes[n])
    <3>1. SUFFICES ASSUME NEW n \in DOMAIN counts' PROVE Total(nodes[n])' = Total(nodes[n])
      OBVIOUS
    <3>2. n \in Declared
      <4>1. \A p \in 1..position - 1 : p \in 1..len
        BY <1>6
      <4> QED BY <1>5, <1>6, <1>7, <2>2, <4>1
    <3>3. \A t \in Elements(TargetsOf(n)) : t \in DOMAIN counts
      BY <1>6, <1>7, <2>2
    <3>4. \A t \in Elements(TargetsOf(n)) : counts'[t] = counts[t]
      BY <2>2, <3>3
    <3>5. UNCHANGED given
      BY <1>2
    <3> QED BY <1>2, <3>2, <3>4, <3>5, SameTotal
  <2>5. ASSUME NEW n \in DOMAIN counts'
        PROVE  /\ counts'[n] \in Nat \ {0} /\ counts'[n] = Total(nodes[n])'
               /\ depths'[n] \in 0..limits.maxDepth
               /\ \A t \in Elements(TargetsOf(n)) :
                    t \in DOMAIN counts' /\ depths'[t] < depths'[n]
    <3>1. CASE n = name
      BY <1>1, <1>7, <1>9, <1>10, <2>2, <2>4, <2>5, <3>1
    <3>2. CASE n \in DOMAIN counts
      BY <1>6, <2>2, <2>4, <2>5, <3>2
    <3> QED BY <2>2, <2>5, <3>1, <3>2
  <2>6. position' \in 1..Len(postorder) + 1
    BY <1>4, <1>6, <2>2
  <2>7. \A n : Elements(TargetsOf(n))' = Elements(TargetsOf(n))
    BY <1>3 DEF Elements
  <2>8. postorder' = postorder
    BY <1>2
  <2>9. /\ DOMAIN depths' = DOMAIN counts' /\ limits' = limits /\ nodes' = nodes
    BY <1>2, <1>3, <2>2
  <2> QED BY <2>3, <2>5, <2>6, <2>7, <2>8, <2>9 DEF CountInv
<1> QED BY <1>2, <1>3, <1>12, <1>13, <1>14, <1>15
        DEF IInv, ReachInv, KahnInv, IndexInv, Ordering, Counting

LEMMA BuildIndexesStep == IInv /\ BuildIndexes => IInv'
<1> SUFFICES ASSUME IInv, BuildIndexes PROVE IInv'
  OBVIOUS
<1>1. /\ pc = "count" /\ position > Len(postorder) /\ pc' = "ready"
      /\ UNCHANGED <<given, verdict, ordering, postorder, position, counts, depths>>
      /\ offsets' = [n \in ChoiceNames |->
                       [i \in DOMAIN nodes[n].branches |->
                          PrefixSum(BranchCounts(nodes[n], counts))[i - 1]]]
      /\ ends' = [n \in ChoiceNames |->
                    [i \in DOMAIN nodes[n].branches |->
                       PrefixSum(BranchCounts(nodes[n], counts))[i]]]
  BY DEF BuildIndexes
<1>2. /\ GivenInv' /\ ParseAccepts' = ParseAccepts /\ Closed' = Closed
      /\ nodes' = nodes /\ Declared' = Declared /\ Connected' = Connected /\ Acyclic' = Acyclic
      /\ ChoiceNames' = ChoiceNames /\ limits' = limits
      /\ \A n : TargetsOf(n)' = TargetsOf(n)
  BY <1>1, SameDocument DEF IInv
<1>3. VerdictInv' /\ StartInv'
  BY <1>1, <1>2 DEF IInv, VerdictInv, StartInv, Ordering, Counting
<1>4. /\ Counting /\ Elements(postorder)' = Elements(postorder)
      /\ \A n : Elements(TargetsOf(n))' = Elements(TargetsOf(n))
      /\ \A n : Elements(TargetsOf(postorder[n]))' = Elements(TargetsOf(postorder[n]))
  BY <1>1, <1>2 DEF Elements, Counting
<1>5. postorder' = postorder /\ counts' = counts /\ depths' = depths /\ position' = position
  BY <1>1
<1>6. PostorderInv'
  BY <1>2, <1>4, <1>5 DEF IInv, PostorderInv
<1>7. CountInv'
  <2>1. \A n : Total(nodes[n])' = Total(nodes[n])
    BY <1>2, <1>5 DEF Total, BranchCounts, PrefixSum, Width
  <2> QED BY <1>2, <1>4, <1>5, <2>1 DEF IInv, CountInv
<1>8. IndexInv'
  <2>1. position' = Len(postorder') + 1
    <3>1. position \in 1..Len(postorder) + 1 /\ Len(postorder) \in Nat
      <4>1. position \in 1..Len(postorder) + 1 /\ postorder \in Seq(Declared)
        BY <1>4 DEF IInv, CountInv, PostorderInv
      <4> QED BY <4>1, LenProperties
    <3> QED BY <1>1, <1>5, <3>1
  <2>2. \A n : BranchCounts(nodes[n], counts)' = BranchCounts(nodes[n], counts)
    BY <1>2, <1>5 DEF BranchCounts
  <2>3. \A n : PrefixSum(BranchCounts(nodes[n], counts))'
                 = PrefixSum(BranchCounts(nodes[n], counts))
    BY <2>2 DEF PrefixSum
  <2>4. ASSUME NEW n \in ChoiceNames
        PROVE  /\ offsets'[n] = [i \in DOMAIN nodes[n].branches |->
                                   PrefixSum(BranchCounts(nodes[n], counts))[i - 1]]
               /\ ends'[n] = [i \in DOMAIN nodes[n].branches |->
                                PrefixSum(BranchCounts(nodes[n], counts))[i]]
    BY <1>1, <2>4
  <2> QED BY <1>2, <2>1, <2>3, <2>4 DEF IndexInv
<1> QED BY <1>1, <1>2, <1>3, <1>6, <1>7, <1>8
        DEF IInv, ReachInv, KahnInv, Ordering, Counting

-----------------------------------------------------------------------------
(* The theorems *)

LEMMA StutterStep == IInv /\ UNCHANGED vars => IInv'
<1> SUFFICES ASSUME IInv, UNCHANGED vars PROVE IInv'
  OBVIOUS
<1>1. UNCHANGED <<given, pc, verdict, ordering, tables>>
  BY DEF vars
<1>2. /\ GivenInv' /\ ParseAccepts' = ParseAccepts /\ Closed' = Closed /\ doc' = doc
      /\ nodes' = nodes /\ Declared' = Declared /\ Connected' = Connected /\ Acyclic' = Acyclic
      /\ ChoiceNames' = ChoiceNames /\ limits' = limits
      /\ \A n : TargetsOf(n)' = TargetsOf(n)
      /\ \A S : ClosedUnder(S)' = ClosedUnder(S)
  BY <1>1, SameDocument DEF IInv
<1>3. /\ Elements(pending)' = Elements(pending) /\ Elements(queue)' = Elements(queue)
      /\ Elements(postorder)' = Elements(postorder)
      /\ \A n : Elements(TargetsOf(n))' = Elements(TargetsOf(n))
      /\ \A n : Elements(TargetsOf(postorder[n]))' = Elements(TargetsOf(postorder[n]))
  BY <1>1, <1>2 DEF Elements, ordering, tables
<1>4. VerdictInv' /\ StartInv' /\ ReachInv'
  BY <1>1, <1>2, <1>3
     DEF IInv, VerdictInv, StartInv, ReachInv, Ordering, Counting, ordering, tables
<1>5. KahnInv'
  <2>1. Taken' = Taken
    BY <1>1 DEF Taken, Elements, ordering
  <2>2. Released' = Released
    BY <1>1, <1>2, <2>1 DEF Released, LastTaken, ordering
  <2> QED BY <1>1, <1>2, <1>3, <2>1, <2>2 DEF IInv, KahnInv, ordering
<1>6. PostorderInv'
  BY <1>1, <1>2, <1>3 DEF IInv, PostorderInv, Counting, tables
<1>7. CountInv'
  <2>1. \A n : Total(nodes[n])' = Total(nodes[n])
    BY <1>1, <1>2 DEF Total, BranchCounts, PrefixSum, Width, tables
  <2> QED BY <1>1, <1>2, <1>3, <2>1 DEF IInv, CountInv, Counting, tables
<1>8. IndexInv'
  <2>1. \A n : PrefixSum(BranchCounts(nodes[n], counts))'
                 = PrefixSum(BranchCounts(nodes[n], counts))
    BY <1>1, <1>2 DEF BranchCounts, PrefixSum, tables
  <2> QED BY <1>1, <1>2, <2>1 DEF IInv, IndexInv, tables
<1> QED BY <1>2, <1>4, <1>5, <1>6, <1>7, <1>8 DEF IInv

\* The constructor keeps every one of its passes right.
THEOREM ConstructorCorrect == Spec => []IInv
<1>1. IInv /\ [Next]_vars => IInv'
  BY ParseStep, CheckTargetsStep, VisitStep, CheckReachableStep, TakeReadyStep, ReleaseEdgeStep,
     FinishOrderStep, CountNodeStep, BuildIndexesStep, StutterStep DEF Next
<1> QED BY InitIInv, <1>1, PTL DEF Spec

\* Every document is refused for a reason that is true of it: what is accepted, or
\* refused for its size or depth alone, is what parses and is closed, connected and
\* acyclic, for any document and limits (150-188, 203-213).
THEOREM GraphChecksAreExact == Spec => []AcceptsExactlyDags
<1>1. IInv => AcceptsExactlyDags
  <2>1. SUFFICES ASSUME IInv, Finished PROVE AcceptsExactlyDags
    BY DEF AcceptsExactlyDags
  <2>2. CASE pc = "ready"
    <3>1. verdict = "none" /\ ParseAccepts /\ Closed /\ Connected /\ Acyclic
      BY <2>1, <2>2 DEF IInv, VerdictInv, Ordering, Counting
    <3> QED BY <3>1 DEF AcceptsExactlyDags
  <2>3. CASE pc = "rejected"
    <3>1. \/ verdict \in {"parse", "missing target", "unreachable", "cycle"}
             /\ ~ (ParseAccepts /\ Closed /\ Connected /\ Acyclic)
          \/ verdict \in {"bits", "depth"}
             /\ ParseAccepts /\ Closed /\ Connected /\ Acyclic
      BY <2>1, <2>3 DEF IInv, VerdictInv
    <3> QED BY <3>1 DEF AcceptsExactlyDags
  <2> QED BY <2>1, <2>2, <2>3 DEF Finished
<1> QED BY ConstructorCorrect, <1>1, PTL

\* In the end every name has its count and depth.
LEMMA ReadyCounts ==
  ASSUME IInv, pc = "ready"
  PROVE  /\ DOMAIN counts = Declared
         /\ \A m \in Declared :
              /\ counts[m] \in Nat \ {0} /\ counts[m] = Total(nodes[m])
              /\ depths[m] \in Nat
              /\ \A t \in Elements(TargetsOf(m)) : t \in Declared /\ depths[t] < depths[m]
<1>1. Counting /\ postorder \in Seq(Declared) /\ position = Len(postorder) + 1
      /\ Elements(postorder) = Declared
      /\ DOMAIN counts = {postorder[p] : p \in 1..position - 1}
  BY DEF IInv, IndexInv, PostorderInv, CountInv, Counting
<1>2. DOMAIN postorder = 1..position - 1
  BY <1>1, LenProperties
<1>3. DOMAIN counts = Declared
  BY <1>1, <1>2 DEF Elements
<1>4. 0..limits.maxDepth \subseteq Nat
  OBVIOUS
<1> QED BY <1>1, <1>3, <1>4 DEF IInv, CountInv

\* A node of a compiled schema satisfies its equations.
LEMMA ReadyNode ==
  ASSUME IInv, pc = "ready", NEW n \in Declared
  PROVE  NodeTiles(nodes[n], n, counts, depths, offsets, ends)
<1>1. GivenInv /\ ParseAccepts /\ Counting
  BY DEF IInv, VerdictInv, Ordering, Counting
<1>2. /\ DOMAIN counts = Declared
      /\ \A m \in Declared :
           /\ counts[m] \in Nat \ {0} /\ counts[m] = Total(nodes[m])
           /\ \A t \in Elements(TargetsOf(m)) : t \in Declared /\ depths[t] < depths[m]
  BY ReadyCounts
<1>3. /\ counts[n] > 0
      /\ nodes[n].type \in {"terminal", "choice", "range"}
      /\ \A i \in DOMAIN Targets(nodes[n]) :
           /\ Targets(nodes[n])[i] \in DOMAIN counts
           /\ depths[Targets(nodes[n])[i]] < depths[n]
  <2>1. \A i \in DOMAIN Targets(nodes[n]) : Targets(nodes[n])[i] \in Elements(TargetsOf(n))
    BY DEF Elements, TargetsOf
  <2>2. counts[n] > 0
    BY <1>2
  <2>3. nodes[n].type \in {"terminal", "choice", "range"}
    BY <1>1, ParsedNode
  <2> QED BY <1>2, <2>1, <2>2, <2>3
<1>4. nodes[n].type = "terminal" => counts[n] = 1
  BY <1>2 DEF Total
<1>5. nodes[n].type = "range" => RangeTiles(nodes[n], counts[n], counts)
  BY <1>1, <1>2, ParsedNode DEF Total, RangeTiles
<1>6. ASSUME nodes[n].type = "choice"
      PROVE  ChoiceTiles(nodes[n], counts[n], counts, offsets[n], ends[n])
  <2>1. PICK len, b, f : /\ len = Len(nodes[n].branches) /\ b = BranchCounts(nodes[n], counts)
                         /\ f = PrefixSum(BranchCounts(nodes[n], counts))
    OBVIOUS
  <2>2. \A t \in Elements(TargetsOf(n)) : counts[t] \in Nat \ {0}
    BY <1>2
  <2>3. /\ len \in Nat /\ DOMAIN nodes[n].branches = 1..len
        /\ \A i \in 1..len : b[i] = counts[nodes[n].branches[i].target]
        /\ SumsUpTo(b, len, f)
    BY <1>1, <1>6, <2>1, <2>2, BranchFacts
  <2>4. len # 0 /\ DistinctValues(nodes[n])
    <3>1. nodes[n].branches # <<>> /\ nodes[n].branches \in Seq(Branch)
          /\ DistinctValues(nodes[n])
      BY <1>1, <1>6, ParsedNode, NodeFacts
    <3> QED BY <2>1, <3>1, EmptySeq
  <2>5. \A i \in 1..len : offsets[n][i] = f[i - 1] /\ ends[n][i] = f[i]
    <3>1. n \in ChoiceNames
      BY <1>6 DEF ChoiceNames
    <3>2. /\ offsets[n] = [i \in 1..len |-> f[i - 1]]
          /\ ends[n] = [i \in 1..len |-> f[i]]
      BY <2>1, <2>3, <3>1 DEF IInv, IndexInv
    <3> QED BY <3>2
  <2>6. counts[n] = f[len]
    BY <1>2, <1>6, <2>1 DEF Total
  <2>7. \A i \in 1..len : f[i] = f[i - 1] + b[i]
    BY <2>3 DEF SumsUpTo
  <2>8. offsets[n][1] = 0 /\ ends[n][len] = counts[n]
    <3>1. 1 \in 1..len /\ len \in 1..len /\ f[0] = 0
      BY <2>3, <2>4 DEF SumsUpTo
    <3> QED BY <2>5, <2>6, <3>1
  <2>9. \A i \in 1..len : ends[n][i] = offsets[n][i] + counts[nodes[n].branches[i].target]
    BY <2>3, <2>5, <2>7
  <2>10. \A i \in 1..len - 1 : offsets[n][i + 1] = ends[n][i]
    <3>1. \A i \in 1..len - 1 : i \in 1..len /\ i + 1 \in 1..len /\ (i + 1) - 1 = i
      BY <2>3
    <3> QED BY <2>5, <3>1
  <2>11. len > 0
    BY <2>3, <2>4
  <2> QED BY <2>1, <2>4, <2>8, <2>9, <2>10, <2>11 DEF ChoiceTiles
<1> QED BY <1>3, <1>4, <1>5, <1>6 DEF NodeTiles

\* The tables of a choice node have an entry for each branch.
LEMMA ReadyTables ==
  ASSUME IInv, pc = "ready", NEW n \in ChoiceNames
  PROVE  /\ offsets[n] \in Seq(Int) /\ Len(offsets[n]) = Len(nodes[n].branches)
         /\ ends[n] \in Seq(Int) /\ Len(ends[n]) = Len(nodes[n].branches)
<1>1. PICK len, f : /\ len = Len(nodes[n].branches)
                    /\ f = PrefixSum(BranchCounts(nodes[n], counts))
  OBVIOUS
<1>2. /\ GivenInv /\ n \in Declared /\ nodes[n].type = "choice"
      /\ \A t \in Elements(TargetsOf(n)) : counts[t] \in Nat \ {0}
  BY ReadyCounts DEF IInv, ChoiceNames
<1>3. /\ len \in Nat /\ DOMAIN nodes[n].branches = 1..len
      /\ SumsUpTo(BranchCounts(nodes[n], counts), len, f)
  BY <1>1, <1>2, BranchFacts
<1>4. \A i \in 0..len : f[i] \in Int
  BY <1>3 DEF SumsUpTo
<1>5. /\ offsets[n] = [i \in 1..len |-> f[i - 1]]
      /\ ends[n] = [i \in 1..len |-> f[i]]
  BY <1>1, <1>3 DEF IInv, IndexInv
<1>6. \A i \in 1..len : i \in 0..len /\ i - 1 \in 0..len
  BY <1>3
<1>7. offsets[n] \in [1..len -> Int] /\ ends[n] \in [1..len -> Int]
  BY <1>4, <1>5, <1>6
<1> QED BY <1>1, <1>3, <1>7, SeqOfFunction

\* Whatever was compiled has the counts, depths, offsets and ends that rank and
\* unrank rely on: the assumption that their proofs make of schemas (190-230).
THEOREM CompiledIsUsable == Spec => []ReadyIsCompiled
<1>1. IInv => ReadyIsCompiled
  <2>1. SUFFICES ASSUME IInv, pc = "ready" PROVE IsCompiled(Result)
    BY DEF ReadyIsCompiled
  <2>2. PICK s : /\ s = Result
                 /\ s.root = doc.root /\ s.nodes = nodes /\ s.counts = counts
                 /\ s.depths = depths /\ s.offsets = offsets /\ s.ends = ends
    <3>1. /\ Result.root = doc.root /\ Result.nodes = nodes /\ Result.counts = counts
          /\ Result.depths = depths /\ Result.offsets = offsets /\ Result.ends = ends
      BY DEF Result
    <3> QED BY <3>1
  <2>3. /\ DOMAIN counts = Declared
        /\ \A n \in Declared : counts[n] \in Nat /\ depths[n] \in Nat
    BY <2>1, ReadyCounts
  <2>4. IsDocument(s) /\ s.root \in DOMAIN s.nodes
    <3>1. IsDocument(doc) /\ doc.root \in Declared
      BY <2>1 DEF IInv, GivenInv, VerdictInv, ParseAccepts
    <3> QED BY <2>2, <3>1 DEF IsDocument, nodes, Declared
  <2>5. Tiled(nodes, counts, depths, offsets, ends)
    BY <2>1, <2>3, ReadyNode DEF Tiled, Declared
  <2>6. \A n \in Declared : nodes[n].type = "choice" =>
          /\ offsets[n] \in Seq(Int) /\ Len(offsets[n]) = Len(nodes[n].branches)
          /\ ends[n] \in Seq(Int) /\ Len(ends[n]) = Len(nodes[n].branches)
    BY <2>1, ReadyTables DEF ChoiceNames
  <2>7. IsCompiled(s)
    BY <2>2, <2>3, <2>4, <2>5, <2>6 DEF IsCompiled, Declared
  <2> QED BY <2>2, <2>7
<1> QED BY ConstructorCorrect, <1>1, PTL

-----------------------------------------------------------------------------
(* The words of a name *)

Tokens == ({"str"} \X Labels) \cup ({"int"} \X Int)
Size == Cardinality(Declared)

\* What a step reads first, and then a word of where it leads.
Under(s) == {<<s[1]>> \o w : w \in Words(s[2])}

\* The words of a name: how many there are and how long the longest is.
Measured(n, count, depth) ==
  /\ IsFiniteSet(Words(n)) /\ Cardinality(Words(n)) = count
  /\ \A w \in Words(n) : Len(w) \in 0..depth
  /\ \E w \in Words(n) : Len(w) = depth

LEMMA SizeFacts ==
  ASSUME GivenInv
  PROVE  Size \in Nat /\ IsFiniteSet(Declared)
<1>1. IsFiniteSet(Declared)
  BY DEF GivenInv, IsDocument, nodes, Declared
<1> QED BY <1>1, FS_CardinalityType DEF Size

\* Functions that satisfy the equations of WordsOfLength up to a length.
Spells(m, f) ==
  /\ f = [k \in 0..m |-> f[k]]
  /\ f[0] = EmptyWords
  /\ \A k \in 1..m : f[k] = LongerWords(f[k - 1])

LEMMA SpellingExists ==
  ASSUME NEW N \in Nat
  PROVE  \E f : Spells(N, f)
<1> DEFINE S == {m \in Nat : \E f : Spells(m, f)}
<1>1. 0 \in S
  <2>1. Spells(0, [k \in 0..0 |-> EmptyWords])
    BY DEF Spells
  <2> QED BY <2>1
<1>2. ASSUME NEW m \in 0..N - 1, m \in S PROVE m + 1 \in S
  <2>1. PICK f : Spells(m, f)
    BY <1>2
  <2> DEFINE g == [k \in 0..m + 1 |-> IF k = m + 1 THEN LongerWords(f[m]) ELSE f[k]]
  <2>2. g = [k \in 0..m + 1 |-> g[k]]
    OBVIOUS
  <2>3. /\ g[m + 1] = LongerWords(f[m])
        /\ \A k \in 0..m : g[k] = f[k]
    OBVIOUS
  <2> HIDE DEF g
  <2>4. g[0] = EmptyWords
    BY <2>1, <2>3 DEF Spells
  <2>5. ASSUME NEW k \in 1..m + 1 PROVE g[k] = LongerWords(g[k - 1])
    <3>1. CASE k = m + 1
      BY <2>3, <3>1
    <3>2. CASE k # m + 1
      <4>1. k \in 1..m /\ k \in 0..m /\ k - 1 \in 0..m
        BY <3>2
      <4>2. f[k] = LongerWords(f[k - 1])
        BY <2>1, <4>1 DEF Spells
      <4> QED BY <2>3, <4>1, <4>2
    <3> QED BY <3>1, <3>2
  <2>6. Spells(m + 1, g)
    BY <2>2, <2>4, <2>5 DEF Spells
  <2> QED BY <2>6
<1> HIDE DEF S
<1>3. \A m \in 0..N : m \in S
  BY <1>1, <1>2, Upwards
<1>4. N \in S
  BY <1>3
<1> QED BY <1>4 DEF S

\* WordsOfLength satisfies its equations.
LEMMA WordsOfLengthFacts ==
  ASSUME GivenInv
  PROVE  /\ WordsOfLength[0] = EmptyWords
         /\ \A k \in 1..Size : WordsOfLength[k] = LongerWords(WordsOfLength[k - 1])
<1>1. Size \in Nat
  BY SizeFacts
<1>2. PICK f : Spells(Size, f)
  BY <1>1, SpellingExists
<1>3. f = [k \in 0..Size |-> IF k = 0 THEN EmptyWords ELSE LongerWords(f[k - 1])]
  <2>1. \A k \in 0..Size : f[k] = IF k = 0 THEN EmptyWords ELSE LongerWords(f[k - 1])
    <3>1. ASSUME NEW k \in 0..Size
          PROVE  f[k] = IF k = 0 THEN EmptyWords ELSE LongerWords(f[k - 1])
      <4>1. CASE k = 0
        BY <1>2, <4>1 DEF Spells
      <4>2. CASE k # 0
        <5>1. k \in 1..Size
          BY <1>1, <4>2
        <5> QED BY <1>2, <4>2, <5>1 DEF Spells
      <4> QED BY <4>1, <4>2
    <3> QED BY <3>1
  <2>2. f = [k \in 0..Size |-> f[k]]
    BY <1>2 DEF Spells
  <2> QED BY <2>1, <2>2
<1>4. WordsOfLength
        = [k \in 0..Size |-> IF k = 0 THEN EmptyWords ELSE LongerWords(WordsOfLength[k - 1])]
  BY <1>3, Zenon DEF WordsOfLength, Size
<1>5. 0 \in 0..Size /\ \A k \in 1..Size : k \in 0..Size /\ k # 0
  BY <1>1
<1> QED BY <1>4, <1>5

\* A step of a name reads a token and leads to one of its targets.
LEMMA StepFacts ==
  ASSUME GivenInv, Closed, NEW n \in Declared, NEW s \in Steps(n)
  PROVE  s[1] \in Tokens /\ s[2] \in Elements(TargetsOf(n)) /\ s[2] \in Declared
<1>1. s[1] \in Tokens /\ s[2] \in Elements(TargetsOf(n))
  <2>1. CASE nodes[n].type = "choice"
    <3>1. PICK b \in Elements(nodes[n].branches) : s = <<<<"str", b.value>>, b.target>>
      BY <2>1 DEF Steps
    <3>2. PICK i \in DOMAIN nodes[n].branches : b = nodes[n].branches[i]
      BY DEF Elements
    <3>3. /\ nodes[n].branches \in Seq(Branch)
          /\ i \in 1..Len(nodes[n].branches)
          /\ Len(TargetsOf(n)) = Len(nodes[n].branches)
          /\ TargetsOf(n)[i] = b.target
      BY <2>1, <3>2, NodeFacts
    <3>4. b \in Branch
      BY <3>2, <3>3, ElementOfSeq
    <3>5. i \in DOMAIN TargetsOf(n)
      BY <3>3, TargetsFacts
    <3>6. b.target \in Elements(TargetsOf(n))
      BY <3>3, <3>5 DEF Elements
    <3> QED BY <3>1, <3>4, <3>6 DEF Tokens, Branch
  <2>2. CASE nodes[n].type = "range"
    <3>1. /\ TargetsOf(n) = <<nodes[n].target>>
          /\ nodes[n].start \in Int /\ nodes[n].stop \in Int
      BY <2>2, NodeFacts
    <3>2. PICK v \in nodes[n].start..nodes[n].stop : s = <<<<"int", v>>, nodes[n].target>>
      BY <2>2 DEF Steps
    <3>3. v \in Int /\ nodes[n].target \in Elements(TargetsOf(n))
      BY <3>1 DEF Elements
    <3> QED BY <3>2, <3>3 DEF Tokens
  <2>3. CASE nodes[n].type \notin {"choice", "range"}
    BY <2>3 DEF Steps
  <2> QED BY <2>1, <2>2, <2>3
<1> QED BY <1>1 DEF Closed, ClosedUnder

\* A token before a word is a word that is one longer, and says which word it was.
LEMMA TokenFirst ==
  ASSUME NEW S, NEW t \in S, NEW w \in Seq(S)
  PROVE  /\ <<t>> \o w \in Seq(S) /\ Len(<<t>> \o w) = Len(w) + 1
         /\ (<<t>> \o w)[1] = t
         /\ \A v \in Seq(S) : <<t>> \o w = <<t>> \o v => w = v
<1>1. <<t>> \in Seq(S) /\ Len(<<t>>) = 1 /\ <<t>>[1] = t
  OBVIOUS
<1>2. Len(w) \in Nat
  BY LenProperties
<1>3. /\ <<t>> \o w \in Seq(S) /\ Len(<<t>> \o w) = 1 + Len(w)
      /\ \A i \in 1..1 + Len(w) : (<<t>> \o w)[i] = IF i <= 1 THEN <<t>>[i] ELSE w[i - 1]
  BY <1>1, ConcatProperties
<1>4. (<<t>> \o w)[1] = t
  <2>1. 1 \in 1..1 + Len(w)
    BY <1>2
  <2> QED BY <1>1, <1>3, <2>1
<1>5. \A v \in Seq(S) : <<t>> \o w = <<t>> \o v => w = v
  BY <1>1, ConcatSimplifications
<1>6. 1 + Len(w) = Len(w) + 1
  BY <1>2
<1>7. <<t>> \o w \in Seq(S) /\ Len(<<t>> \o w) = Len(w) + 1
  BY <1>3, <1>6, Zenon
<1> QED BY <1>4, <1>5, <1>7, Zenon

\* A longer word is a step's token before a word of where the step leads.
LEMMA LongerFacts ==
  ASSUME NEW g, NEW n \in Declared
  PROVE  /\ \A w \in LongerWords(g)[n] :
              \E s \in Steps(n) : \E v \in g[s[2]] : w = <<s[1]>> \o v
         /\ \A s \in Steps(n) : \A v \in g[s[2]] : <<s[1]>> \o v \in LongerWords(g)[n]
<1> DEFINE T(s) == {<<s[1]>> \o v : v \in g[s[2]]}
<1>1. LongerWords(g)[n] = UNION {T(s) : s \in Steps(n)}
  BY Zenon DEF LongerWords
<1>2. ASSUME NEW w \in LongerWords(g)[n]
      PROVE  \E s \in Steps(n) : \E v \in g[s[2]] : w = <<s[1]>> \o v
  <2>1. PICK s \in Steps(n) : w \in T(s)
    <3> HIDE DEF T
    <3> QED BY <1>1
  <2>2. \E v \in g[s[2]] : w = <<s[1]>> \o v
    BY <2>1
  <2> QED BY <2>2
<1>3. ASSUME NEW s \in Steps(n), NEW v \in g[s[2]]
      PROVE  <<s[1]>> \o v \in LongerWords(g)[n]
  <2>1. <<s[1]>> \o v \in T(s)
    OBVIOUS
  <2> HIDE DEF T
  <2> QED BY <1>1, <2>1
<1> QED BY <1>2, <1>3

\* The words listed at a length are sequences of tokens of that length.
LEMMA LengthFacts ==
  ASSUME GivenInv, Closed
  PROVE  \A k \in 0..Size : \A n \in Declared : \A w \in WordsOfLength[k][n] :
           w \in Seq(Tokens) /\ Len(w) = k
<1> DEFINE S == {k \in Nat : \A n \in Declared : \A w \in WordsOfLength[k][n] :
                               w \in Seq(Tokens) /\ Len(w) = k}
<1>1. Size \in Nat
  BY SizeFacts
<1>2. 0 \in S
  <2>1. ASSUME NEW n \in Declared, NEW w \in WordsOfLength[0][n] PROVE w = <<>>
    BY <2>1, WordsOfLengthFacts DEF EmptyWords
  <2>2. <<>> \in Seq(Tokens) /\ Len(<<>>) = 0
    OBVIOUS
  <2> QED BY <2>1, <2>2
<1>3. ASSUME NEW k \in 0..Size - 1, k \in S PROVE k + 1 \in S
  <2>1. k + 1 \in 1..Size /\ (k + 1) - 1 = k /\ k + 1 \in Nat
    BY <1>1
  <2>2. WordsOfLength[k + 1] = LongerWords(WordsOfLength[k])
    BY <2>1, WordsOfLengthFacts
  <2>3. ASSUME NEW n \in Declared, NEW w \in WordsOfLength[k + 1][n]
        PROVE  w \in Seq(Tokens) /\ Len(w) = k + 1
    <3>1. \E s \in Steps(n) : \E v \in WordsOfLength[k][s[2]] : w = <<s[1]>> \o v
      <4>1. PICK g : g = WordsOfLength[k]
        OBVIOUS
      <4>2. w \in LongerWords(g)[n]
        BY <2>2, <2>3, <4>1
      <4> QED BY <4>1, <4>2, LongerFacts
    <3>2. PICK s \in Steps(n) : \E v \in WordsOfLength[k][s[2]] : w = <<s[1]>> \o v
      BY <3>1
    <3>3. PICK v \in WordsOfLength[k][s[2]] : w = <<s[1]>> \o v
      BY <3>2
    <3>4. s[1] \in Tokens /\ s[2] \in Declared
      BY StepFacts
    <3>5. v \in Seq(Tokens) /\ Len(v) = k
      BY <1>3, <3>4
    <3> QED BY <3>3, <3>4, <3>5, TokenFirst
  <2> QED BY <2>1, <2>3
<1> HIDE DEF S
<1>4. \A k \in 0..Size : k \in S
  BY <1>1, <1>2, <1>3, Upwards
<1> QED BY <1>4 DEF S

LEMMA WordFacts ==
  ASSUME GivenInv, Closed, NEW n \in Declared, NEW w \in Words(n)
  PROVE  w \in Seq(Tokens) /\ Len(w) \in Nat /\ w \in WordsOfLength[Len(w)][n]
<1>1. PICK k \in 0..Size : w \in WordsOfLength[k][n]
  BY DEF Words, Size
<1>2. w \in Seq(Tokens) /\ Len(w) = k
  BY <1>1, LengthFacts
<1>3. k \in Nat
  BY SizeFacts
<1> QED BY <1>1, <1>2, <1>3

\* The only word of a terminal is the empty one.
LEMMA TerminalWords ==
  ASSUME GivenInv, NEW n \in Declared, nodes[n].type = "terminal"
  PROVE  Words(n) = {<<>>}
<1>1. Size \in Nat
  BY SizeFacts
<1>2. WordsOfLength[0][n] = {<<>>}
  BY WordsOfLengthFacts DEF EmptyWords
<1>3. ASSUME NEW k \in 0..Size, k # 0 PROVE WordsOfLength[k][n] = {}
  <2>1. k \in 1..Size
    BY <1>1, <1>3
  <2>2. WordsOfLength[k] = LongerWords(WordsOfLength[k - 1])
    BY <2>1, WordsOfLengthFacts
  <2>3. Steps(n) = {}
    BY DEF Steps
  <2> QED BY <2>2, <2>3, LongerFacts
<1>4. 0 \in 0..Size
  BY <1>1
<1> QED BY <1>2, <1>3, <1>4 DEF Words, Size

\* The words of any other name are those of its steps, when there is room for them.
LEMMA InnerWords ==
  ASSUME GivenInv, Closed, NEW n \in Declared, nodes[n].type # "terminal",
         \A s \in Steps(n) : \A w \in Words(s[2]) : Len(w) + 1 <= Size
  PROVE  Words(n) = UNION {Under(s) : s \in Steps(n)}
<1>1. Size \in Nat
  BY SizeFacts
<1>2. ASSUME NEW w \in Words(n) PROVE w \in UNION {Under(s) : s \in Steps(n)}
  <2>1. PICK k \in 0..Size : w \in WordsOfLength[k][n]
    BY <1>2 DEF Words, Size
  <2>2. k # 0
    BY <2>1, WordsOfLengthFacts DEF EmptyWords
  <2>3. k \in 1..Size /\ k - 1 \in 0..Size
    BY <1>1, <2>2
  <2>4. WordsOfLength[k] = LongerWords(WordsOfLength[k - 1])
    BY <2>3, WordsOfLengthFacts
  <2>5. PICK s \in Steps(n) : \E v \in WordsOfLength[k - 1][s[2]] : w = <<s[1]>> \o v
    <3>1. PICK g : g = WordsOfLength[k - 1]
      OBVIOUS
    <3>2. w \in LongerWords(g)[n]
      BY <2>1, <2>4, <3>1
    <3> QED BY <3>1, <3>2, LongerFacts
  <2>6. PICK v \in WordsOfLength[k - 1][s[2]] : w = <<s[1]>> \o v
    BY <2>5
  <2>7. v \in Words(s[2])
    BY <2>3, <2>6 DEF Words, Size
  <2> QED BY <2>6, <2>7 DEF Under
<1>3. ASSUME NEW s \in Steps(n), NEW w \in Under(s) PROVE w \in Words(n)
  <2>1. PICK v \in Words(s[2]) : w = <<s[1]>> \o v
    BY <1>3 DEF Under
  <2>2. s[2] \in Declared
    BY StepFacts
  <2>3. Len(v) \in Nat /\ v \in WordsOfLength[Len(v)][s[2]] /\ Len(v) + 1 <= Size
    BY <2>1, <2>2, WordFacts
  <2>4. PICK k \in Nat : k = Len(v)
    BY <2>3
  <2>5. k + 1 \in 1..Size /\ (k + 1) - 1 = k /\ k + 1 \in 0..Size
    BY <1>1, <2>3, <2>4
  <2>6. WordsOfLength[k + 1] = LongerWords(WordsOfLength[k])
    BY <2>5, WordsOfLengthFacts
  <2>7. w \in WordsOfLength[k + 1][n]
    BY <2>1, <2>3, <2>4, <2>6, LongerFacts
  <2> QED BY <2>5, <2>7 DEF Words, Size
<1> QED BY <1>2, <1>3

\* A union of disjoint sets has as many members as they have together.
LEMMA DisjointUnion ==
  ASSUME NEW len \in Nat, NEW c, NEW h, SumsUpTo(c, len, h), NEW u,
         \A i \in 1..len : IsFiniteSet(u[i]) /\ Cardinality(u[i]) = c[i],
         \A i, j \in 1..len : i # j => u[i] \cap u[j] = {},
         NEW X, \A x : x \in X <=> \E i \in 1..len : x \in u[i]
  PROVE  IsFiniteSet(X) /\ Cardinality(X) = h[len]
<1> DEFINE V(m) == UNION {u[i] : i \in 1..m}
           S == {m \in 0..len : IsFiniteSet(V(m)) /\ Cardinality(V(m)) = h[m]}
<1>1. 0 \in S
  <2>1. V(0) = {}
    OBVIOUS
  <2> HIDE DEF V
  <2>2. h[0] = 0 /\ 0 \in 0..len
    BY DEF SumsUpTo
  <2> QED BY <2>1, <2>2, FS_EmptySet
<1>2. ASSUME NEW m \in 0..len - 1, m \in S PROVE m + 1 \in S
  <2>1. /\ m + 1 \in 1..len /\ m + 1 \in 0..len /\ (m + 1) - 1 = m
        /\ \A i \in 1..m : i \in 1..len /\ i # m + 1
    OBVIOUS
  <2>2. V(m + 1) = V(m) \cup u[m + 1]
    <3>1. 1..m + 1 = (1..m) \cup {m + 1}
      OBVIOUS
    <3> QED BY <3>1
  <2>3. V(m) \cap u[m + 1] = {}
    BY <2>1
  <2> HIDE DEF V
  <2>4. IsFiniteSet(V(m)) /\ Cardinality(V(m)) = h[m]
    BY <1>2
  <2>5. IsFiniteSet(u[m + 1]) /\ Cardinality(u[m + 1]) = c[m + 1]
    BY <2>1
  <2>6. /\ IsFiniteSet(V(m) \cup u[m + 1])
        /\ Cardinality(V(m) \cup u[m + 1])
             = Cardinality(V(m)) + Cardinality(u[m + 1]) - Cardinality(V(m) \cap u[m + 1])
    BY <2>4, <2>5, FS_Union
  <2>7. Cardinality(V(m)) \in Nat /\ Cardinality(u[m + 1]) \in Nat
    BY <2>4, <2>5, FS_CardinalityType
  <2>8. Cardinality(V(m) \cap u[m + 1]) = 0
    BY <2>3, FS_EmptySet
  <2>9. h[m + 1] = h[m] + c[m + 1]
    BY <2>1 DEF SumsUpTo
  <2>10. Cardinality(V(m + 1)) = h[m + 1]
    <3>1. PICK a \in Nat, b \in Nat : a = Cardinality(V(m)) /\ b = Cardinality(u[m + 1])
      BY <2>7
    <3>2. Cardinality(V(m + 1)) = a + b - 0
      BY <2>2, <2>6, <2>8, <3>1
    <3>3. h[m + 1] = a + b
      BY <2>4, <2>5, <2>9, <3>1
    <3> QED BY <3>2, <3>3
  <2> QED BY <2>1, <2>2, <2>6, <2>10
<1> HIDE DEF S
<1>3. \A m \in 0..len : m \in S
  BY <1>1, <1>2, Upwards
<1>4. len \in S
  BY <1>3
<1>5. V(len) = X
  OBVIOUS
<1> QED BY <1>4, <1>5 DEF S

\* A step has as many words as the name it leads to, and steps that read
\* different tokens have none in common.
LEMMA UnderFacts ==
  ASSUME GivenInv, Closed, NEW n \in Declared, NEW s \in Steps(n)
  PROVE  /\ IsFiniteSet(Words(s[2])) =>
              IsFiniteSet(Under(s)) /\ Cardinality(Under(s)) = Cardinality(Words(s[2]))
         /\ \A r \in Steps(n) : s[1] # r[1] => Under(s) \cap Under(r) = {}
<1>1. \A r \in Steps(n) : \A v \in Words(r[2]) : r[1] \in Tokens /\ v \in Seq(Tokens)
  BY StepFacts, WordFacts
<1>2. ASSUME IsFiniteSet(Words(s[2]))
      PROVE  IsFiniteSet(Under(s)) /\ Cardinality(Under(s)) = Cardinality(Words(s[2]))
  <2>1. PICK W : W = Words(s[2])
    OBVIOUS
  <2> DEFINE f == [w \in W |-> <<s[1]>> \o w]
  <2>2. f \in [W -> Under(s)] /\ \A v \in Under(s) : \E w \in W : f[w] = v
    BY <2>1 DEF Under
  <2>3. \A w, v \in W : f[w] = f[v] => w = v
    <3>1. ASSUME NEW w \in W, NEW v \in W, f[w] = f[v] PROVE w = v
      <4>1. <<s[1]>> \o w = <<s[1]>> \o v
        BY <3>1
      <4>2. s[1] \in Tokens /\ w \in Seq(Tokens) /\ v \in Seq(Tokens)
        BY <1>1, <2>1
      <4> QED BY <4>1, <4>2, TokenFirst
    <3> QED BY <3>1
  <2> HIDE DEF f
  <2>4. f \in Bijection(W, Under(s))
    BY <2>2, <2>3, Fun_IsBij
  <2>5. ExistsBijection(W, Under(s))
    BY <2>4, Fun_ExistsBij
  <2> QED BY <1>2, <2>1, <2>5, FS_Bijection
<1>3. ASSUME NEW r \in Steps(n), s[1] # r[1], NEW w \in Under(s), w \in Under(r) PROVE FALSE
  <2>1. PICK v \in Words(s[2]) : w = <<s[1]>> \o v
    BY <1>3 DEF Under
  <2>2. PICK x \in Words(r[2]) : w = <<r[1]>> \o x
    BY <1>3 DEF Under
  <2>3. w[1] = s[1]
    BY <1>1, <2>1, TokenFirst
  <2>4. w[1] = r[1]
    BY <1>1, <2>2, TokenFirst
  <2> QED BY <1>3, <2>3, <2>4
<1> QED BY <1>2, <1>3

\* The steps of a name can be listed, each token once, so that the counts of where
\* they lead add up to its total.
StepList(n, len, q, c, h) ==
  /\ Steps(n) = {q[i] : i \in 1..len}
  /\ \A i, j \in 1..len : q[i][1] = q[j][1] => i = j
  /\ \A i \in 1..len : c[i] = counts[q[i][2]]
  /\ SumsUpTo(c, len, h)
  /\ h[len] = Total(nodes[n])

LEMMA ChoiceSteps ==
  ASSUME GivenInv, ParseAccepts, NEW n \in Declared, nodes[n].type = "choice",
         \A t \in Elements(TargetsOf(n)) : counts[t] \in Nat \ {0}
  PROVE  \E len \in Nat : \E q, c, h : StepList(n, len, q, c, h)
<1>1. PICK len, b, c : /\ len = Len(nodes[n].branches) /\ b = nodes[n].branches
                       /\ c = BranchCounts(nodes[n], counts)
  OBVIOUS
<1>2. /\ len \in Nat /\ DOMAIN b = 1..len
      /\ \A i \in 1..len : c[i] = counts[b[i].target]
      /\ SumsUpTo(c, len, PrefixSum(c))
  BY <1>1, BranchFacts
<1>3. \A i, j \in 1..len : b[i].value = b[j].value => i = j
  BY <1>1, <1>2, ParsedNode DEF DistinctValues
<1> DEFINE q == [i \in 1..len |-> <<<<"str", b[i].value>>, b[i].target>>]
<1>4. Steps(n) = {q[i] : i \in 1..len}
  <2>1. Steps(n) = {<<<<"str", x.value>>, x.target>> : x \in Elements(b)}
    BY <1>1 DEF Steps
  <2>2. Elements(b) = {b[i] : i \in 1..len}
    BY <1>2 DEF Elements
  <2> QED BY <2>1, <2>2
<1>5. \A i \in 1..len : q[i][1] = <<"str", b[i].value>> /\ q[i][2] = b[i].target
  OBVIOUS
<1> HIDE DEF q
<1>6. Total(nodes[n]) = PrefixSum(c)[len]
  BY <1>1 DEF Total
<1>7. \A i, j \in 1..len : q[i][1] = q[j][1] => i = j
  BY <1>3, <1>5
<1>8. StepList(n, len, q, c, PrefixSum(c))
  BY <1>2, <1>4, <1>5, <1>6, <1>7 DEF StepList
<1> QED BY <1>2, <1>8

LEMMA RangeSteps ==
  ASSUME GivenInv, ParseAccepts, NEW n \in Declared, nodes[n].type = "range",
         \A t \in Elements(TargetsOf(n)) : counts[t] \in Nat \ {0}
  PROVE  \E len \in Nat : \E q, c, h : StepList(n, len, q, c, h)
<1>1. PICK start, stop, target :
        start = nodes[n].start /\ stop = nodes[n].stop /\ target = nodes[n].target
  OBVIOUS
<1>2. /\ start \in Int /\ stop \in Int /\ start <= stop
      /\ TargetsOf(n) = <<target>>
  BY <1>1, NodeFacts, ParsedNode
<1>3. PICK each \in Nat : each = counts[target]
  <2>1. target \in Elements(TargetsOf(n))
    BY <1>2 DEF Elements
  <2> QED BY <2>1
<1>4. PICK len \in Nat : len = stop - start + 1
  BY <1>2
<1> DEFINE q == [i \in 1..len |-> <<<<"int", start + i - 1>>, target>>]
           c == [i \in 1..len |-> each]
           h == [i \in 0..len |-> i * each]
<1>5. Steps(n) = {q[i] : i \in 1..len}
  <2>1. Steps(n) = {<<<<"int", v>>, target>> : v \in start..stop}
    BY <1>1 DEF Steps
  <2>2. ASSUME NEW v \in start..stop
        PROVE  \E i \in 1..len : q[i] = <<<<"int", v>>, target>>
    <3>1. v - start + 1 \in 1..len /\ start + (v - start + 1) - 1 = v
      BY <1>2, <1>4
    <3> QED BY <3>1
  <2>3. ASSUME NEW i \in 1..len PROVE q[i] \in Steps(n)
    <3>1. start + i - 1 \in start..stop /\ q[i] = <<<<"int", start + i - 1>>, target>>
      BY <1>2, <1>4
    <3> QED BY <2>1, <3>1
  <2> HIDE DEF q
  <2>4. \A s \in Steps(n) : \E i \in 1..len : s = q[i]
    BY <2>1, <2>2
  <2> QED BY <2>3, <2>4
<1>6. \A i, j \in 1..len : q[i][1] = q[j][1] => i = j
  BY <1>2
<1>7. \A i \in 1..len : c[i] = counts[q[i][2]]
  BY <1>3
<1>8. SumsUpTo(c, len, h)
  <2>1. \A i \in Int : i * each = (i - 1) * each + each
    OBVIOUS
  <2>2. \A i \in 0..len : i * each \in Int
    OBVIOUS
  <2>3. 0 * each = 0
    OBVIOUS
  <2>4. h \in [0..len -> Int]
    BY <2>2
  <2>5. ASSUME NEW i \in 1..len PROVE h[i] = h[i - 1] + c[i]
    <3>1. i \in 0..len /\ i - 1 \in 0..len
      OBVIOUS
    <3> QED BY <2>1, <3>1
  <2> QED BY <2>3, <2>4, <2>5 DEF SumsUpTo
<1>9. h[len] = Total(nodes[n])
  BY <1>1, <1>3, <1>4 DEF Total, Width
<1> HIDE DEF q, c, h
<1>10. StepList(n, len, q, c, h)
  BY <1>5, <1>6, <1>7, <1>8, <1>9 DEF StepList
<1> QED BY <1>10

\* Every target of a name is where one of its steps leads.
LEMMA TargetSteps ==
  ASSUME GivenInv, ParseAccepts, NEW n \in Declared, NEW t \in Elements(TargetsOf(n))
  PROVE  \E s \in Steps(n) : s[2] = t
<1>1. PICK i \in DOMAIN TargetsOf(n) : t = TargetsOf(n)[i]
  BY DEF Elements
<1>2. i \in 1..Len(TargetsOf(n))
  BY <1>1, TargetsFacts
<1>3. CASE nodes[n].type = "choice"
  <2>1. i \in DOMAIN nodes[n].branches /\ t = nodes[n].branches[i].target
    BY <1>1, <1>2, <1>3, NodeFacts
  <2>2. nodes[n].branches[i] \in Elements(nodes[n].branches)
    BY <2>1 DEF Elements
  <2>3. <<<<"str", nodes[n].branches[i].value>>, t>> \in Steps(n)
    BY <1>3, <2>1, <2>2 DEF Steps
  <2> QED BY <2>3
<1>4. CASE nodes[n].type = "range"
  <2>1. /\ t = nodes[n].target
        /\ nodes[n].start \in nodes[n].start..nodes[n].stop
    BY <1>1, <1>2, <1>4, NodeFacts, ParsedNode
  <2>2. <<<<"int", nodes[n].start>>, t>> \in Steps(n)
    BY <1>4, <2>1 DEF Steps
  <2> QED BY <2>2
<1>5. CASE nodes[n].type = "terminal"
  BY <1>1, <1>2, <1>5, NodeFacts
<1> QED BY <1>3, <1>4, <1>5, ParsedNode

\* A name that is not a terminal is one deeper than one of its targets.
LEMMA DeepestTarget ==
  ASSUME GivenInv, ParseAccepts, NEW n \in Declared, NEW most \in Nat,
         nodes[n].type # "terminal",
         \A t \in Elements(TargetsOf(n)) : depths[t] \in 0..most
  PROVE  \E t \in Elements(TargetsOf(n)) : Depth(nodes[n]) = 1 + depths[t]
<1> DEFINE S == {depths[TargetsOf(n)[i]] : i \in DOMAIN TargetsOf(n)}
<1>1. S \in SUBSET (0..most)
  BY DEF Elements
<1>2. S # {}
  <2>1. 1 \in DOMAIN TargetsOf(n)
    <3>1. CASE nodes[n].type = "range"
      BY <3>1, NodeFacts
    <3>2. CASE nodes[n].type = "choice"
      <4>1. /\ nodes[n].branches # <<>> /\ nodes[n].branches \in Seq(Branch)
            /\ Len(TargetsOf(n)) = Len(nodes[n].branches)
        BY <3>2, ParsedNode, NodeFacts
      <4>2. Len(TargetsOf(n)) # 0
        BY <4>1, EmptySeq
      <4> QED BY <4>2, TargetsFacts
    <3> QED BY <3>1, <3>2, ParsedNode
  <2> QED BY <2>1
<1>3. Depth(nodes[n]) = 1 + Max(S)
  BY DEF Depth, TargetsOf
<1>4. \A x \in S : \E t \in Elements(TargetsOf(n)) : x = depths[t]
  BY DEF Elements
<1> HIDE DEF S
<1>5. Max(S) \in S
  BY <1>1, <1>2, MaxFacts
<1> QED BY <1>3, <1>4, <1>5

\* The counting step is right about a name whose targets are measured.
LEMMA MeasureName ==
  ASSUME GivenInv, ParseAccepts, Closed, NEW n \in Declared, NEW room \in Nat, room <= Size,
         \A t \in Elements(TargetsOf(n)) :
           /\ counts[t] \in Nat \ {0} /\ depths[t] \in Nat /\ depths[t] < room
           /\ Measured(t, counts[t], depths[t])
  PROVE  Measured(n, Total(nodes[n]), Depth(nodes[n])) /\ Depth(nodes[n]) <= room
<1>1. CASE nodes[n].type = "terminal"
  <2>1. Words(n) = {<<>>}
    BY <1>1, TerminalWords
  <2>2. Total(nodes[n]) = 1 /\ Depth(nodes[n]) = 0
    BY <1>1 DEF Total, Depth
  <2>3. IsFiniteSet({<<>>}) /\ Cardinality({<<>>}) = 1
    BY FS_Singleton
  <2>4. Len(<<>>) = 0
    OBVIOUS
  <2> QED BY <2>1, <2>2, <2>3, <2>4 DEF Measured
<1>2. CASE nodes[n].type # "terminal"
  <2>1. PICK total, depth : total = Total(nodes[n]) /\ depth = Depth(nodes[n])
    OBVIOUS
  <2>2. \A t \in Elements(TargetsOf(n)) : depths[t] \in 0..room
    OBVIOUS
  <2>3. /\ depth \in Nat /\ \A t \in Elements(TargetsOf(n)) : depths[t] < depth
        /\ \E t \in Elements(TargetsOf(n)) : depth = 1 + depths[t]
    BY <1>2, <2>1, <2>2, DepthFacts, DeepestTarget
  <2>4. depth <= room
    BY <2>3
  <2>5. ASSUME NEW s \in Steps(n)
        PROVE  /\ s[2] \in Declared /\ s[2] \in Elements(TargetsOf(n))
               /\ Measured(s[2], counts[s[2]], depths[s[2]])
               /\ depths[s[2]] \in Nat /\ depths[s[2]] < depth
    BY <2>3, StepFacts
  <2>6. ASSUME NEW s \in Steps(n), NEW w \in Words(s[2])
        PROVE  Len(w) \in Nat /\ Len(w) + 1 <= depth /\ Len(w) + 1 <= Size
    <3>1. Len(w) \in Nat /\ Len(w) <= depths[s[2]]
      BY <2>5, WordFacts DEF Measured
    <3>2. Size \in Nat
      BY SizeFacts
    <3> QED BY <2>3, <2>4, <2>5, <3>1, <3>2
  <2>7. Words(n) = UNION {Under(s) : s \in Steps(n)}
    BY <1>2, <2>6, InnerWords
  <2>8. PICK len \in Nat : \E q, c, h : StepList(n, len, q, c, h)
    <3>1. nodes[n].type \in {"choice", "range"}
      BY <1>2, ParsedNode
    <3> QED BY <3>1, ChoiceSteps, RangeSteps
  <2>9. PICK q, c, h : StepList(n, len, q, c, h)
    BY <2>8
  <2> DEFINE u == [i \in 1..len |-> Under(q[i])]
  <2>10. \A i \in 1..len : q[i] \in Steps(n) /\ u[i] = Under(q[i])
    BY <2>9 DEF StepList
  <2>11. Words(n) = UNION {u[i] : i \in 1..len}
    <3>1. {Under(s) : s \in Steps(n)} = {u[i] : i \in 1..len}
      BY <2>9 DEF StepList
    <3> QED BY <2>7, <3>1
  <2> HIDE DEF u
  <2>12. ASSUME NEW i \in 1..len PROVE IsFiniteSet(u[i]) /\ Cardinality(u[i]) = c[i]
    <3>1. q[i] \in Steps(n) /\ u[i] = Under(q[i]) /\ c[i] = counts[q[i][2]]
      BY <2>9, <2>10 DEF StepList
    <3>2. IsFiniteSet(Words(q[i][2])) /\ Cardinality(Words(q[i][2])) = counts[q[i][2]]
      BY <2>5, <3>1 DEF Measured
    <3> QED BY <3>1, <3>2, UnderFacts
  <2>13. ASSUME NEW i \in 1..len, NEW j \in 1..len, i # j PROVE u[i] \cap u[j] = {}
    <3>1. q[i][1] # q[j][1]
      BY <2>9, <2>13 DEF StepList
    <3> QED BY <2>10, <3>1, UnderFacts
  <2>14. IsFiniteSet(Words(n)) /\ Cardinality(Words(n)) = h[len]
    <3>1. SumsUpTo(c, len, h)
      BY <2>9 DEF StepList
    <3>2. /\ \A i \in 1..len : IsFiniteSet(u[i]) /\ Cardinality(u[i]) = c[i]
          /\ \A i, j \in 1..len : i # j => u[i] \cap u[j] = {}
      BY <2>12, <2>13
    <3>3. PICK X : X = Words(n) /\ \A x : x \in X <=> \E i \in 1..len : x \in u[i]
      BY <2>11
    <3>4. IsFiniteSet(X) /\ Cardinality(X) = h[len]
      BY <3>1, <3>2, <3>3, DisjointUnion
    <3> QED BY <3>3, <3>4
  <2>15. h[len] = total
    BY <2>1, <2>9 DEF StepList
  <2>16. ASSUME NEW w \in Words(n) PROVE Len(w) \in 0..depth
    <3>1. PICK s \in Steps(n) : w \in Under(s)
      BY <2>7
    <3>2. PICK v \in Words(s[2]) : w = <<s[1]>> \o v
      BY <3>1 DEF Under
    <3>3. s[1] \in Tokens /\ v \in Seq(Tokens)
      BY <2>5, <3>2, StepFacts, WordFacts
    <3>4. Len(w) = Len(v) + 1
      BY <3>2, <3>3, TokenFirst
    <3> QED BY <2>6, <3>2, <3>4
  <2>17. \E w \in Words(n) : Len(w) = depth
    <3>1. PICK t \in Elements(TargetsOf(n)) : depth = 1 + depths[t]
      BY <2>3
    <3>2. PICK s \in Steps(n) : s[2] = t
      BY TargetSteps
    <3>3. PICK v \in Words(s[2]) : Len(v) = depths[t]
      BY <2>5, <3>2 DEF Measured
    <3>4. s[1] \in Tokens /\ v \in Seq(Tokens) /\ Len(v) \in Nat
      BY <2>5, <3>3, StepFacts, WordFacts
    <3>5. Len(<<s[1]>> \o v) = Len(v) + 1
      BY <3>4, TokenFirst
    <3>6. <<s[1]>> \o v \in Under(s)
      BY <3>3 DEF Under
    <3>7. <<s[1]>> \o v \in Words(n)
      BY <2>7, <3>6
    <3>8. Len(<<s[1]>> \o v) = depth
      BY <3>1, <3>3, <3>4, <3>5
    <3> QED BY <3>7, <3>8
  <2>18. Measured(n, total, depth)
    BY <2>14, <2>15, <2>16, <2>17 DEF Measured
  <2> QED BY <2>1, <2>4, <2>18
<1> QED BY <1>1, <1>2

\* What has been counted is measured and within the limits, and a refusal for bits or
\* depth has a name to show.  A depth has as many names before it in the postorder.
WordInv ==
  /\ verdict # "empty"
  /\ \A n \in DOMAIN counts :
       /\ n \in Declared
       /\ Measured(n, counts[n], depths[n])
       /\ counts[n] < 2 ^ limits.maxDomainBits
       /\ depths[n] \in Nat /\ depths[n] <= limits.maxDepth /\ depths[n] < position - 1
  /\ verdict = "bits" => \E n \in Declared : Cardinality(Words(n)) >= 2 ^ limits.maxDomainBits
  /\ verdict = "depth" => \E n \in Declared : \E w \in Words(n) : Len(w) > limits.maxDepth

LEMMA SameWords ==
  ASSUME UNCHANGED given
  PROVE  /\ \A n : Words(n)' = Words(n)
         /\ \A n, count, depth : Measured(n, count, depth)' = Measured(n, count, depth)
<1>1. doc' = doc /\ Declared' = Declared
  BY SameDocument
<1>2. \A g : LongerWords(g)' = LongerWords(g)
  BY <1>1 DEF LongerWords, Steps, Elements, nodes, Declared
<1>3. WordsOfLength' = WordsOfLength
  <2>1. EmptyWords' = EmptyWords
    BY <1>1 DEF EmptyWords, nodes
  <2> QED BY <1>1, <1>2, <2>1 DEF WordsOfLength
<1>4. \A n : Words(n)' = Words(n)
  BY <1>1, <1>3 DEF Words
<1> QED BY <1>4 DEF Measured

\* A step that counts no name and refuses none for its size.
LEMMA WordFrame ==
  ASSUME WordInv, UNCHANGED <<given, position, counts, depths>>,
         verdict' = verdict \/ verdict' \in {"parse", "missing target", "unreachable", "cycle"}
  PROVE  WordInv'
<1>1. UNCHANGED given /\ position' = position /\ counts' = counts /\ depths' = depths
  OBVIOUS
<1>2. Declared' = Declared /\ limits' = limits
  BY <1>1, SameDocument
<1>3. /\ \A n : Words(n)' = Words(n)
      /\ \A n, count, depth : Measured(n, count, depth)' = Measured(n, count, depth)
  BY <1>1, SameWords
<1>4. \A n \in DOMAIN counts : Measured(n, counts[n], depths[n])'
  BY <1>1, <1>3 DEF WordInv, Measured
<1> QED BY <1>1, <1>2, <1>3, <1>4 DEF WordInv

LEMMA CountNodeWords == IInv /\ WordInv /\ CountNode => WordInv'
<1> SUFFICES ASSUME IInv, WordInv, CountNode PROVE WordInv'
  OBVIOUS
<1>1. PICK name, total, depth :
        /\ name = postorder[position]
        /\ total = Total(nodes[name])
        /\ depth = Depth(nodes[name])
        /\ IF Complaint(total, depth) # "none"
             THEN Reject(Complaint(total, depth)) /\ UNCHANGED <<position, counts, depths>>
             ELSE /\ counts' = [n \in DOMAIN counts \cup {name} |->
                                  IF n = name THEN total ELSE counts[n]]
                  /\ depths' = [n \in DOMAIN depths \cup {name} |->
                                  IF n = name THEN depth ELSE depths[n]]
                  /\ position' = position + 1
                  /\ UNCHANGED <<pc, verdict>>
  BY DEF CountNode
<1>2. /\ pc = "count" /\ position <= Len(postorder) /\ verdict = "none"
      /\ ParseAccepts /\ Closed /\ GivenInv /\ Counting
      /\ UNCHANGED given
  BY DEF CountNode, IInv, VerdictInv, Ordering, Counting
<1>3. PICK len \in Nat : len = Len(postorder) /\ DOMAIN postorder = 1..len
                         /\ postorder \in [1..len -> Declared]
  <2>1. postorder \in Seq(Declared)
    BY <1>2 DEF IInv, PostorderInv
  <2> QED BY <2>1, LenProperties
<1>4. /\ position \in 1..len
      /\ DOMAIN counts = {postorder[p] : p \in 1..position - 1}
      /\ DOMAIN depths = DOMAIN counts
      /\ \A n \in DOMAIN counts : counts[n] \in Nat \ {0}
  BY <1>2, <1>3 DEF IInv, CountInv
<1>5. len <= Size
  <2>1. \A p, q \in 1..len : postorder[p] = postorder[q] => p = q
    BY <1>2, <1>3 DEF IInv, PostorderInv
  <2>2. postorder \in Injection(1..len, Declared)
    BY <1>3, <2>1, Fun_IsInj
  <2>3. Cardinality(1..len) <= Size
    BY <1>2, <2>2, SizeFacts, FS_Injection DEF Size
  <2>4. Cardinality(1..len) = IF 1 > len THEN 0 ELSE len - 1 + 1
    BY FS_Interval
  <2> QED BY <2>3, <2>4
<1>6. name \in Declared /\ \A t \in Elements(TargetsOf(name)) : t \in DOMAIN counts
  <2>1. name \in Declared
    BY <1>1, <1>3, <1>4
  <2>2. ASSUME NEW t \in Elements(TargetsOf(name)) PROVE t \in DOMAIN counts
    <3>1. PICK q \in 1..len : q < position /\ postorder[q] = t
      BY <1>1, <1>2, <1>3, <1>4 DEF IInv, PostorderInv
    <3>2. q \in 1..position - 1
      BY <1>4, <3>1
    <3> QED BY <1>4, <3>1, <3>2
  <2> QED BY <2>1, <2>2
<1>7. PICK room \in Nat : room = position - 1 /\ room <= Size
  <2>1. Size \in Nat
    BY <1>2, SizeFacts
  <2> QED BY <1>4, <1>5, <2>1
<1>8. \A t \in Elements(TargetsOf(name)) :
        /\ counts[t] \in Nat \ {0} /\ depths[t] \in Nat /\ depths[t] < room
        /\ Measured(t, counts[t], depths[t])
  BY <1>4, <1>6, <1>7 DEF WordInv
<1>9. Measured(name, total, depth) /\ depth <= room
  BY <1>1, <1>2, <1>6, <1>7, <1>8, MeasureName
<1>10. total \in Nat \ {0}
  BY <1>1, <1>2, <1>6, <1>8, TotalIsPositive
<1>11. depth \in Nat
  <2>1. \A t \in Elements(TargetsOf(name)) : depths[t] \in 0..room
    BY <1>8
  <2> QED BY <1>1, <1>2, <1>6, <1>7, <2>1, DepthFacts
<1>12. /\ Declared' = Declared /\ limits' = limits
       /\ \A n : Words(n)' = Words(n)
       /\ \A n, c, d : Measured(n, c, d)' = Measured(n, c, d)
  BY <1>2, SameDocument, SameWords
<1>13. limits.maxDepth \in Nat /\ limits.maxDomainBits \in Nat
  BY <1>2 DEF GivenInv
<1>14. 2 ^ limits.maxDomainBits \in Int
  BY <1>13
<1>15. CASE Complaint(total, depth) = "none"
  <2>1. /\ counts' = [n \in DOMAIN counts \cup {name} |-> IF n = name THEN total ELSE counts[n]]
        /\ depths' = [n \in DOMAIN depths \cup {name} |-> IF n = name THEN depth ELSE depths[n]]
        /\ position' = position + 1 /\ verdict' = "none"
    BY <1>1, <1>2, <1>15
  <2>2. /\ DOMAIN counts' = DOMAIN counts \cup {name}
        /\ counts'[name] = total /\ depths'[name] = depth
        /\ \A n \in DOMAIN counts : n # name => counts'[n] = counts[n] /\ depths'[n] = depths[n]
    BY <1>4, <2>1
  <2>3. total < 2 ^ limits.maxDomainBits /\ depth <= limits.maxDepth
    BY <1>10, <1>11, <1>13, <1>14, <1>15 DEF Complaint, TooManyBits
  <2>4. ASSUME NEW n \in DOMAIN counts'
        PROVE  /\ n \in Declared
               /\ Measured(n, counts'[n], depths'[n])
               /\ counts'[n] < 2 ^ limits.maxDomainBits
               /\ depths'[n] \in Nat /\ depths'[n] <= limits.maxDepth
               /\ depths'[n] < position' - 1
    <3>1. CASE n = name
      <4>1. Measured(n, counts'[n], depths'[n])
        BY <1>9, <2>2, <3>1
      <4>2. depths'[n] < position' - 1
        BY <1>4, <1>7, <1>9, <1>11, <2>1, <2>2, <3>1
      <4>3. /\ n \in Declared /\ counts'[n] < 2 ^ limits.maxDomainBits
            /\ depths'[n] \in Nat /\ depths'[n] <= limits.maxDepth
        BY <1>6, <1>11, <2>2, <2>3, <3>1
      <4> QED BY <4>1, <4>2, <4>3
    <3>2. CASE n # name
      BY <1>4, <2>1, <2>2, <2>4, <3>2 DEF WordInv
    <3> QED BY <3>1, <3>2
  <2>5. \A n \in DOMAIN counts' : Measured(n, counts[n], depths[n])'
    BY <1>12, <2>4 DEF Measured
  <2> QED BY <1>12, <2>1, <2>4, <2>5 DEF WordInv
<1>16. CASE Complaint(total, depth) = "bits"
  <2>1. verdict' = "bits" /\ UNCHANGED <<position, counts, depths>>
    BY <1>1, <1>16 DEF Reject
  <2>2. total >= 2 ^ limits.maxDomainBits
    BY <1>10, <1>16 DEF Complaint, TooManyBits
  <2>3. Cardinality(Words(name)) >= 2 ^ limits.maxDomainBits
    BY <1>9, <2>2 DEF Measured
  <2>4. \A n \in DOMAIN counts' : Measured(n, counts[n], depths[n])'
    BY <1>12, <2>1 DEF WordInv, Measured
  <2> QED BY <1>6, <1>12, <2>1, <2>3, <2>4 DEF WordInv
<1>17. CASE Complaint(total, depth) = "depth"
  <2>1. verdict' = "depth" /\ UNCHANGED <<position, counts, depths>>
    BY <1>1, <1>17 DEF Reject
  <2>2. depth > limits.maxDepth
    BY <1>10, <1>17 DEF Complaint
  <2>3. \E w \in Words(name) : Len(w) > limits.maxDepth
    BY <1>9, <2>2 DEF Measured
  <2>4. \A n \in DOMAIN counts' : Measured(n, counts[n], depths[n])'
    BY <1>12, <2>1 DEF WordInv, Measured
  <2> QED BY <1>6, <1>12, <2>1, <2>3, <2>4 DEF WordInv
<1>18. Complaint(total, depth) \in {"bits", "depth", "none"}
  BY <1>2, <1>10, <1>11, ComplaintFacts
<1> QED BY <1>15, <1>16, <1>17, <1>18

LEMMA WordStep == IInv /\ WordInv /\ [Next]_vars => WordInv'
<1> SUFFICES ASSUME IInv, WordInv, [Next]_vars PROVE WordInv'
  OBVIOUS
<1>1. CASE Parse
  BY <1>1, WordFrame DEF Parse, Reject, tables
<1>2. CASE CheckTargets
  BY <1>2, WordFrame DEF CheckTargets, Reject, tables
<1>3. CASE Visit
  BY <1>3, WordFrame DEF Visit, tables
<1>4. CASE CheckReachable
  BY <1>4, WordFrame DEF CheckReachable, Reject, tables
<1>5. CASE TakeReady
  BY <1>5, WordFrame DEF TakeReady, tables
<1>6. CASE ReleaseEdge
  BY <1>6, WordFrame DEF ReleaseEdge, tables
<1>7. CASE FinishOrder
  BY <1>7, WordFrame DEF FinishOrder, Reject
<1>8. CASE CountNode
  BY <1>8, CountNodeWords
<1>9. CASE BuildIndexes
  BY <1>9, WordFrame DEF BuildIndexes
<1>10. CASE UNCHANGED vars
  BY <1>10, WordFrame DEF vars, tables
<1> QED BY <1>1, <1>2, <1>3, <1>4, <1>5, <1>6, <1>7, <1>8, <1>9, <1>10 DEF Next

\* Every count and depth the constructor has found is that of the name's words.
THEOREM CountsAreMeasured == Spec => [](IInv /\ WordInv)
<1>1. Init => WordInv
  BY DEF Init, WordInv, EmptyMap
<1>2. IInv /\ WordInv /\ [Next]_vars => IInv' /\ WordInv'
  BY ParseStep, CheckTargetsStep, VisitStep, CheckReachableStep, TakeReadyStep, ReleaseEdgeStep,
     FinishOrderStep, CountNodeStep, BuildIndexesStep, StutterStep, WordStep DEF Next
<1> QED BY InitIInv, <1>1, <1>2, PTL DEF Spec

\* The count of every name is how many words lead from it to a terminal, and its depth
\* how long the longest of them is, for any document the constructor accepts and
\* however much its names are shared (190-215).
THEOREM CountsAndDepths == Spec => []CountsWords
<1>1. IInv /\ WordInv => CountsWords
  <2>1. SUFFICES ASSUME IInv, WordInv, pc = "ready", NEW n \in Declared
                 PROVE  counts[n] = Cardinality(Words(n))
                        /\ depths[n] = Max({Len(w) : w \in Words(n)})
    BY DEF CountsWords
  <2>2. n \in DOMAIN counts /\ GivenInv /\ Closed
    BY <2>1, ReadyCounts DEF IInv, VerdictInv, Ordering
  <2>3. Measured(n, counts[n], depths[n]) /\ depths[n] \in Nat
    BY <2>1, <2>2 DEF WordInv
  <2> DEFINE S == {Len(w) : w \in Words(n)}
  <2>4. S \in SUBSET (0..depths[n]) /\ depths[n] \in S
    BY <2>2, <2>3, WordFacts DEF Measured
  <2>5. counts[n] = Cardinality(Words(n))
    BY <2>3 DEF Measured
  <2> HIDE DEF S
  <2>6. Max(S) \in S /\ depths[n] <= Max(S)
    BY <2>3, <2>4, MaxFacts
  <2>7. depths[n] = Max(S)
    <3>1. Max(S) \in 0..depths[n]
      BY <2>4, <2>6
    <3> QED BY <2>3, <2>6, <3>1
  <2> QED BY <2>5, <2>7 DEF S
<1> QED BY CountsAreMeasured, <1>1, PTL

\* A document is refused for its size or its depth only when some name has that many
\* words or one that long, and no name beyond a limit is ever counted; no name is
\* found empty (203-215).
THEOREM LimitsHold == Spec => []LimitsAreExact
<1>1. IInv /\ WordInv => LimitsAreExact
  <2>1. SUFFICES ASSUME IInv, WordInv PROVE LimitsAreExact
    OBVIOUS
  <2>2. ASSUME NEW n \in DOMAIN counts
        PROVE  /\ Cardinality(Words(n)) < 2 ^ limits.maxDomainBits
               /\ \A w \in Words(n) : Len(w) <= limits.maxDepth
    <3>1. /\ n \in Declared /\ Measured(n, counts[n], depths[n])
          /\ counts[n] < 2 ^ limits.maxDomainBits
          /\ depths[n] \in Nat /\ depths[n] <= limits.maxDepth
      BY <2>1 DEF WordInv
    <3>2. limits.maxDepth \in Nat
      BY <2>1 DEF IInv, GivenInv
    <3>3. Cardinality(Words(n)) < 2 ^ limits.maxDomainBits
      BY <3>1 DEF Measured
    <3>4. \A w \in Words(n) : Len(w) <= limits.maxDepth
      BY <3>1, <3>2 DEF Measured
    <3> QED BY <3>3, <3>4
  <2> QED BY <2>1, <2>2 DEF WordInv, LimitsAreExact
<1> QED BY CountsAreMeasured, <1>1, PTL
-----------------------------------------------------------------------------
(***************************************************************************)
(* The native engine.  What it counts by a recursion with checked machine  *)
(* arithmetic are the numbers that the equations of the lines have, which  *)
(* have one solution when the graph has no cycle.                          *)
(***************************************************************************)
CONSTANTS NativeFiles, WordBits, DepthLimit, PartLimit
VARIABLES file, states, tallies, calls, arg, answer

Native == INSTANCE NativeCount WITH
  Files <- NativeFiles, Bits <- WordBits, MaxDepth <- DepthLimit, MaxTokens <- PartLimit,
  counts <- tallies, stack <- calls

\* Lines N, and K: where the branches of each lead, with ranges of at most size values.
Wide(N, id) == N[id].stop - N[id].start + 1
Net(N, K, size) ==
  /\ Len(N) \in Nat /\ DOMAIN N = 1..Len(N) /\ K \in [DOMAIN N -> Seq(DOMAIN N)]
  /\ \A id \in DOMAIN N :
       \/ N[id].type = "T" /\ Len(K[id]) = 0
       \/ N[id].type = "C" /\ Len(K[id]) > 0
       \/ N[id].type = "R" /\ Len(K[id]) = 1 /\ Wide(N, id) \in 1..size

\* What a node makes of the values of those that it leads to.
Made(N, K, v, id) ==
  CASE N[id].type = "T" -> 1
    [] N[id].type = "C" -> Native!Sums(v, K[id])[Len(K[id])]
    [] N[id].type = "R" -> Wide(N, id) * v[K[id][1]]
\* Nothing in S leads out of it; S has no cycle; v is exact on D.
Shut(K, S) == \A id \in S : \A i \in 1..Len(K[id]) : K[id][i] \in S
Ending(K, S) ==
  \A T \in SUBSET S : T # {} => \E id \in T : \A i \in 1..Len(K[id]) : K[id][i] \notin T
Solves(N, K, D, v) == \A id \in D : v[id] = Made(N, K, v, id)

\* The sums of a choice, one branch after the other (compute_count, 205-208).
LEMMA SumsAt ==
  ASSUME NEW v, NEW s, Len(s) \in Nat
  PROVE  /\ Native!Sums(v, s)[0] = 0
         /\ \A k \in 0..Len(s) - 1 : Native!Sums(v, s)[k + 1] = Native!Sums(v, s)[k] + v[s[k + 1]]
<1> DEFINE N == Len(s)
           UpTo(n, p) == p = [k \in 0..n |-> IF k = 0 THEN 0 ELSE p[k - 1] + v[s[k]]]
           S == {n \in 0..N : \E p : UpTo(n, p)}
           e == Native!Sums(v, s)
<1>0. (\E p : UpTo(N, p)) => UpTo(N, e)
  BY DEF Native!Sums
<1> HIDE DEF e
<1>1. 0 \in S
  <2> DEFINE p == [k \in 0..0 |-> 0]
  <2>1. UpTo(0, p)
    OBVIOUS
  <2> HIDE DEF UpTo
  <2> QED BY <2>1
<1>2. ASSUME NEW n \in 0..N - 1, n \in S PROVE n + 1 \in S
  <2>1. PICK p : UpTo(n, p)
    BY <1>2
  <2> DEFINE q == [k \in 0..n + 1 |-> IF k = n + 1 THEN p[n] + v[s[n + 1]] ELSE p[k]]
  <2>2. ASSUME NEW k \in 0..n + 1
        PROVE  q[k] = IF k = 0 THEN 0 ELSE q[k - 1] + v[s[k]]
    <3>1. CASE k = n + 1
      <4>1. q[k] = p[n] + v[s[k]] /\ q[k - 1] = p[n] /\ k # 0
        BY <3>1
      <4> QED BY <4>1
    <3>2. CASE k # n + 1
      <4>1. k \in 0..n /\ q[k] = p[k] /\ (k # 0 => q[k - 1] = p[k - 1])
        BY <3>2
      <4>2. p[k] = IF k = 0 THEN 0 ELSE p[k - 1] + v[s[k]]
        BY <2>1, <4>1
      <4> QED BY <4>1, <4>2
    <3> QED BY <3>1, <3>2
  <2>3. DOMAIN q = 0..n + 1 /\ q = [k \in 0..n + 1 |-> q[k]]
    OBVIOUS
  <2> HIDE DEF q
  <2>4. UpTo(n + 1, q)
    BY <2>2, <2>3
  <2> HIDE DEF UpTo
  <2> QED BY <2>4
<1> HIDE DEF S, UpTo
<1>3. \A n \in 0..N : n \in S
  BY <1>1, <1>2, Upwards
<1>4. UpTo(N, e)
  BY <1>0, <1>3 DEF S
<1>5. e[0] = 0 /\ \A k \in 0..N - 1 : e[k + 1] = e[k] + v[s[k + 1]]
  <2>1. e = [k \in 0..N |-> IF k = 0 THEN 0 ELSE e[k - 1] + v[s[k]]]
    BY <1>4 DEF UpTo
  <2> QED BY <2>1
<1> QED BY <1>5 DEF e

\* Two tables that agree on what is summed have the same sums.
LEMMA SumsAgree ==
  ASSUME NEW v, NEW w, NEW s, Len(s) \in Nat, NEW k \in 0..Len(s), \A i \in 1..k : v[s[i]] = w[s[i]]
  PROVE  Native!Sums(v, s)[k] = Native!Sums(w, s)[k]
<1> DEFINE S == {i \in 0..k : Native!Sums(v, s)[i] = Native!Sums(w, s)[i]}
<1>1. 0 \in S
  BY SumsAt
<1>2. ASSUME NEW i \in 0..k - 1, i \in S PROVE i + 1 \in S
  <2>1. i \in 0..Len(s) - 1 /\ i + 1 \in 1..k /\ i + 1 \in 0..k
    OBVIOUS
  <2>2. /\ Native!Sums(v, s)[i + 1] = Native!Sums(v, s)[i] + v[s[i + 1]]
        /\ Native!Sums(w, s)[i + 1] = Native!Sums(w, s)[i] + w[s[i + 1]]
    BY <2>1, SumsAt
  <2> QED BY <1>2, <2>1, <2>2
<1> HIDE DEF S
<1>3. \A i \in 0..k : i \in S
  <2>1. k \in Nat
    OBVIOUS
  <2> QED BY <1>1, <1>2, <2>1, Upwards
<1>4. k \in S
  BY <1>3
<1> QED BY <1>4 DEF S

\* Sums of natural numbers are natural numbers and never decrease.
LEMMA SumsGrow ==
  ASSUME NEW v, NEW s, Len(s) \in Nat, \A i \in 1..Len(s) : v[s[i]] \in Nat
  PROVE  \A k \in 0..Len(s) : /\ Native!Sums(v, s)[k] \in Nat
                              /\ Native!Sums(v, s)[k] <= Native!Sums(v, s)[Len(s)]
<1> DEFINE n == Len(s)
           e == Native!Sums(v, s)
           S == {k \in 0..n : e[k] \in Nat}
           U == {k \in 0..n : e[k] <= e[n]}
<1>1. e[0] = 0 /\ \A k \in 0..n - 1 : e[k + 1] = e[k] + v[s[k + 1]]
  BY SumsAt
<1> HIDE DEF e
<1>2. ASSUME NEW k \in 0..n - 1 PROVE v[s[k + 1]] \in Nat /\ k + 1 \in 0..n /\ k \in 0..n
  <2>1. k + 1 \in 1..n
    OBVIOUS
  <2> QED BY <2>1
<1>3. \A k \in 0..n : k \in S
  <2>1. 0 \in S
    BY <1>1
  <2>2. \A k \in 0..n - 1 : k \in S => k + 1 \in S
    BY <1>1, <1>2
  <2> HIDE DEF S
  <2> QED BY <2>1, <2>2, Upwards
<1>4. \A k \in 0..n : k \in U
  <2>1. n \in U
    BY <1>3
  <2>2. ASSUME NEW k \in 0..n - 1, k + 1 \in U PROVE k \in U
    <3>1. e[k] \in Nat /\ e[k + 1] \in Nat /\ e[n] \in Nat
      BY <1>2, <1>3
    <3>2. e[k + 1] <= e[n] /\ e[k + 1] = e[k] + v[s[k + 1]] /\ v[s[k + 1]] \in Nat /\ k \in 0..n
      BY <1>1, <1>2, <2>2
    <3> QED BY <3>1, <3>2
  <2> HIDE DEF U
  <2> QED BY <2>1, <2>2, Downwards
<1> QED BY <1>3, <1>4 DEF e

\* What a node makes depends on the values of those it leads to only.
LEMMA MadeAgrees ==
  ASSUME NEW N, NEW K, NEW size, Net(N, K, size), NEW id \in DOMAIN N, NEW v, NEW w,
         \A i \in 1..Len(K[id]) : v[K[id][i]] = w[K[id][i]]
  PROVE  Made(N, K, v, id) = Made(N, K, w, id)
<1>1. CASE N[id].type = "T"
  BY <1>1 DEF Made
<1>2. CASE N[id].type = "C"
  <2>1. Len(K[id]) \in Nat /\ Len(K[id]) \in 0..Len(K[id])
    BY DEF Net
  <2>2. Native!Sums(v, K[id])[Len(K[id])] = Native!Sums(w, K[id])[Len(K[id])]
    BY <2>1, SumsAgree
  <2> QED BY <1>2, <2>2 DEF Made
<1>3. CASE N[id].type = "R"
  <2>1. 1 \in 1..Len(K[id])
    <3>1. Len(K[id]) = 1
      BY <1>3 DEF Net
    <3> QED BY <3>1
  <2> QED BY <1>3, <2>1 DEF Made
<1> QED BY <1>1, <1>2, <1>3 DEF Net

\* Of natural numbers a node makes a natural number.
LEMMA MadeNat ==
  ASSUME NEW N, NEW K, NEW size \in Nat, Net(N, K, size), NEW id \in DOMAIN N, NEW v,
         \A i \in 1..Len(K[id]) : v[K[id][i]] \in Nat
  PROVE  Made(N, K, v, id) \in Nat
<1>1. CASE N[id].type = "T"
  BY <1>1 DEF Made
<1>2. CASE N[id].type = "C"
  <2>1. Len(K[id]) \in Nat /\ Len(K[id]) \in 0..Len(K[id])
    BY DEF Net
  <2> QED BY <1>2, <2>1, SumsGrow DEF Made
<1>3. CASE N[id].type = "R"
  <2>1. 1 \in 1..Len(K[id]) /\ Wide(N, id) \in Nat
    <3>1. Len(K[id]) = 1 /\ Wide(N, id) \in 1..size
      BY <1>3 DEF Net
    <3> QED BY <3>1
  <2>2. v[K[id][1]] \in Nat
    BY <2>1
  <2>3. \A a, b \in Nat : a * b \in Nat
    OBVIOUS
  <2> QED BY <1>3, <2>1, <2>2, <2>3 DEF Made
<1> QED BY <1>1, <1>2, <1>3 DEF Net

\* Where every set of nodes has one that leads out of it, the equations of the nodes
\* have at most one solution: a smallest disagreement would disagree with itself.
LEMMA OneSolution ==
  ASSUME NEW N, NEW K, NEW size, Net(N, K, size), NEW D \in SUBSET DOMAIN N, Shut(K, D), Ending(K, D),
         NEW v, Solves(N, K, D, v), NEW w, Solves(N, K, D, w)
  PROVE  \A id \in D : v[id] = w[id]
<1> DEFINE T == {id \in D : v[id] # w[id]}
<1>1. SUFFICES ASSUME T # {} PROVE FALSE
  OBVIOUS
<1>2. PICK id \in T : \A i \in 1..Len(K[id]) : K[id][i] \notin T
  BY <1>1 DEF Ending
<1>3. \A i \in 1..Len(K[id]) : v[K[id][i]] = w[K[id][i]]
  BY <1>2 DEF Shut
<1>4. Made(N, K, v, id) = Made(N, K, w, id)
  BY <1>2, <1>3, MadeAgrees
<1> QED BY <1>2, <1>4 DEF Solves

\* And they have one: a largest set of solved nodes that is closed can be extended
\* by a node that leads into it only, unless it holds every node.
LEMMA SomeSolution ==
  ASSUME NEW N, NEW K, NEW size \in Nat, Net(N, K, size), Ending(K, DOMAIN N)
  PROVE  \E v \in [DOMAIN N -> Nat] : Solves(N, K, DOMAIN N, v)
<1> DEFINE I == DOMAIN N
           Found(D) == Shut(K, D) /\ \E v \in [I -> Nat] : Solves(N, K, D, v)
           L == {n \in Nat : \E D \in SUBSET I : Found(D) /\ n = Len(N) - Cardinality(D)}
<1>1. Len(N) \in Nat /\ IsFiniteSet(I) /\ Cardinality(I) = Len(N)
  <2>1. Len(N) \in Nat /\ I = 1..Len(N)
    BY DEF Net
  <2>2. PICK n \in Nat : n = Len(N)
    BY <2>1
  <2>3. IsFiniteSet(1..n) /\ Cardinality(1..n) = n
    BY FS_Interval
  <2> QED BY <2>1, <2>2, <2>3
<1>2. ASSUME NEW D \in SUBSET I PROVE IsFiniteSet(D) /\ Cardinality(D) \in Nat /\ Len(N) - Cardinality(D) \in Nat
  <2>1. IsFiniteSet(D) /\ Cardinality(D) <= Cardinality(I)
    BY <1>1, FS_Subset
  <2>2. Cardinality(D) \in Nat
    BY <2>1, FS_CardinalityType
  <2> QED BY <1>1, <2>1, <2>2
<1>3. L # {}
  <2>1. Found({})
    <3>1. PICK v : v = [id \in I |-> 0]
      OBVIOUS
    <3>2. v \in [I -> Nat] /\ Solves(N, K, {}, v)
      BY <3>1 DEF Solves
    <3> QED BY <3>2 DEF Shut
  <2> HIDE DEF Found
  <2> QED BY <1>2, <2>1
<1> HIDE DEF Found
<1>4. PICK n \in L : \A m \in L : n <= m
  <2>1. L \subseteq Nat
    OBVIOUS
  <2> HIDE DEF L
  <2> QED BY <1>3, <2>1, LeastNat
<1>5. PICK D \in SUBSET I : Found(D) /\ n = Len(N) - Cardinality(D)
  OBVIOUS
<1>6. CASE D = I
  BY <1>5, <1>6 DEF Found
<1>7. CASE D # I
  <2>1. PICK x \in I \ D : \A i \in 1..Len(K[x]) : K[x][i] \notin I \ D
    <3>1. I \ D # {} /\ I \ D \in SUBSET I
      BY <1>7
    <3> QED BY <3>1 DEF Ending
  <2>2. \A i \in 1..Len(K[x]) : K[x][i] \in D
    <3>1. K[x] \in Seq(I)
      BY <2>1 DEF Net
    <3>2. \A i \in 1..Len(K[x]) : K[x][i] \in I
      BY <3>1
    <3> QED BY <2>1, <3>2
  <2>3. PICK v \in [I -> Nat] : Solves(N, K, D, v)
    BY <1>5 DEF Found
  <2> DEFINE w == [v EXCEPT ![x] = Made(N, K, v, x)]
  <2>4. Made(N, K, v, x) \in Nat
    BY <2>2, <2>3, MadeNat
  <2>5. w \in [I -> Nat] /\ w[x] = Made(N, K, v, x) /\ \A id \in D : w[id] = v[id]
    BY <2>1, <2>3, <2>4
  <2> HIDE DEF w
  <2>6. Shut(K, D)
    BY <1>5 DEF Found
  <2>7. Shut(K, D \cup {x})
    BY <2>2, <2>6 DEF Shut
  <2>8. \A id \in D \cup {x} : \A i \in 1..Len(K[id]) : v[K[id][i]] = w[K[id][i]]
    BY <2>2, <2>5, <2>6 DEF Shut
  <2>9. \A id \in D \cup {x} : Made(N, K, v, id) = Made(N, K, w, id)
    <3>1. ASSUME NEW id \in D \cup {x} PROVE Made(N, K, v, id) = Made(N, K, w, id)
      <4>1. id \in DOMAIN N /\ \A i \in 1..Len(K[id]) : v[K[id][i]] = w[K[id][i]]
        BY <2>8
      <4>2. \A j \in DOMAIN N : \A a, b :
              (\A i \in 1..Len(K[j]) : a[K[j][i]] = b[K[j][i]]) => Made(N, K, a, j) = Made(N, K, b, j)
        BY MadeAgrees
      <4> QED BY <4>1, <4>2
    <3> QED BY <3>1
  <2>10. Solves(N, K, D \cup {x}, w)
    BY <2>3, <2>5, <2>9 DEF Solves
  <2>11. Found(D \cup {x})
    BY <2>5, <2>7, <2>10 DEF Found
  <2>12. D \cup {x} \in SUBSET I /\ Cardinality(D \cup {x}) = Cardinality(D) + 1
    BY <1>2, <2>1, FS_AddElement
  <2>13. Len(N) - Cardinality(D \cup {x}) \in L
    BY <1>2, <2>11, <2>12
  <2> HIDE DEF L
  <2>14. n <= Len(N) - (Cardinality(D) + 1)
    BY <1>4, <2>12, <2>13
  <2> QED BY <1>1, <1>2, <1>5, <2>14
<1> QED BY <1>6, <1>7

\* Words and the limits are counted by natural numbers, and the lines are as
\* load_schema cuts them: of one of three kinds, with a list of branches or bounds.
NativeAssumption ==
  /\ WordBits \in Nat /\ DepthLimit \in Nat /\ PartLimit \in Nat
  /\ \A f \in NativeFiles :
       /\ f.nodes \in Seq(Range(f.nodes))
       /\ \A id \in DOMAIN f.nodes :
            LET node == f.nodes[id] IN
              /\ node.type \in {"T", "C", "R"}
              /\ node.type = "C" => node.branches \in Seq(Range(node.branches))
              /\ node.type = "R" => node.start \in Int /\ node.stop \in Int

\* Where the branches of the lines lead, and whether the lines are a net.
Leads == [id \in Native!Ids |-> Native!Kids(id)]
Accepted == Native!LinesAccepted /\ Native!Linked

\* Machine words: a positive number of them, and what an unsigned cut leaves.
LEMMA MachineWords ==
  ASSUME NativeAssumption
  PROVE  /\ Native!Size \in Nat /\ Native!Size > 0
         /\ \A x \in Int : x % Native!Size \in 0..Native!Size - 1 /\ (x \in 0..Native!Size - 1 => x % Native!Size = x)
         /\ Native!Size % Native!Size = 0
<1>1. Native!Size = Power(2, WordBits)
  BY DEF Native!Size, Native!Power, Power
<1>2. Power(2, WordBits) \in Nat \ {0}
  BY PowerFacts DEF NativeAssumption
<1>3. PICK n \in Nat : n = Native!Size /\ n > 0
  BY <1>1, <1>2
<1>4. \A x \in Int : x % n \in 0..n - 1 /\ (x \in 0..n - 1 => x % n = x)
  BY <1>3
<1>5. n % n = 0
  BY <1>3
<1> QED BY <1>3, <1>4, <1>5

\* find_node returns a line of the file or fails.
LEMMA FindFacts ==
  ASSUME NativeAssumption, file \in NativeFiles, NEW name
  PROVE  Native!Find(name) # 0 => Native!Find(name) \in Native!Ids
<1> DEFINE T == {i \in 1..Len(Native!Nodes) : Native!Nodes[i].name = name}
<1>1. Len(Native!Nodes) \in Nat /\ Native!Ids = 1..Len(Native!Nodes)
  BY DEF NativeAssumption, Native!Nodes, Native!Ids
<1>2. Native!Find(name) = IF T # {} THEN Native!Min(T) ELSE 0
  BY DEF Native!Find, Native!SelectInSeq
<1>3. ASSUME T # {} PROVE Native!Min(T) \in T
  <2>1. T \subseteq Nat
    BY <1>1
  <2> HIDE DEF T
  <2>2. \E x \in T : \A y \in T : x <= y
    BY <1>3, <2>1, LeastNat
  <2> QED BY <2>2, Zenon DEF Native!Min
<1> QED BY <1>1, <1>2, <1>3

\* The lines are accepted when they are well formed and split_tabs splits them to the
\* end: a line that it cuts short has fewer parts than its kind needs.
LEMMA LinesFacts ==
  ASSUME NativeAssumption, file \in NativeFiles
  PROVE  Native!LinesAccepted <=> Native!WellFormed /\ ~ Native!TooLong
<1> DEFINE N == file.nodes
           h == Native!Size \div 2
           Formed(node) == /\ node.type = "C" => node.branches # <<>>
                           /\ node.type = "R" => -h <= node.start /\ node.start <= node.stop /\ node.stop < h
<1>1. N \in Seq(Range(N)) /\ Native!Nodes = N /\ Native!Ids = DOMAIN N
  BY DEF NativeAssumption, Native!Nodes, Native!Ids
<1>2. h \in Int
  <2>1. PICK z \in Nat : z = Native!Size
    BY MachineWords
  <2>2. z \div 2 \in Int
    OBVIOUS
  <2> QED BY <2>1, <2>2
<1>3. ASSUME NEW id \in DOMAIN N
      PROVE  Native!LineAccepted(N[id]) <=> Formed(N[id]) /\ Native!Written(N[id]) <= PartLimit
  <2>1. PICK m \in Nat : m = PartLimit
    BY DEF NativeAssumption
  <2>2. PICK node : node = N[id]
    OBVIOUS
  <2>3. /\ node.type \in {"T", "C", "R"}
        /\ node.type = "C" => node.branches \in Seq(Range(node.branches))
        /\ node.type = "R" => node.start \in Int /\ node.stop \in Int
    BY <2>2 DEF NativeAssumption
  <2>4. CASE node.type = "T"
    <3>1. Native!Written(node) = 3
      BY <2>4 DEF Native!Written
    <3>2. Native!Split(node) = IF 3 <= m THEN 3 ELSE m
      BY <2>1, <3>1 DEF Native!Split
    <3>3. Native!LineAccepted(node) <=> Native!Split(node) = 3
      BY <2>4 DEF Native!LineAccepted
    <3> QED BY <2>1, <2>2, <2>4, <3>1, <3>2, <3>3
  <2>5. CASE node.type = "C"
    <3>1. PICK n \in Nat : n = Len(node.branches) /\ (n = 0 <=> node.branches = <<>>)
      BY <2>3, <2>5
    <3>2. Native!Written(node) = 5 + 2 * n
      BY <2>5, <3>1 DEF Native!Written
    <3>3. Native!Split(node) = IF 5 + 2 * n <= m THEN 5 + 2 * n ELSE m
      BY <2>1, <3>2 DEF Native!Split
    <3>4. Native!LineAccepted(node) <=> Native!Split(node) >= 6 /\ Native!Split(node) = 5 + 2 * n
      BY <2>5, <3>1 DEF Native!LineAccepted
    <3>5. Native!LineAccepted(node) <=> n > 0 /\ 5 + 2 * n <= m
      BY <3>3, <3>4
    <3>6. Formed(node) <=> n > 0
      BY <2>5, <3>1
    <3> QED BY <2>1, <2>2, <3>2, <3>5, <3>6
  <2>6. CASE node.type = "R"
    <3>1. PICK a, b \in Int : a = node.start /\ b = node.stop
      BY <2>3, <2>6
    <3>2. Native!Written(node) = 7
      BY <2>6 DEF Native!Written
    <3>3. Native!Split(node) = IF 7 <= m THEN 7 ELSE m
      BY <2>1, <3>2 DEF Native!Split
    <3>4. PICK g \in Int : g = h
      BY <1>2
    <3>5. Native!LineAccepted(node) <=> Native!Split(node) = 7 /\ {a, b} \subseteq -g..g - 1 /\ a <= b
      BY <2>6, <3>1, <3>4 DEF Native!LineAccepted
    <3>6. Formed(node) <=> -g <= a /\ a <= b /\ b < g
      BY <2>6, <3>1, <3>4
    <3>7. {a, b} \subseteq -g..g - 1 /\ a <= b <=> -g <= a /\ a <= b /\ b < g
      OBVIOUS
    <3>8. Native!Split(node) = 7 <=> 7 <= m
      BY <3>3
    <3> QED BY <2>1, <2>2, <3>2, <3>5, <3>6, <3>7, <3>8
  <2> QED BY <2>3, <2>4, <2>5, <2>6
<1>4. PICK m \in Nat : m = PartLimit
  BY DEF NativeAssumption
<1>5. ASSUME NEW id \in DOMAIN N
      PROVE  Native!Written(N[id]) > PartLimit <=> ~ Native!Written(N[id]) <= PartLimit
  <2>1. Native!Written(N[id]) \in Nat
    <3>1. N[id].type = "C" => Len(N[id].branches) \in Nat
      BY DEF NativeAssumption
    <3>2. N[id].type \in {"T", "C", "R"}
      BY DEF NativeAssumption
    <3> QED BY <3>1, <3>2 DEF Native!Written
  <2> QED BY <1>4, <2>1
<1>6. Native!WellFormed <=> N # <<>> /\ \A id \in DOMAIN N : Formed(N[id])
  BY <1>1 DEF Native!WellFormed
<1>7. Native!LinesAccepted <=> N # <<>> /\ \A id \in DOMAIN N : Native!LineAccepted(N[id])
  BY <1>1 DEF Native!LinesAccepted
<1>8. Native!TooLong <=> \E id \in DOMAIN N : Native!Written(N[id]) > PartLimit
  BY <1>1 DEF Native!TooLong
<1> HIDE DEF Formed, N
<1> QED BY <1>3, <1>5, <1>6, <1>7, <1>8

\* The lines of an accepted file are a net.
LEMMA NetOfFile ==
  ASSUME NativeAssumption, file \in NativeFiles, Accepted
  PROVE  /\ Net(file.nodes, Leads, Native!Size)
         /\ Native!Ids = DOMAIN file.nodes /\ Native!Root \in DOMAIN file.nodes
         /\ \A id \in DOMAIN file.nodes : Leads[id] = Native!Kids(id)
<1> DEFINE N == file.nodes
<1>1. N \in Seq(Range(N)) /\ Len(N) \in Nat /\ DOMAIN N = 1..Len(N) /\ Native!Nodes = N /\ Native!Ids = DOMAIN N
  BY DEF NativeAssumption, Native!Nodes, Native!Ids
<1>2. Native!Root \in DOMAIN N
  BY <1>1, FindFacts DEF Accepted, Native!Linked, Native!Root
<1>5. Native!WellFormed
  BY LinesFacts DEF Accepted
<1>3. ASSUME NEW id \in DOMAIN N
      PROVE  /\ Leads[id] = Native!Kids(id)
             /\ Leads[id] \in Seq(DOMAIN N)
             /\ \/ N[id].type = "T" /\ Len(Leads[id]) = 0
                \/ N[id].type = "C" /\ Len(Leads[id]) > 0
                \/ N[id].type = "R" /\ Len(Leads[id]) = 1 /\ Wide(N, id) \in 1..Native!Size
  <2> DEFINE t == Native!TargetsOf(N[id])
  <2>1. /\ N[id].type \in {"T", "C", "R"}
        /\ N[id].type = "C" => N[id].branches \in Seq(Range(N[id].branches))
        /\ N[id].type = "R" => N[id].start \in Int /\ N[id].stop \in Int
    BY DEF NativeAssumption
  <2>2. PICK n \in Nat : /\ DOMAIN t = 1..n
                         /\ N[id].type = "T" => n = 0
                         /\ N[id].type = "C" => n > 0
                         /\ N[id].type = "R" => n = 1
    <3>1. CASE N[id].type = "T"
      <4>1. DOMAIN t = 1..0
        BY <3>1 DEF Native!TargetsOf
      <4> QED BY <3>1, <4>1
    <3>2. CASE N[id].type = "C"
      <4>1. PICK n \in Nat : n = Len(N[id].branches) /\ DOMAIN N[id].branches = 1..n
        BY <2>1, <3>2
      <4>2. N[id].branches # <<>>
        BY <1>1, <1>5, <3>2 DEF Native!WellFormed
      <4>3. n # 0
        BY <2>1, <3>2, <4>1, <4>2
      <4>4. DOMAIN t = 1..n
        BY <3>2, <4>1 DEF Native!TargetsOf
      <4> QED BY <3>2, <4>1, <4>3, <4>4
    <3>3. CASE N[id].type = "R"
      <4>1. DOMAIN t = 1..1
        BY <3>3 DEF Native!TargetsOf
      <4> QED BY <3>3, <4>1
    <3> QED BY <2>1, <3>1, <3>2, <3>3
  <2>3. Leads[id] = [i \in 1..n |-> Native!Find(t[i])] /\ Leads[id] = Native!Kids(id)
    BY <1>1, <2>2 DEF Leads, Native!Kids
  <2>4. ASSUME NEW i \in 1..n PROVE Native!Find(t[i]) \in DOMAIN N
    <3>1. Native!Kids(id)[i] # 0 /\ Native!Kids(id)[i] = Native!Find(t[i])
      BY <1>1, <2>3 DEF Accepted, Native!Linked
    <3> QED BY <1>1, <3>1, FindFacts
  <2>5. Leads[id] \in Seq(DOMAIN N) /\ Len(Leads[id]) = n
    <3> HIDE DEF t, N
    <3> QED BY <2>3, <2>4
  <2>6. N[id].type = "R" => Wide(N, id) \in 1..Native!Size
    <3>1. SUFFICES ASSUME N[id].type = "R" PROVE Wide(N, id) \in 1..Native!Size
      OBVIOUS
    <3>2. /\ -(Native!Size \div 2) <= N[id].start /\ N[id].start <= N[id].stop
          /\ N[id].stop < Native!Size \div 2
      BY <1>1, <1>5, <3>1 DEF Native!WellFormed
    <3>3. PICK a, b \in Int : a = N[id].start /\ b = N[id].stop
      BY <2>1, <3>1
    <3>4. PICK z \in Nat : z = Native!Size
      <4>1. Native!Size \in Nat
        BY MachineWords
      <4> QED BY <4>1
    <3>5. -(z \div 2) <= a /\ a <= b /\ b < z \div 2
      BY <3>2, <3>3, <3>4
    <3>6. b - a + 1 \in 1..z
      BY <3>5
    <3> QED BY <3>3, <3>4, <3>6 DEF Wide
  <2> QED BY <2>1, <2>2, <2>3, <2>5, <2>6
<1>4. Leads \in [DOMAIN N -> Seq(DOMAIN N)]
  BY <1>1, <1>3 DEF Leads
<1> QED BY <1>1, <1>2, <1>3, <1>4 DEF Net

\* What is asked of a file, in these terms, and its exact counts.
LEMMA SoundFacts ==
  ASSUME NativeAssumption, file \in NativeFiles, Accepted
  PROVE  /\ Native!Acyclic <=> Ending(Leads, DOMAIN file.nodes)
         /\ Native!Connected <=>
              \A S \in SUBSET DOMAIN file.nodes : Native!Root \in S /\ Shut(Leads, S) => S = DOMAIN file.nodes
         /\ \A v : \A id \in DOMAIN file.nodes : Native!WordsOf(v, id) = Made(file.nodes, Leads, v, id)
         /\ Native!Acyclic => /\ Native!Exact \in [DOMAIN file.nodes -> Nat]
                              /\ Solves(file.nodes, Leads, DOMAIN file.nodes, Native!Exact)
<1> DEFINE N == file.nodes
           K == Leads
           I == DOMAIN N
<1>1. Net(N, K, Native!Size) /\ Native!Ids = I /\ \A id \in I : K[id] = Native!Kids(id)
  BY NetOfFile
<1>2. \A id \in I : DOMAIN K[id] = 1..Len(K[id]) /\ Native!ToSet(Native!Kids(id)) = {K[id][i] : i \in 1..Len(K[id])}
  <2>1. ASSUME NEW id \in I PROVE DOMAIN K[id] = 1..Len(K[id])
    <3>1. K[id] \in Seq(I)
      BY <1>1 DEF Net
    <3> QED BY <3>1
  <2> QED BY <1>1, <2>1 DEF Native!ToSet
<1>3. Native!Acyclic <=> Ending(K, I)
  <2>1. ASSUME NEW S \in SUBSET I, NEW id \in S
        PROVE  Native!ToSet(Native!Kids(id)) \cap S = {} <=> \A i \in 1..Len(K[id]) : K[id][i] \notin S
    BY <1>2
  <2> HIDE DEF I, K
  <2> QED BY <1>1, <2>1 DEF Native!Acyclic, Ending
<1>4. Native!Connected <=> \A S \in SUBSET I : Native!Root \in S /\ Shut(K, S) => S = I
  <2>1. ASSUME NEW S \in SUBSET I
        PROVE  (\A id \in S : Native!ToSet(Native!Kids(id)) \subseteq S) <=> Shut(K, S)
    BY <1>2 DEF Shut
  <2> HIDE DEF I, K
  <2> QED BY <1>1, <2>1 DEF Native!Connected
<1>5. \A v : \A id \in I : Native!WordsOf(v, id) = Made(N, K, v, id)
  BY <1>1 DEF Native!WordsOf, Made, Wide, Native!Nodes
<1>6. ASSUME Native!Acyclic
      PROVE  Native!Exact \in [I -> Nat] /\ Solves(N, K, I, Native!Exact)
  <2>1. PICK v \in [I -> Nat] : Solves(N, K, I, v)
    <3>1. PICK z \in Nat : z = Native!Size
      <4>1. Native!Size \in Nat
        BY MachineWords
      <4> QED BY <4>1
    <3>2. Net(N, K, z) /\ Ending(K, I)
      BY <1>1, <1>3, <1>6, <3>1
    <3> QED BY <3>2, SomeSolution
  <2>2. v = [id \in Native!Ids |-> Native!WordsOf(v, id)]
    BY <1>1, <1>5, <2>1 DEF Solves
  <2>3. (\E e : e = [id \in Native!Ids |-> Native!WordsOf(e, id)]) =>
          Native!Exact = [id \in Native!Ids |-> Native!WordsOf(Native!Exact, id)]
    BY DEF Native!Exact
  <2>4. PICK e : e = Native!Exact
    OBVIOUS
  <2>5. e = [id \in Native!Ids |-> Native!WordsOf(e, id)]
    BY <2>2, <2>3, <2>4
  <2>6. Solves(N, K, I, e)
    BY <1>1, <1>5, <2>5 DEF Solves
  <2>7. \A id \in I : v[id] = e[id]
    <3>1. Shut(K, I) /\ Ending(K, I) /\ I \in SUBSET DOMAIN N
      BY <1>1, <1>3, <1>6 DEF Shut, Net
    <3> HIDE DEF I
    <3> QED BY <1>1, <2>1, <2>6, <3>1, OneSolution
  <2>8. e \in [I -> Nat]
    BY <1>1, <2>1, <2>5, <2>7
  <2> QED BY <2>4, <2>6, <2>8
<1> QED BY <1>3, <1>4, <1>5, <1>6

\* A call of compute_count in progress: what it has added up so far.
InCall(N, K, size, st, v, c) ==
  /\ st[c.node] = 1
  /\ c.done \in 0..Len(K[c.node])
  /\ \A i \in 1..c.done : st[K[c.node][i]] = 2
  /\ N[c.node].type = "C" => c.total = Native!Sums(v, K[c.node])[c.done]
  /\ N[c.node].type = "R" /\ c.done = 1 => c.total = (Wide(N, c.node) % size) * v[K[c.node][1]]
\* The calls on the stack are a path from the root.
Chain(K, root, cs) ==
  /\ \A j \in 1..Len(cs) - 1 :
       cs[j].done < Len(K[cs[j].node]) /\ cs[j + 1].node = K[cs[j].node][cs[j].done + 1]
  /\ Len(cs) > 0 => cs[1].node = root
  /\ \A i, j \in 1..Len(cs) : cs[i].node = cs[j].node => i = j
\* The nodes that have been counted.
Done(st) == {id \in DOMAIN st : st[id] = 2}
\* What has been counted is closed, without cycles, and counted exactly.
Counts(N, K, D, v) ==
  Shut(K, D) /\ Ending(K, D) /\ Solves(N, K, D, v) /\ \A id \in D : v[id] > 0
\* Calls in progress, and the recursion as a whole: every node that has been met is
\* reached from the root.
Frames(N) == [node : DOMAIN N, done : Nat, total : Nat]
Tree(N, K, root, size, st, v, cs) ==
  /\ st \in [DOMAIN N -> 0..2] /\ v \in [DOMAIN N -> Nat] /\ cs \in Seq(Frames(N))
  /\ \A j \in 1..Len(cs) : InCall(N, K, size, st, v, cs[j])
  /\ \A id \in DOMAIN N : st[id] = 1 => \E j \in 1..Len(cs) : cs[j].node = id
  /\ Chain(K, root, cs)
  /\ Counts(N, K, Done(st), v)
  /\ \A S \in SUBSET DOMAIN N : root \in S /\ Shut(K, S) => \A id \in DOMAIN N : st[id] # 0 => id \in S
\* The node whose count is wanted next.
Waits(K, cs) == Len(cs) > 0 => cs[Len(cs)].done < Len(K[cs[Len(cs)].node])
Awaited(K, root, cs) ==
  IF Len(cs) = 0 THEN root ELSE K[cs[Len(cs)].node][cs[Len(cs)].done + 1]

\* What is wanted next is a node.
LEMMA AwaitedType ==
  ASSUME NEW N, NEW K, NEW root \in DOMAIN N, NEW size, Net(N, K, size), NEW cs \in Seq(Frames(N)), Waits(K, cs)
  PROVE  Awaited(K, root, cs) \in DOMAIN N
<1>1. CASE Len(cs) = 0
  BY <1>1 DEF Awaited
<1>2. CASE Len(cs) # 0
  <2>1. Len(cs) \in 1..Len(cs)
    BY <1>2
  <2>2. PICK c \in Frames(N) : c = cs[Len(cs)]
    BY <2>1
  <2>3. c.node \in DOMAIN N /\ c.done \in Nat /\ c.done < Len(K[c.node])
    BY <1>2, <2>2 DEF Waits, Frames
  <2>4. K[c.node] \in Seq(DOMAIN N) /\ c.done + 1 \in 1..Len(K[c.node])
    BY <2>3 DEF Net
  <2>5. K[c.node][c.done + 1] \in DOMAIN N
    BY <2>4
  <2> QED BY <1>2, <2>2, <2>5 DEF Awaited
<1> QED BY <1>1, <1>2

\* Nothing has been counted before the call for the root.
LEMMA EmptyTree ==
  ASSUME NEW N, NEW K, NEW root \in DOMAIN N, NEW size, Net(N, K, size)
  PROVE  Tree(N, K, root, size, [id \in DOMAIN N |-> 0], [id \in DOMAIN N |-> 0], <<>>)
<1> DEFINE st == [id \in DOMAIN N |-> 0]
<1>1. Done(st) = {}
  BY DEF Done
<1>2. Counts(N, K, {}, st)
  BY DEF Counts, Shut, Ending, Solves
<1>3. Chain(K, root, <<>>)
  BY DEF Chain
<1>4. st \in [DOMAIN N -> 0..2] /\ st \in [DOMAIN N -> Nat] /\ <<>> \in Seq(Frames(N)) /\ Len(<<>>) = 0
  OBVIOUS
<1>5. \A id \in DOMAIN N : st[id] = 0
  OBVIOUS
<1> HIDE DEF st
<1>6. Tree(N, K, root, size, st, st, <<>>)
  BY <1>1, <1>2, <1>3, <1>4, <1>5 DEF Tree
<1> QED BY <1>6 DEF st

\* A call for a node that has not been visited goes on the stack (compute_count,
\* 199-202).
LEMMA PushTree ==
  ASSUME NEW N, NEW K, NEW root \in DOMAIN N, NEW size, Net(N, K, size), NEW st, NEW v, NEW cs,
         Tree(N, K, root, size, st, v, cs), Waits(K, cs),
         NEW x, x = Awaited(K, root, cs), st[x] = 0
  PROVE  Tree(N, K, root, size, [st EXCEPT ![x] = 1], v, Append(cs, [node |-> x, done |-> 0, total |-> 0]))
<1> DEFINE n == Len(cs)
           c == [node |-> x, done |-> 0, total |-> 0]
           d == Append(cs, c)
           s == [st EXCEPT ![x] = 1]
<1>1. /\ st \in [DOMAIN N -> 0..2] /\ v \in [DOMAIN N -> Nat] /\ cs \in Seq(Frames(N)) /\ n \in Nat
      /\ \A j \in 1..n : InCall(N, K, size, st, v, cs[j])
      /\ \A id \in DOMAIN N : st[id] = 1 => \E j \in 1..n : cs[j].node = id
      /\ Chain(K, root, cs)
      /\ Counts(N, K, Done(st), v)
      /\ \A S \in SUBSET DOMAIN N : root \in S /\ Shut(K, S) => \A id \in DOMAIN N : st[id] # 0 => id \in S
  BY DEF Tree
<1>2. x \in DOMAIN N
  BY <1>1, AwaitedType
<1>3. c \in Frames(N) /\ c.node = x /\ c.done = 0 /\ c.total = 0
  BY <1>2 DEF Frames
<1>4. d \in Seq(Frames(N)) /\ Len(d) = n + 1 /\ d[n + 1] = c /\ \A j \in 1..n : d[j] = cs[j]
  <2> HIDE DEF c
  <2> QED BY <1>1, <1>3
<1>5. s \in [DOMAIN N -> 0..2] /\ s[x] = 1 /\ \A id \in DOMAIN N : id # x => s[id] = st[id]
  BY <1>1, <1>2
<1>6. \A j \in 1..n : cs[j].node \in DOMAIN N /\ cs[j].node # x
  <2>1. ASSUME NEW j \in 1..n PROVE cs[j].node \in DOMAIN N /\ cs[j].node # x
    <3>1. PICK e \in Frames(N) : e = cs[j]
      BY <1>1
    <3>2. st[e.node] = 1
      BY <1>1, <3>1 DEF InCall
    <3> QED BY <3>1, <3>2 DEF Frames
  <2> QED BY <2>1
<1>7. \A j \in 1..n + 1 : j \in 1..n \/ j = n + 1
  BY <1>1
<1> HIDE DEF c, d, s
<1>8. Done(s) = Done(st)
  BY <1>1, <1>5 DEF Done
<1>9. ASSUME NEW j \in 1..n + 1 PROVE InCall(N, K, size, s, v, d[j])
  <2>1. CASE j \in 1..n
    <3>1. PICK e : e = cs[j]
      OBVIOUS
    <3>2. InCall(N, K, size, st, v, e) /\ d[j] = e /\ e.node \in DOMAIN N /\ e.node # x
      BY <1>1, <1>4, <1>6, <2>1, <3>1
    <3>3. \A i \in 1..e.done : K[e.node][i] \in DOMAIN N
      <4>1. K[e.node] \in Seq(DOMAIN N) /\ e.done \in 0..Len(K[e.node])
        BY <3>2 DEF InCall, Net
      <4> QED BY <4>1
    <3>4. InCall(N, K, size, s, v, e)
      BY <1>5, <3>2, <3>3 DEF InCall
    <3> QED BY <3>2, <3>4
  <2>2. CASE j = n + 1
    <3>1. Len(K[x]) \in Nat
      BY <1>2 DEF Net
    <3>2. Native!Sums(v, K[x])[0] = 0
      BY <3>1, SumsAt
    <3>3. InCall(N, K, size, s, v, c)
      BY <1>3, <1>5, <3>1, <3>2 DEF InCall
    <3> QED BY <1>4, <2>2, <3>3
  <2> QED BY <1>7, <2>1, <2>2
<1>10. ASSUME NEW id \in DOMAIN N, s[id] = 1 PROVE \E j \in 1..n + 1 : d[j].node = id
  <2>1. CASE id = x
    <3>1. n + 1 \in 1..n + 1 /\ d[n + 1].node = x
      BY <1>1, <1>3, <1>4
    <3> QED BY <2>1, <3>1
  <2>2. CASE id # x
    <3>1. PICK j \in 1..n : cs[j].node = id
      BY <1>1, <1>5, <1>10, <2>2
    <3>2. j \in 1..n + 1 /\ d[j].node = id
      BY <1>1, <1>4, <3>1
    <3> QED BY <3>2
  <2> QED BY <2>1, <2>2
<1>11. Chain(K, root, d)
  <2>1. ASSUME NEW j \in 1..n PROVE d[j].done < Len(K[d[j].node]) /\ d[j + 1].node = K[d[j].node][d[j].done + 1]
    <3>1. CASE j = n
      <4>1. n # 0 /\ n > 0
        BY <1>1, <3>1
      <4>2. cs[n].done < Len(K[cs[n].node]) /\ x = K[cs[n].node][cs[n].done + 1]
        BY <4>1 DEF Waits, Awaited
      <4> QED BY <1>3, <1>4, <3>1, <4>2
    <3>2. CASE j # n
      <4>1. j \in 1..n - 1 /\ j \in 1..n /\ j + 1 \in 1..n
        BY <1>1, <3>2
      <4>2. cs[j].done < Len(K[cs[j].node]) /\ cs[j + 1].node = K[cs[j].node][cs[j].done + 1]
        BY <1>1, <4>1 DEF Chain
      <4>3. d[j] = cs[j] /\ d[j + 1] = cs[j + 1]
        BY <1>4, <4>1
      <4> QED BY <4>2, <4>3
    <3> QED BY <3>1, <3>2
  <2>2. d[1].node = root
    <3>1. CASE n = 0
      BY <1>3, <1>4, <3>1 DEF Awaited
    <3>2. CASE n # 0
      <4>1. n > 0 /\ 1 \in 1..n
        BY <1>1, <3>2
      <4> QED BY <1>1, <1>4, <4>1 DEF Chain
    <3> QED BY <3>1, <3>2
  <2>3. ASSUME NEW i \in 1..n + 1, NEW j \in 1..n + 1, d[i].node = d[j].node PROVE i = j
    <3>1. CASE i \in 1..n /\ j \in 1..n
      BY <1>1, <1>4, <2>3, <3>1 DEF Chain
    <3>2. CASE i = n + 1 \/ j = n + 1
      BY <1>3, <1>4, <1>6, <1>7, <2>3, <3>2
    <3> QED BY <1>7, <3>1, <3>2
  <2>4. Len(d) - 1 = n /\ Len(d) = n + 1
    BY <1>1, <1>4
  <2> QED BY <2>1, <2>2, <2>3, <2>4 DEF Chain
<1>12. ASSUME NEW S \in SUBSET DOMAIN N, root \in S, Shut(K, S), NEW id \in DOMAIN N, s[id] # 0 PROVE id \in S
  <2>1. CASE id # x
    BY <1>1, <1>5, <1>12, <2>1
  <2>2. CASE id = x /\ n = 0
    BY <1>12, <2>2 DEF Awaited
  <2>3. CASE id = x /\ n # 0
    <3>1. n \in 1..n /\ n > 0
      BY <1>1, <2>3
    <3>2. PICK e \in Frames(N) : e = cs[n]
      BY <1>1, <3>1
    <3>3. e.node \in S
      <4>1. e.node \in DOMAIN N /\ st[e.node] = 1
        BY <1>1, <3>1, <3>2 DEF InCall, Frames
      <4> QED BY <1>1, <1>12, <4>1
    <3>4. e.done \in Nat /\ e.done < Len(K[e.node]) /\ x = K[e.node][e.done + 1]
      <4>1. e.done \in Nat
        BY <3>2 DEF Frames
      <4> QED BY <2>3, <3>1, <3>2, <4>1 DEF Waits, Awaited
    <3>5. e.done + 1 \in 1..Len(K[e.node])
      <4>1. Len(K[e.node]) \in Nat
        BY <3>2 DEF Net, Frames
      <4> QED BY <3>4, <4>1
    <3> QED BY <1>12, <2>3, <3>3, <3>4, <3>5 DEF Shut
  <2> QED BY <2>1, <2>2, <2>3
<1>13. Tree(N, K, root, size, s, v, d)
  BY <1>1, <1>4, <1>5, <1>8, <1>9, <1>10, <1>11, <1>12 DEF Tree
<1> QED BY <1>13 DEF c, d, s

\* The call on the top of the stack takes the count of the branch it waits for
\* (compute_count, 205-212).
LEMMA TakeTree ==
  ASSUME NEW N, NEW K, NEW root \in DOMAIN N, NEW size, Net(N, K, size), NEW st, NEW v, NEW cs,
         Tree(N, K, root, size, st, v, cs), Waits(K, cs), Len(cs) > 0,
         NEW c, c = cs[Len(cs)], st[Awaited(K, root, cs)] = 2, NEW t \in Nat,
         N[c.node].type = "C" => t = c.total + v[Awaited(K, root, cs)],
         N[c.node].type = "R" => t = (Wide(N, c.node) % size) * v[Awaited(K, root, cs)],
         NEW d \in Seq(Frames(N)), Len(d) = Len(cs), \A j \in 1..Len(cs) - 1 : d[j] = cs[j],
         d[Len(cs)] = [node |-> c.node, done |-> c.done + 1, total |-> t]
  PROVE  Tree(N, K, root, size, st, v, d)
<1> DEFINE n == Len(cs)
<1>0. n \in Nat
  BY DEF Tree
<1>1. /\ st \in [DOMAIN N -> 0..2] /\ v \in [DOMAIN N -> Nat] /\ cs \in Seq(Frames(N))
      /\ \A j \in 1..n : InCall(N, K, size, st, v, cs[j])
      /\ \A id \in DOMAIN N : st[id] = 1 => \E j \in 1..n : cs[j].node = id
      /\ Chain(K, root, cs)
      /\ Counts(N, K, Done(st), v)
      /\ \A S \in SUBSET DOMAIN N : root \in S /\ Shut(K, S) => \A id \in DOMAIN N : st[id] # 0 => id \in S
  BY DEF Tree
<1>2. n \in 1..n /\ n # 0 /\ (\A j \in 1..n : j \in 1..n - 1 \/ j = n)
  BY <1>0
<1>3. PICK y : y = Awaited(K, root, cs)
  OBVIOUS
<1>4. PICK e : e = d[n] /\ e.node = c.node /\ e.done = c.done + 1 /\ e.total = t
  OBVIOUS
<1>5. c \in Frames(N) /\ InCall(N, K, size, st, v, c) /\ c.done < Len(K[c.node]) /\ y = K[c.node][c.done + 1]
  BY <1>0, <1>1, <1>2, <1>3 DEF Waits, Awaited
<1>6. Len(K[c.node]) \in Nat /\ c.done \in Nat /\ c.done \in 0..Len(K[c.node]) - 1
  <2>1. K[c.node] \in Seq(DOMAIN N) /\ c.done \in Nat
    BY <1>5 DEF Net, Frames
  <2> QED BY <1>5, <2>1
<1>7. InCall(N, K, size, st, v, e)
  <2>1. st[e.node] = 1 /\ e.done \in 0..Len(K[e.node])
    BY <1>4, <1>5, <1>6 DEF InCall
  <2>2. ASSUME NEW i \in 1..e.done PROVE st[K[e.node][i]] = 2
    <3>1. i \in 1..c.done \/ i = c.done + 1
      BY <1>4, <1>6
    <3> QED BY <1>3, <1>4, <1>5, <3>1 DEF InCall
  <2>3. N[e.node].type = "C" => e.total = Native!Sums(v, K[e.node])[e.done]
    <3>1. Native!Sums(v, K[c.node])[c.done + 1] = Native!Sums(v, K[c.node])[c.done] + v[K[c.node][c.done + 1]]
      BY <1>6, SumsAt
    <3>2. N[c.node].type = "C" => c.total = Native!Sums(v, K[c.node])[c.done] /\ t = c.total + v[y]
      BY <1>3, <1>5 DEF InCall
    <3> QED BY <1>4, <1>5, <3>1, <3>2
  <2>4. N[e.node].type = "R" /\ e.done = 1 => e.total = (Wide(N, e.node) % size) * v[K[e.node][1]]
    <3>1. e.done = 1 => c.done + 1 = 1
      BY <1>4
    <3>2. N[c.node].type = "R" => t = (Wide(N, c.node) % size) * v[y]
      BY <1>3
    <3> QED BY <1>4, <1>5, <3>1, <3>2
  <2> QED BY <2>1, <2>2, <2>3, <2>4 DEF InCall
<1>8. \A j \in 1..n : InCall(N, K, size, st, v, d[j])
  BY <1>0, <1>1, <1>2, <1>4, <1>7
<1>9. \A j \in 1..n : d[j].node = cs[j].node
  BY <1>2, <1>4
<1>10. Chain(K, root, d)
  <2>1. \A j \in 1..n - 1 : d[j] = cs[j] /\ j \in 1..n /\ j + 1 \in 1..n
    BY <1>0
  <2>2. 1 \in 1..n
    BY <1>2
  <2> QED BY <1>1, <1>9, <2>1, <2>2 DEF Chain
<1>11. \A id \in DOMAIN N : st[id] = 1 => \E j \in 1..n : d[j].node = id
  BY <1>1, <1>9
<1> QED BY <1>0, <1>1, <1>8, <1>10, <1>11 DEF Tree

\* The call on the top of the stack ends with what its node makes of the counts
\* behind it (compute_count, 213-217).
LEMMA CloseTree ==
  ASSUME NEW N, NEW K, NEW root \in DOMAIN N, NEW size, Net(N, K, size), NEW st, NEW v, NEW cs,
         Tree(N, K, root, size, st, v, cs), Len(cs) > 0,
         NEW x, x = cs[Len(cs)].node, cs[Len(cs)].done = Len(K[x]),
         NEW t \in Nat, t > 0, t = Made(N, K, v, x),
         NEW d \in Seq(Frames(N)), Len(d) = Len(cs) - 1, \A j \in 1..Len(cs) - 1 : d[j] = cs[j]
  PROVE  /\ Tree(N, K, root, size, [st EXCEPT ![x] = 2], [v EXCEPT ![x] = t], d)
         /\ Waits(K, d) /\ Awaited(K, root, d) = x /\ x \in DOMAIN N
<1> DEFINE n == Len(cs)
           s == [st EXCEPT ![x] = 2]
           w == [v EXCEPT ![x] = t]
           D == Done(st)
<1>1. /\ st \in [DOMAIN N -> 0..2] /\ v \in [DOMAIN N -> Nat] /\ cs \in Seq(Frames(N)) /\ n \in Nat
      /\ \A j \in 1..n : InCall(N, K, size, st, v, cs[j])
      /\ \A id \in DOMAIN N : st[id] = 1 => \E j \in 1..n : cs[j].node = id
      /\ Chain(K, root, cs)
      /\ Counts(N, K, D, v)
      /\ \A S \in SUBSET DOMAIN N : root \in S /\ Shut(K, S) => \A id \in DOMAIN N : st[id] # 0 => id \in S
  BY DEF Tree
<1>2. n \in 1..n /\ n # 0 /\ \A j \in 1..n - 1 : j \in 1..n /\ j # n
  BY <1>1
<1>3. x \in DOMAIN N /\ InCall(N, K, size, st, v, cs[n]) /\ st[x] = 1
  <2>1. PICK e \in Frames(N) : e = cs[n]
    BY <1>1, <1>2
  <2>2. InCall(N, K, size, st, v, e)
    BY <1>1, <1>2, <2>1
  <2> QED BY <2>1, <2>2 DEF Frames, InCall
<1>4. \A i \in 1..Len(K[x]) : K[x][i] \in D
  <2>1. ASSUME NEW i \in 1..Len(K[x]) PROVE K[x][i] \in DOMAIN N /\ st[K[x][i]] = 2
    <3>1. K[x] \in Seq(DOMAIN N)
      BY <1>3 DEF Net
    <3> QED BY <1>3, <3>1 DEF InCall
  <2> QED BY <1>1, <2>1 DEF Done
<1>5. s \in [DOMAIN N -> 0..2] /\ s[x] = 2 /\ \A id \in DOMAIN N : id # x => s[id] = st[id]
  BY <1>1, <1>3
<1>6. w \in [DOMAIN N -> Nat] /\ w[x] = t /\ \A id \in DOMAIN N : id # x => w[id] = v[id]
  BY <1>1, <1>3
<1>7. D \subseteq DOMAIN N /\ x \notin D /\ Done(s) = D \cup {x}
  BY <1>1, <1>3, <1>5 DEF Done
<1> HIDE DEF s, w, D
<1>8. Shut(K, D) /\ Ending(K, D) /\ Solves(N, K, D, v) /\ \A id \in D : v[id] > 0 /\ w[id] = v[id]
  BY <1>1, <1>6, <1>7 DEF Counts
<1>9. Ending(K, D \cup {x})
  <2>1. SUFFICES ASSUME NEW T \in SUBSET (D \cup {x}), T # {}
                 PROVE  \E id \in T : \A i \in 1..Len(K[id]) : K[id][i] \notin T
    BY DEF Ending
  <2>2. CASE x \notin T
    <3>1. T \in SUBSET D
      BY <2>2
    <3> QED BY <1>8, <2>1, <3>1 DEF Ending
  <2>3. CASE T = {x}
    BY <1>4, <1>7, <2>3
  <2>4. CASE x \in T /\ T # {x}
    <3>1. T \ {x} \in SUBSET D /\ T \ {x} # {}
      BY <2>4
    <3>2. PICK id \in T \ {x} : \A i \in 1..Len(K[id]) : K[id][i] \notin T \ {x}
      BY <1>8, <3>1 DEF Ending
    <3>3. \A i \in 1..Len(K[id]) : K[id][i] \in D
      BY <1>8, <3>1, <3>2 DEF Shut
    <3> QED BY <1>7, <3>2, <3>3
  <2> QED BY <2>2, <2>3, <2>4
<1>10. Solves(N, K, D \cup {x}, w)
  <2>1. ASSUME NEW id \in D \cup {x} PROVE Made(N, K, v, id) = Made(N, K, w, id)
    <3>1. id \in DOMAIN N /\ \A i \in 1..Len(K[id]) : v[K[id][i]] = w[K[id][i]]
      BY <1>3, <1>4, <1>7, <1>8 DEF Shut
    <3>2. \A j \in DOMAIN N : \A a, b :
            (\A i \in 1..Len(K[j]) : a[K[j][i]] = b[K[j][i]]) => Made(N, K, a, j) = Made(N, K, b, j)
      BY MadeAgrees
    <3> QED BY <3>1, <3>2
  <2> QED BY <1>6, <1>8, <2>1 DEF Solves
<1>11. Counts(N, K, Done(s), w)
  <2>1. Shut(K, D \cup {x})
    BY <1>4, <1>8 DEF Shut
  <2> QED BY <1>6, <1>7, <1>8, <1>9, <1>10, <2>1 DEF Counts
<1>12. ASSUME NEW j \in 1..n - 1 PROVE cs[j].node # x
  BY <1>1, <1>2 DEF Chain
<1>13. ASSUME NEW j \in 1..n - 1 PROVE InCall(N, K, size, s, w, d[j])
  <2>1. PICK e : e = cs[j]
    OBVIOUS
  <2>2. InCall(N, K, size, st, v, e) /\ d[j] = e /\ e.node # x /\ e.node \in DOMAIN N
    <3>1. j \in 1..n
      BY <1>2
    <3>2. InCall(N, K, size, st, v, e)
      BY <1>1, <2>1, <3>1
    <3>3. e \in Frames(N)
      BY <1>1, <2>1, <3>1
    <3>4. d[j] = e /\ e.node # x
      BY <1>12, <2>1
    <3> QED BY <3>2, <3>3, <3>4 DEF Frames
  <2>3. K[e.node] \in Seq(DOMAIN N) /\ Len(K[e.node]) \in Nat /\ e.done \in 0..Len(K[e.node])
    BY <2>2 DEF InCall, Net
  <2>4. \A i \in 1..e.done : /\ K[e.node][i] \in DOMAIN N /\ s[K[e.node][i]] = 2
                             /\ v[K[e.node][i]] = w[K[e.node][i]]
    <3>1. ASSUME NEW i \in 1..e.done PROVE K[e.node][i] \in DOMAIN N /\ st[K[e.node][i]] = 2
      BY <2>2, <2>3 DEF InCall
    <3> QED BY <1>3, <1>5, <1>6, <3>1
  <2>5. Native!Sums(v, K[e.node])[e.done] = Native!Sums(w, K[e.node])[e.done]
    <3>2. PICK q : q = K[e.node]
      OBVIOUS
    <3>3. PICK k : k = e.done
      OBVIOUS
    <3>4. Len(q) \in Nat /\ k \in 0..Len(q) /\ \A i \in 1..k : v[q[i]] = w[q[i]]
      BY <2>3, <2>4, <3>2, <3>3
    <3>5. Native!Sums(v, q)[k] = Native!Sums(w, q)[k]
      BY ONLY <3>4, SumsAgree
    <3> QED BY <3>2, <3>3, <3>5
  <2>6. e.done = 1 => v[K[e.node][1]] = w[K[e.node][1]]
    <3>1. e.done = 1 => 1 \in 1..e.done
      OBVIOUS
    <3> QED BY <2>4, <3>1
  <2>7. s[e.node] = 1
    BY <1>5, <2>2 DEF InCall
  <2> QED BY <2>2, <2>3, <2>4, <2>5, <2>6, <2>7 DEF InCall
<1>14. ASSUME NEW id \in DOMAIN N, s[id] = 1 PROVE \E j \in 1..n - 1 : d[j].node = id
  <2>1. id # x /\ st[id] = 1
    BY <1>5, <1>14
  <2>2. PICK j \in 1..n : cs[j].node = id
    BY <1>1, <2>1
  <2>3. j # n
    BY <2>1, <2>2
  <2>4. j \in 1..n - 1
    BY <1>1, <2>3
  <2> QED BY <2>2, <2>4
<1>15. Chain(K, root, d)
  <2>1. \A j \in 1..(n - 1) - 1 : j \in 1..n - 1 /\ j + 1 \in 1..n - 1
    BY <1>1
  <2>2. n - 1 > 0 => 1 \in 1..n - 1
    BY <1>1
  <2>3. \A j \in 1..(n - 1) - 1 : d[j].done < Len(K[d[j].node]) /\ d[j + 1].node = K[d[j].node][d[j].done + 1]
    BY <1>1, <2>1 DEF Chain
  <2>4. n - 1 > 0 => d[1].node = root
    BY <1>1, <2>2 DEF Chain
  <2>5. \A i, j \in 1..n - 1 : d[i].node = d[j].node => i = j
    BY <1>1, <1>2 DEF Chain
  <2> QED BY <2>3, <2>4, <2>5 DEF Chain
<1>16. \A S \in SUBSET DOMAIN N : root \in S /\ Shut(K, S) => \A id \in DOMAIN N : s[id] # 0 => id \in S
  <2>1. \A id \in DOMAIN N : s[id] # 0 => st[id] # 0
    BY <1>3, <1>5
  <2> QED BY <1>1, <2>1
<1>17. Tree(N, K, root, size, s, w, d)
  BY <1>5, <1>6, <1>11, <1>13, <1>14, <1>15, <1>16 DEF Tree
<1>18. Waits(K, d) /\ Awaited(K, root, d) = x
  <2>1. CASE n = 1
    <3>1. Len(d) = 0 /\ ~ (Len(d) > 0)
      BY <2>1
    <3>2. x = root
      BY <1>1, <2>1 DEF Chain
    <3>3. Waits(K, d)
      BY <3>1 DEF Waits
    <3>4. Awaited(K, root, d) = root
      BY <3>1 DEF Awaited
    <3> QED BY <3>2, <3>3, <3>4
  <2>2. CASE n # 1
    <3>1. n - 1 \in 1..n - 1 /\ Len(d) = n - 1 /\ n - 1 # 0 /\ (n - 1) + 1 = n
      BY <1>1, <1>2, <2>2
    <3>2. PICK m \in Nat : m = n - 1
      BY <3>1
    <3>3. cs[m].done < Len(K[cs[m].node]) /\ cs[n].node = K[cs[m].node][cs[m].done + 1]
      BY <1>1, <3>1, <3>2 DEF Chain
    <3>4. Len(d) = m /\ d[m] = cs[m] /\ m # 0
      BY <3>1, <3>2
    <3> QED BY <3>3, <3>4 DEF Waits, Awaited
  <2> QED BY <2>1, <2>2
<1> QED BY <1>3, <1>17, <1>18 DEF s, w

\* What is said of a file changes with the file only.
LEMMA SameFile ==
  ASSUME file' = file
  PROVE  /\ Leads' = Leads /\ Native!Root' = Native!Root
         /\ (Accepted' <=> Accepted) /\ (Native!Sound' <=> Native!Sound)
         /\ (Native!TooLong' <=> Native!TooLong)
         /\ (Native!TooDeep' <=> Native!TooDeep) /\ Native!Exact' = Native!Exact /\ Native!Ids' = Native!Ids
<1>1. Native!Nodes' = Native!Nodes /\ Native!Ids' = Native!Ids
  BY DEF Native!Nodes, Native!Ids
<1>2. ASSUME NEW name PROVE Native!Find(name)' = Native!Find(name)
  BY <1>1 DEF Native!Find, Native!SelectInSeq
<1>3. ASSUME NEW id PROVE Native!Kids(id)' = Native!Kids(id)
  BY <1>1, <1>2 DEF Native!Kids
<1>4. Native!Root' = Native!Root
  BY <1>2 DEF Native!Root
<1>5. Leads' = Leads
  BY <1>1, <1>3 DEF Leads
<1>6. (Native!Linked' <=> Native!Linked) /\ (Native!LinesAccepted' <=> Native!LinesAccepted)
  BY <1>1, <1>3, <1>4 DEF Native!Linked, Native!LinesAccepted
<1>7. (Native!Acyclic' <=> Native!Acyclic) /\ (Native!Connected' <=> Native!Connected)
  BY <1>1, <1>3, <1>4 DEF Native!Acyclic, Native!Connected
<1>8. Native!TooDeep' <=> Native!TooDeep
  BY <1>1, <1>3, <1>4 DEF Native!TooDeep
<1>9. ASSUME NEW v, NEW id PROVE Native!WordsOf(v, id)' = Native!WordsOf(v, id)
  BY <1>1, <1>3 DEF Native!WordsOf
<1>10. Native!Exact' = Native!Exact
  BY <1>1, <1>9 DEF Native!Exact
<1>11. (Native!WellFormed' <=> Native!WellFormed) /\ (Native!TooLong' <=> Native!TooLong)
  BY <1>1 DEF Native!WellFormed, Native!TooLong
<1> QED BY <1>1, <1>4, <1>5, <1>6, <1>7, <1>8, <1>10, <1>11 DEF Accepted, Native!Sound

\* checked_add and checked_mul die exactly when the result is not a machine word.
LEMMA CheckedFacts ==
  ASSUME NativeAssumption, NEW a \in Nat, NEW b \in Nat
  PROVE  /\ Native!CheckedAdd(a, b) = IF a + b <= Native!Size - 1 THEN a + b ELSE Native!Died
         /\ Native!CheckedMul(a, b) = IF a * b <= Native!Size - 1 THEN a * b ELSE Native!Died
<1>1. PICK z \in Nat : z = Native!Size /\ z > 0
  BY MachineWords
<1>2. Native!CheckedAdd(a, b) = IF a + b <= z - 1 THEN a + b ELSE Native!Died
  BY <1>1 DEF Native!CheckedAdd
<1>3. CASE a = 0
  <2>1. a * b = 0 /\ 0 <= z - 1
    BY <1>1, <1>3
  <2> QED BY <1>1, <1>2, <1>3, <2>1 DEF Native!CheckedMul
<1>4. CASE a # 0
  <2>1. PICK q \in Nat : q = (z - 1) \div a
    BY <1>1, <1>4
  <2>2. PICK r \in 0..a - 1 : z - 1 = q * a + r
    <3>1. (z - 1) % a \in 0..a - 1 /\ z - 1 = ((z - 1) \div a) * a + ((z - 1) % a)
      BY <1>1, <1>4
    <3> QED BY <2>1, <3>1
  <2>3. b <= q => a * b <= z - 1
    <3>1. b <= q => a * b <= a * q
      OBVIOUS
    <3>2. a * q = q * a /\ a * q \in Nat /\ a * b \in Nat
      OBVIOUS
    <3> QED BY <2>2, <3>1, <3>2
  <2>4. b > q => a * b > z - 1
    <3>1. b > q => a * b >= a * (q + 1)
      OBVIOUS
    <3>2. a * (q + 1) = q * a + a /\ a * b \in Nat /\ q * a \in Nat
      OBVIOUS
    <3> QED BY <1>1, <2>2, <3>1, <3>2
  <2>5. a * b \in Nat
    OBVIOUS
  <2> QED BY <1>1, <1>2, <1>4, <2>1, <2>3, <2>4, <2>5 DEF Native!CheckedMul
<1> QED BY <1>3, <1>4

\* A path from the root of more than limit + 1 nodes.
Follows(N, K, root, limit) ==
  \E path \in [0..limit + 1 -> DOMAIN N] :
    path[0] = root /\ \A i \in 0..limit : path[i + 1] \in {K[path[i]][j] : j \in 1..Len(K[path[i]])}

\* A recursion deeper than the limit follows a path of that length.
LEMMA DeepPath ==
  ASSUME NEW N, NEW K, NEW root \in DOMAIN N, NEW size, Net(N, K, size), NEW st, NEW v, NEW cs,
         Tree(N, K, root, size, st, v, cs), Waits(K, cs), NEW limit \in Nat, Len(cs) > limit
  PROVE  Follows(N, K, root, limit)
<1> DEFINE n == Len(cs)
           x == Awaited(K, root, cs)
           path == [i \in 0..limit + 1 |-> IF i < n THEN cs[i + 1].node ELSE x]
<1>1. n \in Nat /\ n > limit /\ cs \in Seq(Frames(N)) /\ Chain(K, root, cs)
  BY DEF Tree
<1>2. x \in DOMAIN N
  BY <1>1, AwaitedType
<1>3. \A j \in 1..n : /\ cs[j].node \in DOMAIN N /\ cs[j].done \in Nat
                      /\ Len(K[cs[j].node]) \in Nat
  <2>1. ASSUME NEW j \in 1..n PROVE cs[j].node \in DOMAIN N /\ cs[j].done \in Nat /\ Len(K[cs[j].node]) \in Nat
    <3>1. PICK e \in Frames(N) : e = cs[j]
      BY <1>1
    <3>2. e.node \in DOMAIN N /\ e.done \in Nat
      BY DEF Frames
    <3>3. K[e.node] \in Seq(DOMAIN N)
      BY <3>2 DEF Net
    <3> QED BY <3>1, <3>2, <3>3
  <2> QED BY <2>1
<1> HIDE DEF x
<1>4. ASSUME NEW i \in 0..limit + 1 PROVE path[i] \in DOMAIN N
  <2>1. i < n => i + 1 \in 1..n
    BY <1>1
  <2> QED BY <1>2, <1>3, <2>1
<1>5. path[0] = root
  BY <1>1 DEF Chain
<1>6. ASSUME NEW i \in 0..limit PROVE path[i + 1] \in {K[path[i]][j] : j \in 1..Len(K[path[i]])}
  <2>1. i < n /\ i + 1 \in 1..n /\ path[i] = cs[i + 1].node
    BY <1>1
  <2>2. cs[i + 1].done < Len(K[cs[i + 1].node]) /\ path[i + 1] = K[cs[i + 1].node][cs[i + 1].done + 1]
    <3>1. CASE i + 1 < n
      <4>1. i + 1 \in 1..n - 1 /\ path[i + 1] = cs[(i + 1) + 1].node
        BY <1>1, <3>1
      <4> QED BY <1>1, <4>1 DEF Chain
    <3>2. CASE i + 1 = n
      <4>1. path[i + 1] = x /\ n > 0 /\ n # 0
        BY <1>1, <3>2
      <4> QED BY <3>2, <4>1 DEF Waits, Awaited, x
    <3> QED BY <1>1, <2>1, <3>1, <3>2
  <2>3. cs[i + 1].done + 1 \in 1..Len(K[cs[i + 1].node])
    BY <1>3, <2>1, <2>2
  <2> QED BY <2>1, <2>2, <2>3
<1>7. path \in [0..limit + 1 -> DOMAIN N]
  BY <1>4
<1> HIDE DEF path
<1> QED BY <1>5, <1>6, <1>7 DEF Follows

\* A node that is met while its own call is in progress is on a cycle.
LEMMA OnCycle ==
  ASSUME NEW N, NEW K, NEW root \in DOMAIN N, NEW size, Net(N, K, size), NEW st, NEW v, NEW cs,
         Tree(N, K, root, size, st, v, cs), Waits(K, cs), st[Awaited(K, root, cs)] = 1
  PROVE  ~ Ending(K, DOMAIN N)
<1> DEFINE n == Len(cs)
           x == Awaited(K, root, cs)
           T == {id \in DOMAIN N : st[id] = 1}
<1>1. /\ n \in Nat /\ cs \in Seq(Frames(N)) /\ Chain(K, root, cs)
      /\ \A j \in 1..n : InCall(N, K, size, st, v, cs[j])
      /\ \A id \in DOMAIN N : st[id] = 1 => \E j \in 1..n : cs[j].node = id
  BY DEF Tree
<1>2. x \in T
  BY <1>1, AwaitedType
<1> HIDE DEF x
<1>3. ASSUME NEW id \in T PROVE \E i \in 1..Len(K[id]) : K[id][i] \in T
  <2>1. PICK j \in 1..n : cs[j].node = id
    BY <1>1
  <2>2. PICK e \in Frames(N) : e = cs[j]
    BY <1>1
  <2>3. e.node = id /\ e.done \in Nat
    BY <2>1, <2>2 DEF Frames
  <2>4. e.done < Len(K[id]) /\ K[id][e.done + 1] \in T
    <3>1. CASE j = n
      <4>1. n > 0 /\ n # 0
        BY <1>1, <3>1
      <4>2. cs[n].done < Len(K[cs[n].node]) /\ x = K[cs[n].node][cs[n].done + 1]
        BY <4>1 DEF Waits, Awaited, x
      <4> QED BY <1>2, <2>2, <2>3, <3>1, <4>2
    <3>2. CASE j # n
      <4>1. j \in 1..n - 1 /\ j + 1 \in 1..n
        BY <1>1, <3>2
      <4>2. cs[j].done < Len(K[cs[j].node]) /\ cs[j + 1].node = K[cs[j].node][cs[j].done + 1]
        BY <1>1, <4>1 DEF Chain
      <4>3. PICK g \in Frames(N) : g = cs[j + 1]
        BY <1>1, <4>1
      <4>4. g.node \in DOMAIN N /\ st[g.node] = 1
        BY <1>1, <4>1, <4>3 DEF Frames, InCall
      <4> QED BY <2>2, <2>3, <4>2, <4>3, <4>4
    <3> QED BY <3>1, <3>2
  <2>5. e.done + 1 \in 1..Len(K[id])
    <3>1. K[id] \in Seq(DOMAIN N)
      BY DEF Net
    <3> QED BY <2>3, <2>4, <3>1
  <2> QED BY <2>4, <2>5
<1>4. T \in SUBSET DOMAIN N
  OBVIOUS
<1> HIDE DEF T
<1> QED BY <1>2, <1>3, <1>4 DEF Ending

\* The width of a range in a machine word is zero when the range has as many values
\* as there are words.
LEMMA CutWidth ==
  ASSUME NEW size \in Nat, NEW w \in 1..size
  PROVE  w % size = IF w = size THEN 0 ELSE w
OBVIOUS

\* The step of a call: what it takes is the next sum, or the product, of exact
\* counts, and no larger than the count of its node.
LEMMA StepFits ==
  ASSUME NEW N, NEW K, NEW root \in DOMAIN N, NEW size \in Nat, Net(N, K, size), NEW st, NEW v, NEW cs,
         Tree(N, K, root, size, st, v, cs), Waits(K, cs), Len(cs) > 0,
         NEW c, c = cs[Len(cs)], st[Awaited(K, root, cs)] = 2,
         NEW e, Solves(N, K, DOMAIN N, e), \A id \in DOMAIN N : e[id] \in 1..size - 1
  PROVE  /\ N[c.node].type = "C" => c.total + v[Awaited(K, root, cs)] <= size - 1
         /\ N[c.node].type = "R" => (Wide(N, c.node) % size) * v[Awaited(K, root, cs)] <= size - 1
<1> DEFINE n == Len(cs)
           D == Done(st)
<1>1. /\ st \in [DOMAIN N -> 0..2] /\ v \in [DOMAIN N -> Nat] /\ cs \in Seq(Frames(N)) /\ n \in Nat
      /\ \A j \in 1..n : InCall(N, K, size, st, v, cs[j])
      /\ Counts(N, K, D, v)
  BY DEF Tree
<1>2. n \in 1..n /\ n # 0
  BY <1>1
<1>3. PICK x : x = Awaited(K, root, cs)
  OBVIOUS
<1>4. c \in Frames(N) /\ InCall(N, K, size, st, v, c) /\ c.done < Len(K[c.node]) /\ x = K[c.node][c.done + 1]
  BY <1>1, <1>2, <1>3 DEF Waits, Awaited
<1>5. PICK id \in DOMAIN N : id = c.node
  BY <1>4 DEF Frames
<1>6. PICK s \in Seq(DOMAIN N) : s = K[id]
  BY DEF Net
<1>7. PICK d \in Nat : d = c.done /\ d + 1 \in 1..Len(s) /\ d \in 0..Len(s) - 1 /\ x = s[d + 1]
  <2>1. c.done \in Nat
    BY <1>4 DEF Frames
  <2> QED BY <1>4, <1>5, <1>6, <2>1
<1>8. D \subseteq DOMAIN N /\ Shut(K, D) /\ Ending(K, D) /\ Solves(N, K, D, v)
  BY <1>1 DEF Counts, Done
<1>9. \A i \in D : v[i] = e[i]
  <2>1. Solves(N, K, D, e)
    BY <1>8 DEF Solves
  <2> HIDE DEF D
  <2> QED BY <1>8, <2>1, OneSolution
<1>10. \A i \in 1..d + 1 : s[i] \in DOMAIN N /\ st[s[i]] = 2
  <2>1. ASSUME NEW i \in 1..d + 1 PROVE s[i] \in DOMAIN N /\ st[s[i]] = 2
    <3>1. i \in 1..d \/ i = d + 1
      OBVIOUS
    <3>2. i \in 1..Len(s)
      BY <1>7
    <3>3. i \in 1..d => st[s[i]] = 2
      BY <1>4, <1>5, <1>6, <1>7 DEF InCall
    <3>4. st[s[d + 1]] = 2
      BY <1>3, <1>7
    <3> QED BY <3>1, <3>2, <3>3, <3>4
  <2> QED BY <2>1
<1>11. \A i \in 1..d + 1 : v[s[i]] = e[s[i]]
  BY <1>1, <1>9, <1>10 DEF Done
<1>12. \A i \in 1..Len(s) : s[i] \in DOMAIN N /\ e[s[i]] \in Nat
  OBVIOUS
<1>13. CASE N[id].type = "C"
  <2>1. Native!Sums(v, s)[d + 1] = Native!Sums(v, s)[d] + v[s[d + 1]]
    BY <1>7, SumsAt
  <2>2. c.total + v[x] = Native!Sums(v, s)[d + 1]
    BY <1>4, <1>5, <1>6, <1>7, <1>13, <2>1 DEF InCall
  <2>3. Len(s) \in Nat /\ d + 1 \in 0..Len(s)
    BY <1>7
  <2>4. Native!Sums(v, s)[d + 1] = Native!Sums(e, s)[d + 1]
    BY <1>11, <2>3, SumsAgree
  <2>5. Native!Sums(e, s)[d + 1] <= Native!Sums(e, s)[Len(s)]
    BY ONLY <1>12, <2>3, SumsGrow
  <2>6. e[id] = Native!Sums(e, s)[Len(s)]
    BY <1>6, <1>13 DEF Solves, Made
  <2>7. c.total + v[x] <= e[id] /\ e[id] <= size - 1
    BY <2>2, <2>4, <2>5, <2>6
  <2>8. e[id] \in Nat /\ Native!Sums(e, s)[d + 1] \in Nat
    <3>1. Native!Sums(e, s)[d + 1] \in Nat
      BY ONLY <1>12, <2>3, SumsGrow
    <3>2. e[id] \in 1..size - 1
      OBVIOUS
    <3> QED BY <3>1, <3>2
  <2> QED BY <1>3, <1>5, <1>13, <2>2, <2>4, <2>7, <2>8
<1>14. CASE N[id].type = "R"
  <2>1. Len(s) = 1 /\ Wide(N, id) \in 1..size
    BY <1>6, <1>14 DEF Net
  <2>2. x = s[1] /\ v[x] = e[x] /\ x \in DOMAIN N
    <3>1. d = 0 /\ 1 \in 1..d + 1
      BY <1>7, <2>1
    <3> QED BY <1>7, <1>10, <1>11, <3>1
  <2>3. PICK y \in 1..size - 1 : y = e[x]
    BY <2>2
  <2>4. PICK w \in 1..size : w = Wide(N, id)
    BY <2>1
  <2>5. w * y = e[id]
    BY <1>6, <1>14, <2>2, <2>3, <2>4 DEF Solves, Made
  <2>6. w % size = IF w = size THEN 0 ELSE w
    BY CutWidth
  <2>7. (w % size) * y <= size - 1
    <3>1. CASE w = size
      <4>1. 0 * y = 0 /\ 0 <= size - 1
        OBVIOUS
      <4> QED BY <2>6, <3>1, <4>1
    <3>2. CASE w # size
      <4>1. e[id] <= size - 1
        OBVIOUS
      <4> QED BY <2>5, <2>6, <3>2, <4>1
    <3> QED BY <3>1, <3>2
  <2> QED BY <1>3, <1>5, <1>14, <2>2, <2>3, <2>4, <2>7
<1>15. N[id].type \notin {"C", "R"} => FALSE
  <2>1. Len(s) > 0
    BY <1>7
  <2> QED BY <1>6, <2>1 DEF Net
<1> QED BY <1>5, <1>13, <1>14, <1>15

\* The end of a call: a total is exact unless it is zero, and zero is the width of
\* a range of as many values as there are words, whose count is no word.
LEMMA EndFits ==
  ASSUME NEW N, NEW K, NEW root \in DOMAIN N, NEW size \in Nat, Net(N, K, size), NEW st, NEW v, NEW cs,
         Tree(N, K, root, size, st, v, cs), Len(cs) > 0,
         NEW c, c = cs[Len(cs)], c.done = Len(K[c.node]),
         NEW t, t = IF N[c.node].type = "T" THEN 1 ELSE c.total
  PROVE  /\ t \in Nat /\ (t # 0 => t = Made(N, K, v, c.node))
         /\ t = 0 => \A e : Solves(N, K, DOMAIN N, e) => \E id \in DOMAIN N : e[id] \notin 1..size - 1
<1> DEFINE n == Len(cs)
           D == Done(st)
<1>1. /\ st \in [DOMAIN N -> 0..2] /\ v \in [DOMAIN N -> Nat] /\ cs \in Seq(Frames(N)) /\ n \in Nat
      /\ \A j \in 1..n : InCall(N, K, size, st, v, cs[j])
      /\ Counts(N, K, D, v)
  BY DEF Tree
<1>2. n \in 1..n
  BY <1>1
<1>3. c \in Frames(N) /\ InCall(N, K, size, st, v, c)
  BY <1>1, <1>2
<1>4. PICK id \in DOMAIN N : id = c.node
  BY <1>3 DEF Frames
<1>5. PICK s \in Seq(DOMAIN N) : s = K[id]
  BY DEF Net
<1>6. c.done = Len(s) /\ Len(s) \in Nat /\ c.total \in Nat
  BY <1>3, <1>4, <1>5 DEF Frames
<1>7. \A i \in 1..Len(s) : s[i] \in DOMAIN N /\ v[s[i]] \in Nat /\ v[s[i]] > 0
  <2>1. ASSUME NEW i \in 1..Len(s) PROVE s[i] \in DOMAIN N /\ st[s[i]] = 2
    BY <1>3, <1>4, <1>5, <1>6 DEF InCall
  <2> QED BY <1>1, <2>1 DEF Counts, Done
<1>8. CASE N[id].type = "T"
  BY <1>4, <1>8 DEF Made
<1>9. CASE N[id].type = "C"
  <2>1. t = Native!Sums(v, s)[Len(s)] /\ t = Made(N, K, v, id) /\ Len(s) > 0
    BY <1>3, <1>4, <1>5, <1>6, <1>9 DEF InCall, Made, Net
  <2>2. Native!Sums(v, s)[0] = 0 /\ Native!Sums(v, s)[0 + 1] = Native!Sums(v, s)[0] + v[s[0 + 1]]
    <3>1. 0 \in 0..Len(s) - 1
      BY <1>6, <2>1
    <3> QED BY <1>6, <3>1, SumsAt
  <2>3. v[s[1]] > 0 /\ v[s[1]] \in Nat /\ 1 \in 0..Len(s)
    BY <1>6, <1>7, <2>1
  <2>4. Native!Sums(v, s)[1] \in Nat /\ Native!Sums(v, s)[1] <= Native!Sums(v, s)[Len(s)]
    BY <1>6, <1>7, <2>3, SumsGrow
  <2>5. Native!Sums(v, s)[1] = v[s[1]]
    BY <2>2, <2>3
  <2>6. t # 0
    BY <1>6, <1>4, <1>9, <2>1, <2>3, <2>4, <2>5
  <2> QED BY <1>4, <1>6, <1>9, <2>1, <2>6
<1>10. CASE N[id].type = "R"
  <2>1. Len(s) = 1 /\ Wide(N, id) \in 1..size
    BY <1>5, <1>10 DEF Net
  <2>2. PICK w \in 1..size : w = Wide(N, id)
    BY <2>1
  <2>3. PICK y \in Nat : y = v[s[1]] /\ y > 0
    BY <1>7, <2>1
  <2>4. t = (w % size) * y
    BY <1>3, <1>4, <1>5, <1>6, <1>10, <2>1, <2>2, <2>3 DEF InCall
  <2>5. Made(N, K, v, id) = w * y
    BY <1>5, <1>10, <2>2, <2>3 DEF Made
  <2>6. w % size = IF w = size THEN 0 ELSE w
    BY CutWidth
  <2>7. w # size => t = w * y /\ t # 0
    BY <2>3, <2>4, <2>6
  <2>8. w = size => t = 0
    <3>1. 0 * y = 0
      OBVIOUS
    <3> QED BY <2>4, <2>6, <3>1
  <2>9. ASSUME t = 0, NEW e, Solves(N, K, DOMAIN N, e), \A i \in DOMAIN N : e[i] \in 1..size - 1 PROVE FALSE
    <3>1. s[1] \in DOMAIN N
      BY <1>7, <2>1
    <3>2. PICK f \in 1..size - 1 : f = e[s[1]]
      BY <2>9, <3>1
    <3>3. e[id] = size * f
      BY <1>5, <1>10, <2>2, <2>7, <2>9, <3>2 DEF Solves, Made
    <3>4. size * f >= size
      OBVIOUS
    <3>5. e[id] \in 1..size - 1
      BY <2>9
    <3> QED BY <3>3, <3>4, <3>5
  <2>10. t \in Nat
    BY <1>4, <1>6, <1>10
  <2> QED BY <1>4, <2>5, <2>7, <2>8, <2>9, <2>10
<1> QED BY <1>4, <1>8, <1>9, <1>10 DEF Net

\* The end of the recursion: the root has been counted; unless every node has been,
\* the others are not reached from it, and then the counts are the exact ones.
LEMMA CountedAll ==
  ASSUME NEW N, NEW K, NEW root \in DOMAIN N, NEW size, Net(N, K, size), NEW st, NEW v, NEW cs,
         Tree(N, K, root, size, st, v, cs), st[root] = 2
  PROVE  IF \E id \in DOMAIN N : st[id] # 2
         THEN ~ \A S \in SUBSET DOMAIN N : root \in S /\ Shut(K, S) => S = DOMAIN N
         ELSE /\ Ending(K, DOMAIN N) /\ Solves(N, K, DOMAIN N, v)
              /\ \A S \in SUBSET DOMAIN N : root \in S /\ Shut(K, S) => S = DOMAIN N
              /\ \A e : Solves(N, K, DOMAIN N, e) => \A id \in DOMAIN N : v[id] = e[id]
<1> DEFINE D == Done(st)
<1>1. /\ st \in [DOMAIN N -> 0..2]
      /\ Shut(K, D) /\ Ending(K, D) /\ Solves(N, K, D, v)
      /\ \A S \in SUBSET DOMAIN N : root \in S /\ Shut(K, S) => \A id \in DOMAIN N : st[id] # 0 => id \in S
  BY DEF Tree, Counts
<1>2. D \in SUBSET DOMAIN N /\ root \in D /\ \A id \in DOMAIN N : id \in D <=> st[id] = 2
  BY <1>1 DEF Done
<1> HIDE DEF D
<1>3. CASE \E id \in DOMAIN N : st[id] # 2
  <2>1. D # DOMAIN N
    BY <1>2, <1>3
  <2> QED BY <1>1, <1>2, <1>3, <2>1
<1>4. CASE ~ \E id \in DOMAIN N : st[id] # 2
  <2>1. D = DOMAIN N
    BY <1>2, <1>4
  <2>2. \A S \in SUBSET DOMAIN N : root \in S /\ Shut(K, S) => S = DOMAIN N
    <3>1. ASSUME NEW S \in SUBSET DOMAIN N, root \in S, Shut(K, S), NEW id \in DOMAIN N PROVE id \in S
      <4>1. st[id] # 0
        BY <1>4
      <4> QED BY <1>1, <3>1, <4>1
    <3> QED BY <3>1
  <2>3. ASSUME NEW e, Solves(N, K, DOMAIN N, e) PROVE \A id \in DOMAIN N : v[id] = e[id]
    BY <1>1, <2>1, <2>3, OneSolution
  <2> QED BY <1>1, <1>4, <2>1, <2>2, <2>3
<1> QED BY <1>3, <1>4

\* The reasons to refuse a file, and the inductive invariant of the engine.
Refusable ==
  \/ ~ Native!Sound \/ Native!TooLong \/ Native!TooDeep
  \/ \E id \in Native!Ids : Native!Exact[id] \notin 1..Native!Size - 1
Progress == Tree(file.nodes, Leads, Native!Root, Native!Size, states, tallies, calls)
Wanted == Awaited(Leads, Native!Root, calls)
NativeInv ==
  /\ file \in NativeFiles
  /\ pc \in {"load", "call", "loop", "return", "ready", "died"}
  /\ pc = "load" => calls = <<>>
  /\ pc \in {"call", "loop", "return"} => Accepted /\ Progress
  /\ pc \in {"call", "return"} => Waits(Leads, calls)
  /\ pc = "call" => arg = Wanted
  /\ pc = "loop" => Len(calls) > 0
  /\ pc = "return" => states[Wanted] = 2 /\ answer = tallies[Wanted]
  /\ pc = "ready" => Native!Sound /\ ~ Native!TooLong /\ \A id \in Native!Ids : tallies[id] = Native!Exact[id]
  /\ pc = "died" => Refusable

\* The invariant implies the property.
LEMMA NativeInvSafe == NativeInv => Native!CountsNeverWrap
BY DEF NativeInv, Refusable, Native!CountsNeverWrap

\* The same of the reasons to refuse a file.
LEMMA SameRefusal == ASSUME file' = file PROVE Refusable' <=> Refusable
BY SameFile DEF Refusable

\* What the lines and links of a file that is accepted add up to.
LEMMA AcceptedFacts ==
  ASSUME NativeAssumption, file \in NativeFiles, Accepted
  PROVE  /\ Net(file.nodes, Leads, Native!Size) /\ Native!Root \in DOMAIN file.nodes
         /\ Native!Ids = DOMAIN file.nodes
         /\ \A id \in DOMAIN file.nodes : Leads[id] = Native!Kids(id)
         /\ Native!Sound <=>
              /\ Ending(Leads, DOMAIN file.nodes)
              /\ \A S \in SUBSET DOMAIN file.nodes : Native!Root \in S /\ Shut(Leads, S) => S = DOMAIN file.nodes
         /\ Native!Sound => Solves(file.nodes, Leads, DOMAIN file.nodes, Native!Exact)
         /\ ~ Native!TooLong
<1>1. /\ Net(file.nodes, Leads, Native!Size) /\ Native!Root \in DOMAIN file.nodes
      /\ Native!Ids = DOMAIN file.nodes
      /\ \A id \in DOMAIN file.nodes : Leads[id] = Native!Kids(id)
  BY NetOfFile
<1>2. /\ Native!Acyclic <=> Ending(Leads, DOMAIN file.nodes)
      /\ Native!Connected <=>
           \A S \in SUBSET DOMAIN file.nodes : Native!Root \in S /\ Shut(Leads, S) => S = DOMAIN file.nodes
      /\ Native!Acyclic => Solves(file.nodes, Leads, DOMAIN file.nodes, Native!Exact)
  BY SoundFacts
<1>3. Native!WellFormed /\ ~ Native!TooLong
  BY LinesFacts DEF Accepted
<1>4. Native!Sound <=> Native!Acyclic /\ Native!Connected
  BY <1>3 DEF Native!Sound, Accepted
<1> QED BY <1>1, <1>2, <1>3, <1>4

\* The invariant holds before a file is read (load_schema, 219-230).
LEMMA NativeInit == NativeAssumption /\ Native!InitCount => NativeInv
BY DEF Native!InitCount, NativeInv

\* Reading the lines and resolving their targets keeps the invariant (load_schema,
\* 219-298).
LEMMA LoadStep == NativeAssumption /\ NativeInv /\ Native!Load => NativeInv'
<1> SUFFICES ASSUME NativeAssumption, NativeInv, Native!Load PROVE NativeInv'
  OBVIOUS
<1>1. file \in NativeFiles /\ file' = file /\ calls = <<>> /\ calls' = calls
  BY DEF NativeInv, Native!Load
<1>2. /\ Leads' = Leads /\ Native!Root' = Native!Root /\ (Accepted' <=> Accepted)
      /\ (Native!Sound' <=> Native!Sound) /\ (Refusable' <=> Refusable)
  BY <1>1, SameFile, SameRefusal
<1>3. CASE Accepted
  <2>1. Net(file.nodes, Leads, Native!Size) /\ Native!Root \in DOMAIN file.nodes /\ Native!Ids = DOMAIN file.nodes
    BY <1>1, <1>3, AcceptedFacts
  <2>2. /\ states' = [id \in DOMAIN file.nodes |-> 0] /\ tallies' = [id \in DOMAIN file.nodes |-> 0]
        /\ arg' = Native!Root /\ pc' = "call"
    BY <1>3, <2>1 DEF Native!Load, Accepted
  <2>3. Tree(file.nodes, Leads, Native!Root, Native!Size, [id \in DOMAIN file.nodes |-> 0],
             [id \in DOMAIN file.nodes |-> 0], <<>>)
    BY <2>1, EmptyTree
  <2>4. Progress'
    BY <1>1, <1>2, <2>2, <2>3 DEF Progress
  <2>5. Len(calls') = 0 /\ ~ (Len(calls') > 0)
    BY <1>1
  <2>6. Waits(Leads, calls)' /\ Wanted' = Native!Root
    BY <1>2, <2>5 DEF Waits, Wanted, Awaited
  <2> QED BY <1>1, <1>2, <1>3, <2>2, <2>4, <2>6 DEF NativeInv
<1>4. CASE ~ Accepted
  <2>1. pc' = "died"
    BY <1>4 DEF Native!Load, Accepted
  <2>2. Refusable
    BY <1>1, <1>4, LinesFacts DEF Refusable, Native!Sound, Accepted
  <2> QED BY <1>1, <1>2, <2>1, <2>2 DEF NativeInv
<1> QED BY <1>3, <1>4

\* What holds while the engine counts.
LEMMA WhileCounting ==
  ASSUME NativeAssumption, NativeInv, pc \in {"call", "loop", "return"}
  PROVE  /\ file \in NativeFiles /\ Accepted /\ Progress
         /\ Net(file.nodes, Leads, Native!Size) /\ Native!Root \in DOMAIN file.nodes
         /\ Native!Ids = DOMAIN file.nodes /\ \A id \in DOMAIN file.nodes : Leads[id] = Native!Kids(id)
         /\ states \in [DOMAIN file.nodes -> 0..2] /\ tallies \in [DOMAIN file.nodes -> Nat]
         /\ calls \in Seq(Frames(file.nodes)) /\ Len(calls) \in Nat
<1>1. file \in NativeFiles /\ Accepted /\ Progress
  BY DEF NativeInv
<1>2. /\ states \in [DOMAIN file.nodes -> 0..2] /\ tallies \in [DOMAIN file.nodes -> Nat]
      /\ calls \in Seq(Frames(file.nodes))
  BY <1>1 DEF Progress, Tree
<1>3. Len(calls) \in Nat
  BY <1>2
<1> QED BY <1>1, <1>2, <1>3, AcceptedFacts

\* A call of compute_count keeps the invariant: the ones that die are too deep, or
\* met on a cycle (195-202).
LEMMA CallStep == NativeAssumption /\ NativeInv /\ Native!Call => NativeInv'
<1> SUFFICES ASSUME NativeAssumption, NativeInv, Native!Call PROVE NativeInv'
  OBVIOUS
<1> DEFINE N == file.nodes
<1>1. pc = "call" /\ file' = file /\ tallies' = tallies /\ arg' = arg
  BY DEF Native!Call
<1>2. /\ file \in NativeFiles /\ Accepted /\ Progress
      /\ Net(N, Leads, Native!Size) /\ Native!Root \in DOMAIN N
      /\ Native!Ids = DOMAIN N /\ \A id \in DOMAIN N : Leads[id] = Native!Kids(id)
      /\ states \in [DOMAIN N -> 0..2] /\ calls \in Seq(Frames(N)) /\ Len(calls) \in Nat
  BY <1>1, WhileCounting
<1>3. Waits(Leads, calls) /\ arg = Wanted
  BY <1>1 DEF NativeInv
<1>4. /\ Leads' = Leads /\ Native!Root' = Native!Root /\ (Accepted' <=> Accepted)
      /\ (Refusable' <=> Refusable)
  BY <1>1, SameFile, SameRefusal
<1>5. arg \in DOMAIN N
  BY <1>2, <1>3, AwaitedType DEF Wanted
<1>6. CASE Len(calls) > DepthLimit
  <2>1. pc' = "died"
    BY <1>6 DEF Native!Call
  <2>2. DepthLimit \in Nat
    BY DEF NativeAssumption
  <2>3. PICK path \in [0..DepthLimit + 1 -> DOMAIN N] :
          /\ path[0] = Native!Root
          /\ \A i \in 0..DepthLimit : path[i + 1] \in {Leads[path[i]][j] : j \in 1..Len(Leads[path[i]])}
    <3>1. Tree(N, Leads, Native!Root, Native!Size, states, tallies, calls)
      BY <1>2 DEF Progress
    <3>2. Follows(N, Leads, Native!Root, DepthLimit)
      BY <1>2, <1>3, <1>6, <2>2, <3>1, DeepPath
    <3> QED BY <3>2 DEF Follows
  <2>4. ASSUME NEW i \in 0..DepthLimit PROVE path[i + 1] \in Native!ToSet(Native!Kids(path[i]))
    <3>1. path[i] \in DOMAIN N
      BY <2>2
    <3>2. Leads[path[i]] \in Seq(DOMAIN N) /\ Leads[path[i]] = Native!Kids(path[i])
      BY <1>2, <3>1 DEF Net
    <3>3. DOMAIN Leads[path[i]] = 1..Len(Leads[path[i]])
      BY <3>2
    <3> QED BY <2>3, <3>2, <3>3 DEF Native!ToSet
  <2>5. Native!TooDeep
    BY <1>2, <2>3, <2>4 DEF Native!TooDeep
  <2> QED BY <1>1, <1>2, <1>4, <2>1, <2>5 DEF NativeInv, Refusable
<1>7. CASE ~ (Len(calls) > DepthLimit) /\ states[arg] = 1
  <2>1. pc' = "died"
    BY <1>7 DEF Native!Call
  <2>2. ~ Ending(Leads, DOMAIN N)
    BY <1>2, <1>3, <1>7, OnCycle DEF Progress, Wanted
  <2>3. ~ Native!Sound
    BY <1>2, <2>2, AcceptedFacts
  <2> QED BY <1>1, <1>2, <1>4, <2>1, <2>3 DEF NativeInv, Refusable
<1>8. CASE ~ (Len(calls) > DepthLimit) /\ states[arg] = 2
  <2>1. pc' = "return" /\ answer' = tallies[arg] /\ states' = states /\ calls' = calls
    BY <1>8 DEF Native!Call
  <2>2. Progress' /\ Waits(Leads, calls)' /\ Wanted' = Wanted
    BY <1>1, <1>2, <1>3, <1>4, <2>1 DEF Progress, Wanted
  <2> QED BY <1>1, <1>2, <1>3, <1>4, <1>8, <2>1, <2>2 DEF NativeInv
<1>9. CASE ~ (Len(calls) > DepthLimit) /\ states[arg] = 0
  <2>1. /\ pc' = "loop" /\ states' = [states EXCEPT ![arg] = 1]
        /\ calls' = Append(calls, [node |-> arg, done |-> 0, total |-> 0])
    BY <1>9 DEF Native!Call
  <2>2. Tree(N, Leads, Native!Root, Native!Size, states', tallies, calls')
    BY <1>2, <1>3, <1>9, <2>1, PushTree DEF Progress, Wanted
  <2>3. Progress'
    BY <1>1, <1>4, <2>2 DEF Progress
  <2>4. Len(calls') > 0
    <3>1. PICK c : c = [node |-> arg, done |-> 0, total |-> 0]
      OBVIOUS
    <3>2. c \in Frames(N)
      BY <1>5, <3>1 DEF Frames
    <3> QED BY <1>2, <2>1, <3>1, <3>2
  <2> QED BY <1>1, <1>2, <1>4, <2>1, <2>3, <2>4 DEF NativeInv
<1>10. states[arg] \in 0..2
  BY <1>2, <1>5
<1> QED BY <1>6, <1>7, <1>8, <1>9, <1>10

\* The calls without the last one.
LEMMA PopFacts ==
  ASSUME NEW S, NEW cs \in Seq(S), Len(cs) > 0
  PROVE  /\ Native!Last(cs) = cs[Len(cs)] /\ Native!Last(cs) \in S
         /\ Native!Front(cs) \in Seq(S) /\ Len(Native!Front(cs)) = Len(cs) - 1
         /\ \A j \in 1..Len(cs) - 1 : Native!Front(cs)[j] = cs[j]
<1>1. PICK n \in Nat : n = Len(cs) /\ n \in 1..n /\ n - 1 \in 0..n
  <2>1. Len(cs) \in Nat
    OBVIOUS
  <2> QED BY <2>1
<1>2. Native!Front(cs) = [j \in 1..n - 1 |-> cs[j]]
  BY <1>1 DEF Native!Front
<1>3. \A j \in 1..n - 1 : cs[j] \in S
  BY <1>1
<1>4. [j \in 1..n - 1 |-> cs[j]] \in Seq(S) /\ Len([j \in 1..n - 1 |-> cs[j]]) = n - 1
  BY <1>1, <1>3
<1>5. Native!Last(cs) = cs[Len(cs)] /\ Native!Last(cs) \in S
  BY <1>1 DEF Native!Last
<1> QED BY <1>1, <1>2, <1>4, <1>5

\* A call with a branch more and a new total.
LEMMA UpdatedCall ==
  ASSUME NEW N, NEW c \in [node : N, done : Nat, total : Nat], NEW t \in Nat, NEW u \in Nat
  PROVE  [c EXCEPT !.done = u, !.total = t] = [node |-> c.node, done |-> u, total |-> t]
<1>1. [c EXCEPT !.done = u, !.total = t] \in [node : N, done : Nat, total : Nat]
  OBVIOUS
<1>2. [c EXCEPT !.done = u, !.total = t].node = c.node
  OBVIOUS
<1>3. [c EXCEPT !.done = u, !.total = t].done = u
  OBVIOUS
<1>4. [c EXCEPT !.done = u, !.total = t].total = t
  OBVIOUS
<1>5. PICK q : q = [c EXCEPT !.done = u, !.total = t]
  OBVIOUS
<1>6. PICK r : r = [node |-> c.node, done |-> u, total |-> t]
  OBVIOUS
<1>7. q \in [node : N, done : Nat, total : Nat] /\ q.node = c.node /\ q.done = u /\ q.total = t
  BY <1>1, <1>2, <1>3, <1>4, <1>5
<1>8. r \in [node : N, done : Nat, total : Nat] /\ r.node = c.node /\ r.done = u /\ r.total = t
  BY <1>6
<1>9. q = r
  BY <1>7, <1>8
<1> QED BY <1>5, <1>6, <1>9

\* Going down to the next branch keeps the invariant (compute_count, 205-212).
LEMMA DescendStep == NativeAssumption /\ NativeInv /\ Native!Descend => NativeInv'
<1> SUFFICES ASSUME NativeAssumption, NativeInv, Native!Descend PROVE NativeInv'
  OBVIOUS
<1> DEFINE N == file.nodes
<1>1. /\ pc = "loop" /\ file' = file /\ states' = states /\ tallies' = tallies /\ calls' = calls
      /\ pc' = "call"
  BY DEF Native!Descend
<1>2. /\ file \in NativeFiles /\ Accepted /\ Progress
      /\ Net(N, Leads, Native!Size)
      /\ \A id \in DOMAIN N : Leads[id] = Native!Kids(id)
      /\ calls \in Seq(Frames(N)) /\ Len(calls) \in Nat
  BY <1>1, WhileCounting
<1>3. Len(calls) > 0 /\ Len(calls) # 0
  <2>1. Len(calls) > 0
    BY <1>1 DEF NativeInv
  <2> QED BY <1>2, <2>1
<1>4. /\ Leads' = Leads /\ Native!Root' = Native!Root /\ (Accepted' <=> Accepted)
      /\ (Refusable' <=> Refusable)
  BY <1>1, SameFile, SameRefusal
<1>5. PICK c \in Frames(N) : c = Native!Top /\ c = calls[Len(calls)]
  BY <1>2, <1>3, PopFacts DEF Native!Top
<1>6. c.node \in DOMAIN N
  BY DEF Frames
<1>7. c.done < Len(Leads[c.node]) /\ arg' = Leads[c.node][c.done + 1]
  BY <1>2, <1>5, <1>6 DEF Native!Descend
<1>8. Waits(Leads, calls) /\ arg' = Wanted
  BY <1>3, <1>5, <1>7 DEF Waits, Wanted, Awaited
<1>9. Progress' /\ Waits(Leads, calls)' /\ Wanted' = Wanted
  BY <1>1, <1>2, <1>4, <1>8 DEF Progress, Wanted
<1> QED BY <1>1, <1>2, <1>4, <1>8, <1>9 DEF NativeInv

\* Taking the count of a branch keeps the invariant: where the checked arithmetic
\* dies, the exact count of the node is no machine word (compute_count, 205-212).
LEMMA TakeStep == NativeAssumption /\ NativeInv /\ Native!Take => NativeInv'
<1> SUFFICES ASSUME NativeAssumption, NativeInv, Native!Take PROVE NativeInv'
  OBVIOUS
<1> DEFINE N == file.nodes
           n == Len(calls)
<1>1. pc = "return" /\ calls # <<>> /\ file' = file /\ states' = states /\ tallies' = tallies
  BY DEF Native!Take
<1>2. /\ file \in NativeFiles /\ Accepted /\ Progress
      /\ Net(N, Leads, Native!Size) /\ Native!Root \in DOMAIN N
      /\ Native!Ids = DOMAIN N /\ \A id \in DOMAIN N : Leads[id] = Native!Kids(id)
      /\ tallies \in [DOMAIN N -> Nat]
      /\ calls \in Seq(Frames(N)) /\ n \in Nat
  BY <1>1, WhileCounting
<1>3. n > 0 /\ n # 0 /\ n \in 1..n
  <2>1. n # 0
    BY <1>1, <1>2
  <2> QED BY <1>2, <2>1
<1>4. /\ Leads' = Leads /\ Native!Root' = Native!Root /\ (Accepted' <=> Accepted)
      /\ (Refusable' <=> Refusable)
  BY <1>1, SameFile, SameRefusal
<1>5. PICK c \in Frames(N) : c = Native!Top /\ c = calls[n]
  BY <1>2, <1>3, PopFacts DEF Native!Top
<1>6. c.node \in DOMAIN N /\ c.done \in Nat /\ c.total \in Nat /\ Native!TopNode = N[c.node]
  BY <1>5 DEF Frames, Native!TopNode, Native!Nodes
<1>7. PICK z \in Nat : z = Native!Size /\ z > 0
  BY MachineWords
<1>8. Waits(Leads, calls) /\ states[Wanted] = 2 /\ answer = tallies[Wanted] /\ Wanted \in DOMAIN N
  <2>1. Waits(Leads, calls) /\ states[Wanted] = 2 /\ answer = tallies[Wanted]
    BY <1>1 DEF NativeInv
  <2> QED BY <1>2, <2>1, AwaitedType DEF Wanted
<1>9. answer \in Nat
  BY <1>2, <1>8
<1>10. \/ N[c.node].type = "C"
       \/ N[c.node].type = "R" /\ Wide(N, c.node) \in 1..z /\ Wide(N, c.node) % z \in Nat
          /\ Native!WidthOf(N[c.node]) = Wide(N, c.node) % z
  <2>1. c.done < Len(Leads[c.node])
    BY <1>3, <1>5, <1>8 DEF Waits
  <2>2. Len(Leads[c.node]) # 0
    BY <1>6, <2>1
  <2>3. N[c.node].type = "C" \/ (N[c.node].type = "R" /\ Wide(N, c.node) \in 1..z)
    BY <1>2, <1>6, <1>7, <2>2 DEF Net
  <2>4. Native!WidthOf(N[c.node]) = Wide(N, c.node) % z
    BY <1>7 DEF Native!WidthOf, Native!Unsigned, Wide
  <2>5. \A w \in 1..z : w % z \in Nat
    BY <1>7
  <2> QED BY <2>3, <2>4, <2>5
<1>11. PICK t : t = IF N[c.node].type = "C" THEN Native!CheckedAdd(c.total, answer)
                    ELSE Native!CheckedMul(Native!WidthOf(N[c.node]), answer)
  OBVIOUS
<1>12. IF t = Native!Died THEN pc' = "died" /\ UNCHANGED calls
       ELSE /\ calls' = Append(Native!Front(calls), [c EXCEPT !.done = @ + 1, !.total = t])
            /\ pc' = "loop"
  BY <1>5, <1>6, <1>11 DEF Native!Take
<1>13. CASE t = Native!Died
  <2>1. pc' = "died"
    BY <1>12, <1>13
  <2>2. ASSUME ~ Refusable PROVE FALSE
    <3>1. /\ Native!Sound /\ Solves(N, Leads, DOMAIN N, Native!Exact)
          /\ \A id \in DOMAIN N : Native!Exact[id] \in 1..z - 1
      BY <1>2, <1>7, <2>2, AcceptedFacts DEF Refusable
    <3>2. Tree(N, Leads, Native!Root, z, states, tallies, calls) /\ Net(N, Leads, z)
      BY <1>2, <1>7 DEF Progress
    <3>3. states[Awaited(Leads, Native!Root, calls)] = 2
      BY <1>8 DEF Wanted
    <3>4. /\ N[c.node].type = "C" => c.total + tallies[Awaited(Leads, Native!Root, calls)] <= z - 1
          /\ N[c.node].type = "R" =>
               (Wide(N, c.node) % z) * tallies[Awaited(Leads, Native!Root, calls)] <= z - 1
      BY <1>2, <1>3, <1>5, <1>8, <3>1, <3>2, <3>3, StepFits
    <3>5. /\ N[c.node].type = "C" => c.total + answer <= z - 1
          /\ N[c.node].type = "R" => (Wide(N, c.node) % z) * answer <= z - 1
      BY <1>8, <3>4 DEF Wanted
    <3>6. t # Native!Died
      <4>1. CASE N[c.node].type = "C"
        <5>1. t = c.total + answer
          BY <1>6, <1>7, <1>9, <1>11, <3>5, <4>1, CheckedFacts
        <5> QED BY <1>6, <1>9, <5>1 DEF Native!Died
      <4>2. CASE N[c.node].type # "C"
        <5>1. PICK w \in Nat : w = Native!WidthOf(N[c.node]) /\ w * answer <= z - 1
          BY <1>10, <3>5, <4>2
        <5>2. t = w * answer
          BY <1>7, <1>9, <1>11, <4>2, <5>1, CheckedFacts
        <5>3. w * answer \in Nat
          BY <1>9
        <5> QED BY <5>2, <5>3 DEF Native!Died
      <4> QED BY <4>1, <4>2
    <3> QED BY <1>13, <3>6
  <2> QED BY <1>1, <1>2, <1>4, <2>1, <2>2 DEF NativeInv
<1>14. CASE t # Native!Died
  <2>1. /\ t \in Nat
        /\ N[c.node].type = "C" => t = c.total + answer
        /\ N[c.node].type = "R" => t = (Wide(N, c.node) % z) * answer
    <3>1. CASE N[c.node].type = "C"
      <4>1. t = c.total + answer
        BY <1>6, <1>9, <1>11, <1>14, <3>1, CheckedFacts
      <4> QED BY <1>6, <1>9, <3>1, <4>1
    <3>2. CASE N[c.node].type # "C"
      <4>1. PICK w \in Nat : w = Native!WidthOf(N[c.node]) /\ w = Wide(N, c.node) % z
        BY <1>10, <3>2
      <4>2. t = w * answer
        BY <1>9, <1>11, <1>14, <3>2, <4>1, CheckedFacts
      <4>3. w * answer \in Nat
        BY <1>9
      <4> QED BY <3>2, <4>1, <4>2, <4>3
    <3> QED BY <3>1, <3>2
  <2>2. PICK e : e = [node |-> c.node, done |-> c.done + 1, total |-> t]
    OBVIOUS
  <2>3. [c EXCEPT !.done = @ + 1, !.total = t] = e
    <3>1. PICK u \in Nat : u = c.done + 1
      BY <1>6
    <3>2. [c EXCEPT !.done = u, !.total = t] = [node |-> c.node, done |-> u, total |-> t]
      BY <1>5, <2>1, UpdatedCall DEF Frames
    <3> QED BY <2>2, <3>1, <3>2
  <2>4. e \in Frames(N)
    BY <1>6, <2>1, <2>2 DEF Frames
  <2>5. PICK f \in Seq(Frames(N)) :
          f = Native!Front(calls) /\ Len(f) = n - 1 /\ \A j \in 1..n - 1 : f[j] = calls[j]
    <3>1. calls \in Seq(Frames(N)) /\ Len(calls) > 0
      BY <1>2, <1>3
    <3>2. /\ Native!Front(calls) \in Seq(Frames(N)) /\ Len(Native!Front(calls)) = n - 1
          /\ \A j \in 1..n - 1 : Native!Front(calls)[j] = calls[j]
      BY ONLY <3>1, PopFacts
    <3> QED BY <3>2
  <2>6. calls' = Append(f, e) /\ pc' = "loop"
    BY <1>12, <1>14, <2>3, <2>5
  <2>7. calls' \in Seq(Frames(N)) /\ Len(calls') = n /\ calls'[n] = e /\ \A j \in 1..n - 1 : calls'[j] = calls[j]
    <3>1. PICK m \in Nat : m = Len(f) /\ n = m + 1
      BY <1>2, <1>3, <2>5
    <3>2. Append(f, e) \in Seq(Frames(N)) /\ Len(Append(f, e)) = m + 1 /\ Append(f, e)[m + 1] = e
          /\ \A j \in 1..m : Append(f, e)[j] = f[j]
      BY <2>4, <3>1
    <3> QED BY <2>5, <2>6, <3>1, <3>2
  <2>8. PICK d \in Seq(Frames(N)) : d = calls'
    BY <2>7
  <2>9. PICK y : y = Awaited(Leads, Native!Root, calls) /\ states[y] = 2 /\ answer = tallies[y]
    BY <1>8 DEF Wanted
  <2>10. Tree(N, Leads, Native!Root, z, states, tallies, calls) /\ Net(N, Leads, z)
    BY <1>2, <1>7 DEF Progress
  <2>11. /\ N[c.node].type = "C" => t = c.total + tallies[y]
         /\ N[c.node].type = "R" => t = (Wide(N, c.node) % z) * tallies[y]
    BY <2>1, <2>9
  <2>12. Tree(N, Leads, Native!Root, z, states, tallies, d)
    <3>1. /\ N[c.node].type = "C" => t = c.total + tallies[Awaited(Leads, Native!Root, calls)]
          /\ N[c.node].type = "R" => t = (Wide(N, c.node) % z) * tallies[Awaited(Leads, Native!Root, calls)]
          /\ states[Awaited(Leads, Native!Root, calls)] = 2
      BY <2>9, <2>11
    <3>2. /\ d \in Seq(Frames(N)) /\ Len(d) = Len(calls) /\ \A j \in 1..Len(calls) - 1 : d[j] = calls[j]
          /\ d[Len(calls)] = [node |-> c.node, done |-> c.done + 1, total |-> t]
      BY <2>2, <2>7, <2>8
    <3>3. Native!Root \in DOMAIN N /\ Waits(Leads, calls) /\ Len(calls) > 0 /\ c = calls[Len(calls)] /\ t \in Nat
      BY <1>2, <1>3, <1>5, <1>8, <2>1
    <3> HIDE DEF N, n
    <3> QED BY <2>10, <3>1, <3>2, <3>3, TakeTree
  <2>13. Progress' /\ Len(calls') > 0
    BY <1>1, <1>3, <1>4, <1>7, <2>7, <2>8, <2>12 DEF Progress
  <2> QED BY <1>1, <1>2, <1>4, <2>6, <2>13 DEF NativeInv
<1> QED BY <1>13, <1>14

\* The end of a call keeps the invariant: a total of zero is that of a range of as
\* many integers as there are words (compute_count, 203-217).
LEMMA CloseStep == NativeAssumption /\ NativeInv /\ Native!Close => NativeInv'
<1> SUFFICES ASSUME NativeAssumption, NativeInv, Native!Close PROVE NativeInv'
  OBVIOUS
<1> DEFINE N == file.nodes
           n == Len(calls)
<1>1. pc = "loop" /\ file' = file
  BY DEF Native!Close
<1>2. /\ file \in NativeFiles /\ Accepted /\ Progress
      /\ Net(N, Leads, Native!Size) /\ Native!Root \in DOMAIN N
      /\ Native!Ids = DOMAIN N /\ \A id \in DOMAIN N : Leads[id] = Native!Kids(id)
      /\ states \in [DOMAIN N -> 0..2] /\ tallies \in [DOMAIN N -> Nat]
      /\ calls \in Seq(Frames(N)) /\ n \in Nat
  BY <1>1, WhileCounting
<1>3. n > 0 /\ n # 0
  <2>1. n > 0
    BY <1>1 DEF NativeInv
  <2> QED BY <1>2, <2>1
<1>4. /\ Leads' = Leads /\ Native!Root' = Native!Root /\ (Accepted' <=> Accepted)
      /\ (Refusable' <=> Refusable)
  BY <1>1, SameFile, SameRefusal
<1>5. PICK c \in Frames(N) : c = Native!Top /\ c = calls[n]
  BY <1>2, <1>3, PopFacts DEF Native!Top
<1>6. PICK x \in DOMAIN N : x = c.node
  BY <1>5 DEF Frames
<1>7. c.done = Len(Leads[x]) /\ Native!TopNode = N[x]
  BY <1>1, <1>2, <1>5, <1>6 DEF Native!Close, Native!TopNode, Native!Nodes
<1>8. PICK z \in Nat : z = Native!Size /\ z > 0
  BY MachineWords
<1>9. PICK t : t = IF N[x].type = "T" THEN 1 ELSE c.total
  OBVIOUS
<1>10. Tree(N, Leads, Native!Root, z, states, tallies, calls) /\ Net(N, Leads, z)
  BY <1>2, <1>8 DEF Progress
<1>11. /\ t \in Nat /\ (t # 0 => t = Made(N, Leads, tallies, x))
       /\ t = 0 => \A e : Solves(N, Leads, DOMAIN N, e) => \E id \in DOMAIN N : e[id] \notin 1..z - 1
  <2>1. c = calls[Len(calls)] /\ c.done = Len(Leads[c.node]) /\ t = IF N[c.node].type = "T" THEN 1 ELSE c.total
    BY <1>5, <1>6, <1>7, <1>9
  <2>2. /\ t \in Nat /\ (t # 0 => t = Made(N, Leads, tallies, c.node))
        /\ t = 0 => \A e : Solves(N, Leads, DOMAIN N, e) => \E id \in DOMAIN N : e[id] \notin 1..z - 1
    <3> HIDE DEF N
    <3> QED BY <1>2, <1>3, <1>10, <2>1, EndFits
  <2> QED BY <1>6, <2>2
<1>12. IF t = 0 THEN pc' = "died" /\ UNCHANGED <<states, tallies, answer, calls>>
       ELSE /\ states' = [states EXCEPT ![x] = 2] /\ tallies' = [tallies EXCEPT ![x] = t]
            /\ answer' = t /\ calls' = Native!Front(calls) /\ pc' = "return"
  BY <1>5, <1>6, <1>7, <1>9 DEF Native!Close
<1>13. CASE t = 0
  <2>1. pc' = "died"
    BY <1>12, <1>13
  <2>2. ASSUME ~ Refusable PROVE FALSE
    <3>1. /\ Native!Sound /\ Solves(N, Leads, DOMAIN N, Native!Exact)
          /\ \A id \in DOMAIN N : Native!Exact[id] \in 1..z - 1
      BY <1>2, <1>8, <2>2, AcceptedFacts DEF Refusable
    <3> QED BY <1>11, <1>13, <3>1
  <2> QED BY <1>1, <1>2, <1>4, <2>1, <2>2 DEF NativeInv
<1>14. CASE t # 0
  <2>1. PICK d \in Seq(Frames(N)) :
          d = Native!Front(calls) /\ Len(d) = n - 1 /\ \A j \in 1..n - 1 : d[j] = calls[j]
    <3>1. calls \in Seq(Frames(N)) /\ Len(calls) > 0
      BY <1>2, <1>3
    <3>2. /\ Native!Front(calls) \in Seq(Frames(N)) /\ Len(Native!Front(calls)) = n - 1
          /\ \A j \in 1..n - 1 : Native!Front(calls)[j] = calls[j]
      BY ONLY <3>1, PopFacts
    <3> QED BY <3>2
  <2>2. /\ x = calls[Len(calls)].node /\ calls[Len(calls)].done = Len(Leads[x])
        /\ t > 0 /\ t = Made(N, Leads, tallies, x)
    BY <1>5, <1>6, <1>7, <1>11, <1>14
  <2>3. /\ Tree(N, Leads, Native!Root, z, [states EXCEPT ![x] = 2], [tallies EXCEPT ![x] = t], d)
        /\ Waits(Leads, d) /\ Awaited(Leads, Native!Root, d) = x
    <3>1. Len(d) = Len(calls) - 1 /\ (\A j \in 1..Len(calls) - 1 : d[j] = calls[j]) /\ Len(calls) > 0 /\ t \in Nat
      BY <1>3, <1>11, <2>1
    <3>2. Native!Root \in DOMAIN N /\ z \in Nat /\ d \in Seq(Frames(N))
      BY <1>2, <1>8, <2>1
    <3> HIDE DEF N, n
    <3> QED BY ONLY <1>10, <2>2, <3>1, <3>2, CloseTree
  <2>4. /\ states' = [states EXCEPT ![x] = 2] /\ tallies' = [tallies EXCEPT ![x] = t]
        /\ answer' = t /\ calls' = d /\ pc' = "return"
    BY <1>12, <1>14, <2>1
  <2>5. Progress' /\ Waits(Leads, calls)' /\ Wanted' = x
    BY <1>1, <1>4, <1>8, <2>3, <2>4 DEF Progress, Wanted
  <2>6. states'[x] = 2 /\ answer' = tallies'[x]
    BY <1>2, <2>4
  <2> QED BY <1>1, <1>2, <1>4, <2>4, <2>5, <2>6 DEF NativeInv
<1> QED BY <1>13, <1>14

\* The end of the recursion keeps the invariant: a node that has not been counted is
\* not reached from the root (load_schema, 299-302).
LEMMA LoadedStep == NativeAssumption /\ NativeInv /\ Native!Loaded => NativeInv'
<1> SUFFICES ASSUME NativeAssumption, NativeInv, Native!Loaded PROVE NativeInv'
  OBVIOUS
<1> DEFINE N == file.nodes
<1>1. pc = "return" /\ calls = <<>> /\ file' = file /\ states' = states /\ tallies' = tallies
  BY DEF Native!Loaded
<1>2. /\ file \in NativeFiles /\ Accepted /\ Progress
      /\ Net(N, Leads, Native!Size) /\ Native!Root \in DOMAIN N
      /\ Native!Ids = DOMAIN N
  BY <1>1, WhileCounting
<1>3. states[Native!Root] = 2
  <2>1. Len(calls) = 0
    BY <1>1
  <2>2. Wanted = Native!Root
    BY <2>1 DEF Wanted, Awaited
  <2> QED BY <1>1, <2>2 DEF NativeInv
<1>4. (Native!Sound' <=> Native!Sound) /\ Native!Ids' = Native!Ids /\ Native!Exact' = Native!Exact
      /\ (Refusable' <=> Refusable)
  BY <1>1, SameFile, SameRefusal
<1>5. IF \E id \in DOMAIN N : states[id] # 2
      THEN ~ \A S \in SUBSET DOMAIN N : Native!Root \in S /\ Shut(Leads, S) => S = DOMAIN N
      ELSE /\ Ending(Leads, DOMAIN N) /\ Solves(N, Leads, DOMAIN N, tallies)
           /\ \A S \in SUBSET DOMAIN N : Native!Root \in S /\ Shut(Leads, S) => S = DOMAIN N
           /\ \A e : Solves(N, Leads, DOMAIN N, e) => \A id \in DOMAIN N : tallies[id] = e[id]
  <2>1. Tree(N, Leads, Native!Root, Native!Size, states, tallies, calls)
    BY <1>2 DEF Progress
  <2> HIDE DEF N
  <2> QED BY <1>2, <1>3, <2>1, CountedAll
<1>6. /\ Native!Sound <=>
           /\ Ending(Leads, DOMAIN N)
           /\ \A S \in SUBSET DOMAIN N : Native!Root \in S /\ Shut(Leads, S) => S = DOMAIN N
      /\ Native!Sound => Solves(N, Leads, DOMAIN N, Native!Exact)
      /\ ~ Native!TooLong /\ (Native!TooLong' <=> Native!TooLong)
  BY <1>1, <1>2, AcceptedFacts, SameFile
<1>7. CASE \E id \in DOMAIN N : states[id] # 2
  <2>1. pc' = "died"
    BY <1>2, <1>7 DEF Native!Loaded
  <2>2. Refusable
    BY <1>5, <1>6, <1>7 DEF Refusable
  <2> QED BY <1>1, <1>2, <1>4, <2>1, <2>2 DEF NativeInv
<1>8. CASE ~ \E id \in DOMAIN N : states[id] # 2
  <2>1. pc' = "ready"
    BY <1>2, <1>8 DEF Native!Loaded
  <2>2. Native!Sound
    BY <1>5, <1>6, <1>8
  <2>3. \A id \in DOMAIN N : tallies[id] = Native!Exact[id]
    BY <1>5, <1>6, <1>8, <2>2
  <2> QED BY <1>1, <1>2, <1>4, <1>6, <2>1, <2>2, <2>3 DEF NativeInv
<1> QED BY <1>7, <1>8

\* A step that leaves the engine alone keeps the invariant.
LEMMA NativeStutter == NativeInv /\ UNCHANGED Native!loading => NativeInv'
<1> SUFFICES ASSUME NativeInv, UNCHANGED Native!loading PROVE NativeInv'
  OBVIOUS
<1>1. /\ file' = file /\ pc' = pc /\ states' = states /\ tallies' = tallies /\ calls' = calls
      /\ arg' = arg /\ answer' = answer
  BY DEF Native!loading
<1>2. /\ Leads' = Leads /\ Native!Root' = Native!Root /\ (Accepted' <=> Accepted)
      /\ (Native!Sound' <=> Native!Sound) /\ Native!Exact' = Native!Exact /\ Native!Ids' = Native!Ids
      /\ (Refusable' <=> Refusable) /\ (Native!TooLong' <=> Native!TooLong)
  BY <1>1, SameFile, SameRefusal
<1>3. (Progress' <=> Progress) /\ Wanted' = Wanted /\ (Waits(Leads, calls)' <=> Waits(Leads, calls))
  BY <1>1, <1>2 DEF Progress, Wanted
<1> QED BY <1>1, <1>2, <1>3 DEF NativeInv

\* For every file, every width of the machine words and every limit of the depth and of
\* the parts of a line, the engine never answers with a count that has been cut to a
\* machine word, and refuses a file for a reason only: it is not a sound graph, a line
\* of it has more parts than are split, it is too deep, or a count is no machine word
\* (CountsNeverWrap; pdrs_native.c, 89-100, 185-303).
THEOREM NativeCountsAreExact ==
  ASSUME NativeAssumption
  PROVE  Native!SpecCount => []Native!CountsNeverWrap
<1>1. Native!InitCount => NativeInv
  BY NativeInit
<1>2. NativeInv /\ [Native!NextCount]_Native!loading => NativeInv'
  BY LoadStep, CallStep, DescendStep, TakeStep, CloseStep, LoadedStep, NativeStutter DEF Native!NextCount
<1>3. NativeInv => Native!CountsNeverWrap
  BY NativeInvSafe
<1> QED BY <1>1, <1>2, <1>3, PTL DEF Native!SpecCount
-----------------------------------------------------------------------------
(***************************************************************************)
(* The field check of the second paper's engine.  It walks the graph with  *)
(* the set of fields recorded so far, and passes over a node only if it    *)
(* was there with the same set.                                            *)
(***************************************************************************)
CONSTANT NormalForms
VARIABLES written, typed, waiting, seen

Search == INSTANCE FieldCheck WITH
  Nfc <- NormalForms, doc <- written, nodes <- typed, pending <- waiting, visited <- seen

\* Nodes N with their links, and root r of them.
Graph(N, r) == r \in DOMAIN N /\ \A n \in DOMAIN N : Search!Targets(N[n]) \in Seq(DOMAIN N)
Heads(N, n) == Search!ToSet(Search!Targets(N[n]))
\* A path p of k nodes from r, the fields before its last node, and that node with them.
Walk(N, r, p, k) == p[1] = r /\ \A i \in 1..k - 1 : p[i + 1] \in Heads(N, p[i])
Behind(N, p, k) == {N[p[i]].field : i \in 1..k - 1}
At(N, p, k) == [name |-> p[k], used |-> Behind(N, p, k)]
\* What is looked at is the end of a path, with the fields before it.
Reached(N, r, s) == \E k \in Nat \ {0} : \E p \in [1..k -> DOMAIN N] : Walk(N, r, p, k) /\ s = At(N, p, k)
\* One field is recorded twice on the path.
Double(N, p, k) ==
  \E i, j \in 1..k :
    i < j /\ N[p[i]].field = N[p[j]].field /\ N[p[i]].type # "terminal" /\ N[p[j]].type # "terminal"
Doubled(N, r, k) == \E p \in [1..k -> DOMAIN N] : Walk(N, r, p, k) /\ Double(N, p, k)
\* What has been looked at repeats no field, and where it leads is in D or W.
Handled(N, D, W) ==
  \A s \in D : N[s.name].type # "terminal" =>
    /\ N[s.name].field \notin s.used
    /\ \A t \in Heads(N, s.name) : [name |-> t, used |-> s.used \cup {N[s.name].field}] \in D \cup W

\* What leads somewhere is no terminal.
LEMMA EndsLeadNowhere ==
  ASSUME NEW N, NEW n, NEW t \in Heads(N, n)
  PROVE  N[n].type # "terminal"
<1>1. SUFFICES ASSUME N[n].type = "terminal" PROVE FALSE
  OBVIOUS
<1>2. Search!Targets(N[n]) = <<>>
  BY <1>1 DEF Search!Targets
<1>3. PICK i \in DOMAIN Search!Targets(N[n]) : t = Search!Targets(N[n])[i]
  BY DEF Heads, Search!ToSet
<1> QED BY <1>2, <1>3

\* A node behind what is the end of a path is one, with one more field before it
\* (_validate_path_fields, 202-203).
LEMMA OneOnward ==
  ASSUME NEW N, NEW r, Graph(N, r), NEW s, Reached(N, r, s), NEW t \in Heads(N, s.name)
  PROVE  Reached(N, r, [name |-> t, used |-> s.used \cup {N[s.name].field}])
<1>0. PICK k \in Nat \ {0} : \E p \in [1..k -> DOMAIN N] : Walk(N, r, p, k) /\ s = At(N, p, k)
  BY DEF Reached
<1>1. PICK p \in [1..k -> DOMAIN N] : Walk(N, r, p, k) /\ s = At(N, p, k)
  BY <1>0
<1>2. s.name = p[k] /\ s.used = Behind(N, p, k) /\ p[k] \in DOMAIN N
  BY <1>1 DEF At
<1>3. t \in DOMAIN N
  <2>1. Search!Targets(N[p[k]]) \in Seq(DOMAIN N)
    BY <1>2 DEF Graph
  <2> QED BY <1>2, <2>1 DEF Heads, Search!ToSet
<1> DEFINE q == [i \in 1..k + 1 |-> IF i = k + 1 THEN t ELSE p[i]]
<1>4. q \in [1..k + 1 -> DOMAIN N] /\ q[k + 1] = t /\ \A i \in 1..k : q[i] = p[i]
  BY <1>3
<1> HIDE DEF q
<1>5. Walk(N, r, q, k + 1)
  <2>1. q[1] = r
    BY <1>1, <1>4 DEF Walk
  <2>2. ASSUME NEW i \in 1..(k + 1) - 1 PROVE q[i + 1] \in Heads(N, q[i])
    <3>1. CASE i = k
      BY <1>2, <1>4, <3>1
    <3>2. CASE i # k
      <4>1. i \in 1..k - 1 /\ i \in 1..k /\ i + 1 \in 1..k
        BY <3>2
      <4> QED BY <1>1, <1>4, <4>1 DEF Walk
    <3> QED BY <3>1, <3>2
  <2> QED BY <2>1, <2>2 DEF Walk
<1>6. Behind(N, q, k + 1) = s.used \cup {N[s.name].field}
  <2>1. (k + 1) - 1 = k /\ \A i \in 1..k : i \in 1..k - 1 \/ i = k
    OBVIOUS
  <2>2. k \in 1..k /\ 1..k - 1 \subseteq 1..k
    OBVIOUS
  <2> QED BY <1>2, <1>4, <2>1, <2>2 DEF Behind
<1>7. [name |-> t, used |-> s.used \cup {N[s.name].field}] = At(N, q, k + 1)
  BY <1>4, <1>6 DEF At
<1>8. k + 1 \in Nat \ {0}
  OBVIOUS
<1> QED BY <1>4, <1>5, <1>7, <1>8 DEF Reached

\* A field that is among those before it is on a path twice (200-201).
LEMMA RepeatFound ==
  ASSUME NEW N, NEW r, Graph(N, r), NEW s, Reached(N, r, s),
         N[s.name].type # "terminal", N[s.name].field \in s.used
  PROVE  \E k \in Nat : Doubled(N, r, k)
<1>0. PICK k \in Nat \ {0} : \E p \in [1..k -> DOMAIN N] : Walk(N, r, p, k) /\ s = At(N, p, k)
  BY DEF Reached
<1>1. PICK p \in [1..k -> DOMAIN N] : Walk(N, r, p, k) /\ s = At(N, p, k)
  BY <1>0
<1>2. s.name = p[k] /\ s.used = Behind(N, p, k)
  BY <1>1 DEF At
<1>3. PICK i \in 1..k - 1 : N[p[i]].field = N[p[k]].field
  BY <1>2 DEF Behind
<1>4. p[i + 1] \in Heads(N, p[i])
  BY <1>1 DEF Walk
<1>5. N[p[i]].type # "terminal"
  BY <1>4, EndsLeadNowhere
<1>6. i \in 1..k /\ k \in 1..k /\ i < k
  OBVIOUS
<1>7. Double(N, p, k)
  BY <1>2, <1>3, <1>5, <1>6 DEF Double
<1> QED BY <1>1, <1>7 DEF Doubled

\* When all that was looked at leads to what was looked at, every node of every path
\* was looked at with the fields before it, so no path has a field twice.
LEMMA NothingDoubled ==
  ASSUME NEW N, NEW r, Graph(N, r), NEW D, Handled(N, D, {}), [name |-> r, used |-> {}] \in D, NEW k \in Nat
  PROVE  ~ Doubled(N, r, k)
<1>1. SUFFICES ASSUME NEW p \in [1..k -> DOMAIN N], Walk(N, r, p, k), Double(N, p, k) PROVE FALSE
  BY DEF Doubled
<1>2. PICK i \in 1..k, j \in 1..k :
        i < j /\ N[p[i]].field = N[p[j]].field /\ N[p[i]].type # "terminal" /\ N[p[j]].type # "terminal"
  BY <1>1 DEF Double
<1> DEFINE S == {m \in 0..k - 1 : At(N, p, m + 1) \in D}
<1>3. 0 \in S
  <2>1. Behind(N, p, 1) = {} /\ 0 + 1 = 1 /\ 0 \in 0..k - 1
    BY <1>2 DEF Behind
  <2>2. At(N, p, 1) = [name |-> r, used |-> {}]
    BY <1>1, <2>1 DEF At, Walk
  <2> QED BY <2>1, <2>2
<1>4. ASSUME NEW m \in 0..(k - 1) - 1, m \in S PROVE m + 1 \in S
  <2>1. PICK n \in 1..k - 1 : n = m + 1
    OBVIOUS
  <2>2. PICK s : s = At(N, p, n) /\ s \in D /\ s.name = p[n] /\ s.used = Behind(N, p, n)
    BY <1>4, <2>1 DEF At
  <2>3. p[n + 1] \in Heads(N, p[n])
    BY <1>1 DEF Walk
  <2>4. N[p[n]].type # "terminal"
    BY <2>3, EndsLeadNowhere
  <2>5. [name |-> p[n + 1], used |-> s.used \cup {N[p[n]].field}] \in D
    BY <2>2, <2>3, <2>4 DEF Handled
  <2>6. Behind(N, p, n + 1) = s.used \cup {N[p[n]].field}
    <3>1. (n + 1) - 1 = n /\ (\A x \in 1..n : x \in 1..n - 1 \/ x = n) /\ n \in 1..n /\ 1..n - 1 \subseteq 1..n
      OBVIOUS
    <3> QED BY <2>2, <3>1 DEF Behind
  <2>7. At(N, p, n + 1) \in D
    BY <2>5, <2>6 DEF At
  <2> QED BY <2>1, <2>7
<1> HIDE DEF S
<1>5. \A m \in 0..k - 1 : m \in S
  <2>1. k - 1 \in Nat
    BY <1>2
  <2> QED BY <1>3, <1>4, <2>1, Upwards
<1>6. At(N, p, j) \in D
  <2>1. j - 1 \in 0..k - 1 /\ (j - 1) + 1 = j
    OBVIOUS
  <2> QED BY <1>5, <2>1 DEF S
<1>7. PICK s \in D : s = At(N, p, j) /\ s.name = p[j] /\ s.used = Behind(N, p, j)
  BY <1>6 DEF At
<1>8. N[p[j]].field \notin Behind(N, p, j)
  BY <1>2, <1>7 DEF Handled
<1>9. i \in 1..j - 1
  BY <1>2
<1> QED BY <1>2, <1>8, <1>9 DEF Behind
\* A node with fields before it, and the one the pass begins with.
States(N) == [name : DOMAIN N, used : SUBSET {N[n].field : n \in DOMAIN N}]
Start(r) == [name |-> r, used |-> {}]

\* The invariant of the pass over the nodes N from r: where it is, what waits (W) and
\* what was seen (D).  Nothing is there but ends of paths, and unless the pass has
\* refused, what is behind something seen was seen or waits.
FieldsInv(N, r, W, D, where, why) ==
  /\ Graph(N, r)
  /\ where \in {"fields", "compile", "refused"}
  /\ W \in Seq(States(N)) /\ D \subseteq States(N)
  /\ \A s \in D \cup Search!ToSet(W) : Reached(N, r, s)
  /\ where # "refused" =>
       /\ why = "none"
       /\ Handled(N, D, Search!ToSet(W))
       /\ Start(r) \in D \cup Search!ToSet(W)
  /\ where = "compile" => W = <<>>
  /\ where = "refused" => why = "field" /\ \E k \in Nat : Doubled(N, r, k)
FieldsSafe == FieldsInv(typed, Search!Root, waiting, seen, pc, verdict)

\* A sequence that is not empty is its front and its last element.
LEMMA SplitLast ==
  ASSUME NEW S, NEW w \in Seq(S), w # <<>>
  PROVE  /\ Search!Last(w) \in S /\ Search!Front(w) \in Seq(S)
         /\ Search!ToSet(w) = Search!ToSet(Search!Front(w)) \cup {Search!Last(w)}
<1>1. PICK n \in Nat : n = Len(w) /\ n # 0
  <2>1. Len(w) \in Nat /\ Len(w) # 0
    OBVIOUS
  <2> QED BY <2>1
<1>2. n \in 1..n /\ n - 1 \in Nat /\ \A i \in 1..n : i \in 1..n - 1 \/ i = n
  BY <1>1
<1>3. PICK f : f = Search!Front(w)
  OBVIOUS
<1>4. f \in Seq(S) /\ Len(f) = n - 1 /\ \A i \in 1..n - 1 : f[i] = w[i]
  BY <1>1, <1>2, <1>3 DEF Search!Front
<1>5. PICK l : l = Search!Last(w) /\ l = w[n] /\ l \in S
  BY <1>1, <1>2 DEF Search!Last
<1>6. DOMAIN f = 1..n - 1 /\ DOMAIN w = 1..n /\ 1..n - 1 \subseteq 1..n
  BY <1>1, <1>4
<1>7. Search!ToSet(w) = Search!ToSet(f) \cup {l}
  BY <1>2, <1>4, <1>5, <1>6 DEF Search!ToSet
<1> QED BY <1>3, <1>4, <1>5, <1>7

\* What two sequences have in them, one after the other.
LEMMA JoinedSet ==
  ASSUME NEW S, NEW a \in Seq(S), NEW b \in Seq(S)
  PROVE  a \o b \in Seq(S) /\ Search!ToSet(a \o b) = Search!ToSet(a) \cup Search!ToSet(b)
<1>1. PICK m \in Nat, n \in Nat : m = Len(a) /\ n = Len(b)
  BY LenProperties
<1>2. PICK c : c = a \o b /\ c \in Seq(S)
  <2>1. a \o b \in Seq(S)
    BY ConcatProperties
  <2> QED BY <2>1
<1>3. Len(c) = m + n /\ (\A i \in 1..m : c[i] = a[i]) /\ \A i \in 1..n : c[m + i] = b[i]
  BY <1>1, <1>2
<1>4. DOMAIN c = 1..m + n /\ DOMAIN a = 1..m /\ DOMAIN b = 1..n
  BY <1>1, <1>3
<1>5. \A i \in 1..m + n : i \in 1..m \/ \E j \in 1..n : i = m + j
  <2>1. TAKE i \in 1..m + n
  <2>2. i \in 1..m \/ (i - m \in 1..n /\ i = m + (i - m))
    OBVIOUS
  <2> QED BY <2>2
<1>6. \A i \in 1..m : i \in 1..m + n
  OBVIOUS
<1>7. \A i \in 1..n : m + i \in 1..m + n
  OBVIOUS
<1>8. Search!ToSet(c) \subseteq Search!ToSet(a) \cup Search!ToSet(b)
  BY <1>3, <1>4, <1>5 DEF Search!ToSet
<1>9. Search!ToSet(a) \subseteq Search!ToSet(c)
  BY <1>3, <1>4, <1>6 DEF Search!ToSet
<1>10. Search!ToSet(b) \subseteq Search!ToSet(c)
  BY <1>3, <1>4, <1>7 DEF Search!ToSet
<1> QED BY <1>2, <1>8, <1>9, <1>10

\* The invariant holds where the pass begins (189-190).
LEMMA FieldsInit ==
  ASSUME Search!InitFields
  PROVE  FieldsSafe
<1>1. PICK N, r : N = typed /\ r = Search!Root
  OBVIOUS
<1>2. Graph(N, r) /\ pc = "fields" /\ verdict = "none" /\ waiting = <<Start(r)>> /\ seen = {}
  BY <1>1 DEF Search!InitFields, Search!Linked, Graph, Start
<1>3. Start(r) \in States(N)
  BY <1>2 DEF Start, States, Graph
<1>4. waiting \in Seq(States(N)) /\ Search!ToSet(waiting) = {Start(r)}
  BY <1>2, <1>3 DEF Search!ToSet
<1>5. Reached(N, r, Start(r))
  <2>1. PICK p : p = [i \in 1..1 |-> r]
    OBVIOUS
  <2>2. p \in [1..1 -> DOMAIN N] /\ p[1] = r
    BY <1>2, <2>1 DEF Graph
  <2>3. 1..1 - 1 = {} /\ 1 \in Nat \ {0}
    OBVIOUS
  <2>4. Walk(N, r, p, 1)
    BY <2>2, <2>3 DEF Walk
  <2>5. Start(r) = At(N, p, 1)
    BY <2>2, <2>3 DEF Start, At, Behind
  <2> QED BY <2>2, <2>3, <2>4, <2>5 DEF Reached
<1>6. Handled(N, {}, Search!ToSet(waiting))
  BY DEF Handled
<1> QED BY <1>1, <1>2, <1>4, <1>5, <1>6 DEF FieldsSafe, FieldsInv

\* The root and the links change with the document only.
LEMMA SameGraph ==
  ASSUME UNCHANGED <<written, typed>>
  PROVE  typed' = typed /\ Search!Root' = Search!Root
BY DEF Search!Root

\* Looking at one node keeps the invariant: what is passed over was looked at after
\* the same fields, what is refused repeats a field, and all that is behind the others
\* waits (191-203).
LEMMA LooksAtOne ==
  ASSUME FieldsSafe, Search!VisitField
  PROVE  FieldsSafe'
<1>1. PICK N, r, W, D : N = typed /\ r = Search!Root /\ W = waiting /\ D = seen
  OBVIOUS
<1>2. N = typed' /\ r = Search!Root'
  <2>1. UNCHANGED <<written, typed>>
    BY DEF Search!VisitField
  <2> QED BY <1>1, <2>1, SameGraph
<1>3. pc = "fields" /\ W # <<>>
  BY <1>1 DEF Search!VisitField
<1>4. /\ Graph(N, r) /\ W \in Seq(States(N)) /\ D \subseteq States(N) /\ verdict = "none"
      /\ \A s \in D \cup Search!ToSet(W) : Reached(N, r, s)
      /\ Handled(N, D, Search!ToSet(W)) /\ Start(r) \in D \cup Search!ToSet(W)
  BY <1>1, <1>3 DEF FieldsSafe, FieldsInv
<1>5. PICK s \in States(N), F \in Seq(States(N)) :
        /\ s = Search!Last(W) /\ F = Search!Front(W)
        /\ Search!ToSet(W) = Search!ToSet(F) \cup {s}
  BY <1>3, <1>4, SplitLast
<1>6. s.name \in DOMAIN N /\ s = [name |-> s.name, used |-> s.used] /\ s.used \subseteq {N[n].field : n \in DOMAIN N}
  BY DEF States
<1>7. Reached(N, r, s)
  BY <1>4, <1>5
<1>8. F \o <<>> = F
  OBVIOUS
<1>9. CASE s \in D
  <2>1. pc' = "fields" /\ verdict' = "none" /\ waiting' = F /\ seen' = D
    BY <1>1, <1>4, <1>5, <1>8, <1>9 DEF Search!VisitField, Search!Go
  <2>2. D \cup Search!ToSet(F) = D \cup Search!ToSet(W)
    BY <1>5, <1>9
  <2>3. Handled(N, D, Search!ToSet(F))
    BY ONLY <1>4, <2>2 DEF Handled
  <2> QED BY <1>2, <1>4, <1>5, <2>1, <2>2, <2>3 DEF FieldsSafe, FieldsInv
<1>10. CASE s \notin D /\ N[s.name].type = "terminal"
  <2>1. pc' = "fields" /\ verdict' = "none" /\ waiting' = F /\ seen' = D \cup {s}
    BY <1>1, <1>4, <1>5, <1>8, <1>10 DEF Search!VisitField, Search!Go
  <2>2. (D \cup {s}) \cup Search!ToSet(F) = D \cup Search!ToSet(W)
    BY <1>5
  <2>3. Handled(N, D \cup {s}, Search!ToSet(F))
    BY ONLY <1>4, <1>10, <2>2 DEF Handled
  <2> QED BY <1>2, <1>4, <1>5, <2>1, <2>2, <2>3 DEF FieldsSafe, FieldsInv
<1>11. CASE s \notin D /\ N[s.name].type # "terminal" /\ N[s.name].field \in s.used
  <2>1. pc' = "refused" /\ verdict' = "field" /\ waiting' = F /\ seen' = D \cup {s}
    BY <1>1, <1>4, <1>5, <1>8, <1>11 DEF Search!VisitField, Search!Refuse
  <2>2. (D \cup {s}) \cup Search!ToSet(F) = D \cup Search!ToSet(W)
    BY <1>5
  <2>3. \E k \in Nat : Doubled(N, r, k)
    BY <1>4, <1>7, <1>11, RepeatFound
  <2> QED BY <1>2, <1>4, <1>5, <2>1, <2>2, <2>3 DEF FieldsSafe, FieldsInv
<1>12. CASE s \notin D /\ N[s.name].type # "terminal" /\ N[s.name].field \notin s.used
  <2>1. PICK M : M = [i \in DOMAIN Search!Targets(N[s.name]) |->
                       [name |-> Search!Targets(N[s.name])[i], used |-> s.used \cup {N[s.name].field}]]
    OBVIOUS
  <2>2. pc' = "fields" /\ verdict' = "none" /\ waiting' = F \o M /\ seen' = D \cup {s}
    BY <1>1, <1>4, <1>5, <1>12, <2>1 DEF Search!VisitField, Search!Go
  <2>3. Search!Targets(N[s.name]) \in Seq(DOMAIN N)
    BY <1>4, <1>6 DEF Graph
  <2>4. M \in Seq(States(N))
    <3>1. PICK T \in Seq(DOMAIN N) : T = Search!Targets(N[s.name])
      BY <2>3
    <3>2. PICK n \in Nat : n = Len(T) /\ DOMAIN T = 1..n
      OBVIOUS
    <3>3. PICK u : u = s.used \cup {N[s.name].field} /\ u \subseteq {N[x].field : x \in DOMAIN N}
      BY <1>6
    <3>4. M = [i \in 1..n |-> [name |-> T[i], used |-> u]]
      BY <2>1, <3>1, <3>2, <3>3
    <3>5. \A i \in 1..n : T[i] \in DOMAIN N
      BY <3>2
    <3>6. \A i \in 1..n : [name |-> T[i], used |-> u] \in States(N)
      BY <3>3, <3>5 DEF States
    <3> QED BY <3>4, <3>6
  <2>5. Search!ToSet(M) = {[name |-> t, used |-> s.used \cup {N[s.name].field}] : t \in Heads(N, s.name)}
    BY <2>1 DEF Search!ToSet, Heads
  <2>6. F \o M \in Seq(States(N)) /\ Search!ToSet(F \o M) = Search!ToSet(F) \cup Search!ToSet(M)
    BY <2>4, JoinedSet
  <2>7. (D \cup {s}) \cup Search!ToSet(F \o M) = (D \cup Search!ToSet(W)) \cup Search!ToSet(M)
    BY <1>5, <2>6
  <2>8. \A x \in Search!ToSet(M) : Reached(N, r, x)
    BY <1>4, <1>7, <2>5, OneOnward
  <2>9. Handled(N, D \cup {s}, Search!ToSet(F \o M))
    <3>1. \A x \in D \cup Search!ToSet(W) : x \in (D \cup {s}) \cup Search!ToSet(F \o M)
      BY <2>7
    <3>2. \A x \in Search!ToSet(M) : x \in (D \cup {s}) \cup Search!ToSet(F \o M)
      BY <2>7
    <3>3. ASSUME NEW x \in D \cup {s}, N[x.name].type # "terminal"
          PROVE  /\ N[x.name].field \notin x.used
                 /\ \A t \in Heads(N, x.name) :
                      [name |-> t, used |-> x.used \cup {N[x.name].field}] \in (D \cup {s}) \cup Search!ToSet(F \o M)
      <4>1. CASE x \in D
        BY ONLY <1>4, <3>1, <3>3, <4>1 DEF Handled
      <4>2. CASE x = s
        BY <1>12, <2>5, <3>2, <4>2
      <4> QED BY <3>3, <4>1, <4>2
    <3> QED BY <3>3 DEF Handled
  <2>10. Start(r) \in (D \cup {s}) \cup Search!ToSet(F \o M)
    BY <1>4, <2>7
  <2>11. \A x \in (D \cup {s}) \cup Search!ToSet(F \o M) : Reached(N, r, x)
    BY <1>4, <2>7, <2>8
  <2> QED BY <1>2, <1>4, <2>2, <2>6, <2>9, <2>10, <2>11 DEF FieldsSafe, FieldsInv
<1> QED BY <1>9, <1>10, <1>11, <1>12

\* Every step of the pass keeps the invariant.
LEMMA FieldsNext ==
  ASSUME FieldsSafe, [Search!VisitField \/ Search!FieldsDone]_(Search!checked)
  PROVE  FieldsSafe'
<1>1. CASE Search!VisitField
  BY <1>1, LooksAtOne
<1>2. CASE Search!FieldsDone
  <2>1. /\ typed' = typed /\ waiting' = waiting /\ seen' = seen /\ pc = "fields"
        /\ pc' = "compile" /\ verdict' = verdict /\ waiting = <<>> /\ Search!Root' = Search!Root
    BY <1>2, SameGraph DEF Search!FieldsDone, Search!Go
  <2> QED BY <2>1 DEF FieldsSafe, FieldsInv
<1>3. CASE UNCHANGED Search!checked
  <2>1. /\ typed' = typed /\ waiting' = waiting /\ seen' = seen
        /\ pc' = pc /\ verdict' = verdict /\ Search!Root' = Search!Root
    BY <1>3, SameGraph DEF Search!checked
  <2> QED BY <2>1 DEF FieldsSafe, FieldsInv
<1> QED BY <1>1, <1>2, <1>3

\* The invariant implies the property: at the end nothing waits.
LEMMA SafeIsExact ==
  ASSUME FieldsSafe
  PROVE  Search!FieldsExact(Nat)
<1>1. PICK N, r : N = typed /\ r = Search!Root
  OBVIOUS
<1>2. ASSUME NEW k \in Nat PROVE Search!Repeats(k) <=> Doubled(N, r, k)
  BY <1>1 DEF Search!Repeats, Search!Path, Search!Twice, Doubled, Walk, Double, Heads
<1>3. CASE pc = "refused"
  <2>1. verdict = "field" /\ \E k \in Nat : Doubled(N, r, k)
    BY <1>1, <1>3 DEF FieldsSafe, FieldsInv
  <2> QED BY <1>2, <2>1 DEF Search!FieldsExact
<1>4. CASE pc = "fields"
  BY <1>4 DEF FieldsSafe, FieldsInv, Search!FieldsExact
<1>5. CASE pc = "compile"
  <2>1. /\ Graph(N, r) /\ verdict = "none" /\ waiting = <<>>
        /\ Handled(N, seen, Search!ToSet(waiting)) /\ Start(r) \in seen \cup Search!ToSet(waiting)
    BY <1>1, <1>5 DEF FieldsSafe, FieldsInv
  <2>2. Search!ToSet(waiting) = {}
    BY <2>1 DEF Search!ToSet
  <2>3. Handled(N, seen, {}) /\ [name |-> r, used |-> {}] \in seen
    BY <2>1, <2>2 DEF Start
  <2>4. \A k \in Nat : ~ Doubled(N, r, k)
    BY <2>1, <2>3, NothingDoubled
  <2> QED BY <1>2, <2>1, <2>4 DEF Search!FieldsExact
<1> QED BY <1>3, <1>4, <1>5 DEF FieldsSafe, FieldsInv

\* For every graph, with cycles or without: the pass refuses it for a repeated field
\* only if a path from the root, of any length, records one field twice, and ends
\* without a refusal only if none does (FieldsExact, of PathFieldsExact; pdrs_v2.py,
\* 188-203).
THEOREM FieldsAreCheckedExactly == Search!SpecFields => []Search!FieldsExact(Nat)
<1>1. Search!InitFields => FieldsSafe
  BY FieldsInit
<1>2. FieldsSafe /\ [Search!VisitField \/ Search!FieldsDone]_(Search!checked) => FieldsSafe'
  BY FieldsNext
<1>3. FieldsSafe => Search!FieldsExact(Nat)
  BY SafeIsExact
<1> QED BY <1>1, <1>2, <1>3, PTL DEF Search!SpecFields
=============================================================================
