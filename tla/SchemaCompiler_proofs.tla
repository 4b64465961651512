------------------------ MODULE SchemaCompiler_proofs ------------------------
(***************************************************************************)
(* The memoized compiler of FinSpace, for all schemas: the graph it makes  *)
(* has the words of the plain enumeration, the engine accepts it, and      *)
(* states are shared (finspace compiler.py); its words are the records     *)
(* that rank accepts and unrank returns, and conditions leave the words of *)
(* records that agree with them (space.py).  Schemas keep their meaning in *)
(* files (schema.py), and stratified samples are drawn as asked for        *)
(* (space.py).  L stands for the words of the nodes made so far; in is the *)
(* input, which no step changes.                                           *)
(***************************************************************************)
EXTENDS SchemaCompiler, NumberLemmas, FiniteSetTheorems, FunctionTheorems

CONSTANTS Documents, Built
VARIABLES pc, document, schema, file, again

\* Schemas on their way through files.
Codec == INSTANCE SchemaCodec

Name(k) == <<"s", k>>
Names(k) == {End} \cup {Name(j) : j \in 0..k - 1}

Root == Call(1, Nothing)
Calls(in) == [index : 1..Len(in.fields) + 1, context : Contexts(in.fields)]
From(in, call) == Plain(in.fields, in.fixed)[call.index][call.context]
KeyOf(in, call) ==
  <<call.index,
    Restrict(call.context, Relevant(in.fields, call.index) \cap DOMAIN call.context)>>

\* t is a right answer to a call.
LangOf(L, t) == IF t = Dead THEN {} ELSE L[t]
Right(in, L, call, t) ==
  /\ t \in DOMAIN L \cup {Dead}
  /\ LangOf(L, t) = From(in, call).words
  /\ t = Dead <=> From(in, call).words = {}
  /\ From(in, call).missing = {}

-----------------------------------------------------------------------------
\* The graph: branches rise in value and lead to earlier nodes.
Branches == Seq([value : Nat, target : {End} \cup {Name(k) : k \in Nat}])
Rising(bs) == \A a, b \in DOMAIN bs : a < b => bs[a].value < bs[b].value
Layered(k, bs) ==
  bs \in Branches /\ bs # <<>> /\ Rising(bs) /\ \A b \in DOMAIN bs : bs[b].target \in Names(k)

Graph(L) ==
  /\ counter \in Nat
  /\ DOMAIN nodes = Names(counter)
  /\ L = [n \in Names(counter) |-> L[n]]
  /\ L[End] = {<<>>}
  /\ \A k \in 0..counter - 1 :
       /\ Layered(k, nodes[Name(k)].branches)
       /\ L[Name(k)] = Joined(nodes[Name(k)].branches, L)

\* What is remembered is right, and every node is.
Memo(in, L) ==
  /\ IsFiniteSet(DOMAIN memo)
  /\ \A key \in DOMAIN memo :
       \E call \in Calls(in) : KeyOf(in, call) = key /\ Right(in, L, call, memo[key])
  /\ \A k \in 0..counter - 1 : \E key \in DOMAIN memo : memo[key] = Name(k)

-----------------------------------------------------------------------------
\* A frame, the calls it makes, and what it holds after some of its values.
Frames(in) ==
  [index : 1..Len(in.fields), context : Contexts(in.fields),
   values : Seq(Values(in.fields)), try : Nat, branches : Branches]
FieldOfFrame(in, F) == in.fields[F.index]
CallOf(F) == Call(F.index, F.context)
CallFor(in, F, k) ==
  Call(F.index + 1,
       IF F.values = NoValues THEN F.context
       ELSE With(F.context, FieldOfFrame(in, F).name, F.values[k]))
Tried(in, F, k) == 1..k \cap Allowed(in.fixed, FieldOfFrame(in, F), F.values)

Holds(in, L, F, k) ==
  /\ F \in Frames(in)
  /\ IF F.values = NoValues THEN ~ IsActive(FieldOfFrame(in, F), F.context)
     ELSE /\ ~ Unresolved(FieldOfFrame(in, F), F.context)
          /\ F.values = Resolve(FieldOfFrame(in, F), F.context)
  /\ F.try <= Len(F.values)
  /\ Rising(F.branches)
  /\ \A b \in DOMAIN F.branches :
       LET value == F.branches[b].value + 1 IN
         /\ value \in Tried(in, F, k)
         /\ Right(in, L, CallFor(in, F, value), F.branches[b].target)
         /\ F.branches[b].target # Dead
  /\ \A v \in Tried(in, F, k) :
       /\ From(in, CallFor(in, F, v)).missing = {}
       /\ From(in, CallFor(in, F, v)).words # {} =>
            \E b \in DOMAIN F.branches : F.branches[b].value = v - 1
  /\ From(in, CallOf(F)).missing # {} => From(in, Root).missing # {}

\* A frame in its loop, and one that waits for an answer.
Loops(in, L, F) == Holds(in, L, F, F.try) /\ F.values # NoValues
Waits(in, L, F) ==
  /\ Holds(in, L, F, F.try - 1)
  /\ F.values # NoValues => F.try \in Tried(in, F, F.try)

Pending(in, s) == IF s = <<>> THEN Root ELSE CallFor(in, s[Len(s)], s[Len(s)].try)
Chained(in, s) ==
  /\ s # <<>> => CallOf(s[1]) = Root
  /\ \A j \in 1..Len(s) - 1 : CallOf(s[j + 1]) = CallFor(in, s[j], s[j].try)
  /\ \A j \in 1..Len(s) : s[j].index = j

Stacked(in, L, s, looping) ==
  /\ s \in Seq(Frames(in))
  /\ Chained(in, s)
  /\ \A j \in 1..Len(s) :
       IF j = Len(s) /\ looping THEN Loops(in, L, s[j]) ELSE Waits(in, L, s[j])
OpenIn(in, s, m) == \A j \in 1..Len(s) : KeyOf(in, CallOf(s[j])) \notin DOMAIN m

Running(in, L) ==
  /\ phase \in {"new", "invalid", "call", "loop", "return", "unresolved", "done", "empty"}
  /\ phase = "new" => stack = <<>> /\ arg = Root
  /\ phase \in {"call", "return"} => Stacked(in, L, stack, FALSE) /\ OpenIn(in, stack, memo)
  /\ phase = "loop" => Stacked(in, L, stack, TRUE) /\ OpenIn(in, stack, memo)
  /\ phase = "call" => arg = Pending(in, stack) /\ arg \in Calls(in)
  /\ phase = "loop" => stack # <<>>
  /\ phase = "return" => Right(in, L, Pending(in, stack), answer)
  /\ phase \in {"done", "empty"} => stack = <<>> /\ Right(in, L, Root, answer)
  /\ phase = "done" => answer # Dead
  /\ phase = "empty" => answer = Dead
  /\ phase = "unresolved" => From(in, Root).missing # {}

\* No node is left behind: it is the answer, or a branch leads to it.
LedTo(bs, k) == \E b \in DOMAIN bs : bs[b].target = Name(k)
Used ==
  \A k \in 0..counter - 1 :
    \/ \E j \in k + 1..counter - 1 : LedTo(nodes[Name(j)].branches, k)
    \/ \E j \in 1..Len(stack) : LedTo(stack[j].branches, k)
    \/ phase \in {"return", "done", "empty"} /\ answer = Name(k)

Good(in, L) == input = in /\ Graph(L) /\ Memo(in, L) /\ Running(in, L) /\ Used
IInv == \E L : Good(input, L)

-----------------------------------------------------------------------------
\* Schemas and contexts.

LEMMA SeqMono == ASSUME NEW A, NEW B, A \subseteq B, NEW s \in Seq(A) PROVE s \in Seq(B)
OBVIOUS

LEMMA SeqElement == ASSUME NEW S, NEW s \in Seq(S), NEW b \in DOMAIN s PROVE s[b] \in S
OBVIOUS

\* The parts of a schema are sequences.
LEMMA InputFacts ==
  ASSUME NEW in, WellFormed(in.fields)
  PROVE  /\ Len(in.fields) \in Nat /\ DOMAIN in.fields = 1..Len(in.fields)
         /\ \A i \in 1..Len(in.fields) :
              LET f == in.fields[i] IN
                /\ f.name \in NamesOf(in.fields)
                /\ f.values \in Seq(Values(in.fields))
                /\ f.default \in Seq(Values(in.fields))
                /\ \A v \in DOMAIN f.cases : f.cases[v] \in Seq(Values(in.fields))
<1>1. /\ IsList(in.fields)
      /\ \A f \in Range(in.fields) :
           IsList(f.values) /\ IsList(f.default) /\ \A v \in DOMAIN f.cases : IsList(f.cases[v])
  BY DEF WellFormed, Distinct
<1>2. in.fields \in Seq(Range(in.fields))
  BY <1>1 DEF IsList
<1>3. Len(in.fields) \in Nat /\ DOMAIN in.fields = 1..Len(in.fields)
  BY <1>2
<1>4. ASSUME NEW i \in 1..Len(in.fields)
      PROVE  LET f == in.fields[i] IN
                /\ f.name \in NamesOf(in.fields)
                /\ f.values \in Seq(Values(in.fields))
                /\ f.default \in Seq(Values(in.fields))
                /\ \A v \in DOMAIN f.cases : f.cases[v] \in Seq(Values(in.fields))
  <2> DEFINE f == in.fields[i]
  <2>1. f \in Range(in.fields)
    BY <1>3 DEF Range
  <2>2. IsList(f.values) /\ IsList(f.default) /\ \A v \in DOMAIN f.cases : IsList(f.cases[v])
    BY <1>1, <2>1
  <2>3. Listed(f) \subseteq Values(in.fields)
    BY <1>3 DEF Values
  <2>4. Range(f.values) \subseteq Values(in.fields) /\ Range(f.default) \subseteq Values(in.fields)
    BY <2>3 DEF Listed
  <2>5. \A v \in DOMAIN f.cases : Range(f.cases[v]) \subseteq Values(in.fields)
    BY <2>3 DEF Listed
  <2>6. f.values \in Seq(Values(in.fields)) /\ f.default \in Seq(Values(in.fields))
    BY <2>2, <2>4, SeqMono DEF IsList
  <2>7. \A v \in DOMAIN f.cases : f.cases[v] \in Seq(Values(in.fields))
    BY <2>2, <2>5, SeqMono DEF IsList
  <2>8. f.name \in NamesOf(in.fields)
    BY <1>3 DEF NamesOf
  <2> QED BY <2>6, <2>7, <2>8
<1> QED BY <1>3, <1>4

LEMMA ResolveType ==
  ASSUME NEW in, WellFormed(in.fields), NEW i \in 1..Len(in.fields), NEW context,
         ~ Unresolved(in.fields[i], context)
  PROVE  Resolve(in.fields[i], context) \in Seq(Values(in.fields))
<1> DEFINE f == in.fields[i]
<1>1. /\ f.values \in Seq(Values(in.fields)) /\ f.default \in Seq(Values(in.fields))
      /\ \A v \in DOMAIN f.cases : f.cases[v] \in Seq(Values(in.fields))
  BY InputFacts
<1>2. NoValues \in Seq(Values(in.fields))
  BY DEF NoValues
<1> HIDE DEF f
<1>3. Resolve(f, context) \in Seq(Values(in.fields))
  BY <1>1, <1>2, Zenon DEF Resolve
<1> QED BY <1>3 DEF f

LEMMA WithType ==
  ASSUME NEW fields, NEW context \in Contexts(fields), NEW name \in NamesOf(fields),
         NEW value \in Values(fields)
  PROVE  With(context, name, value) \in Contexts(fields)
<1>1. PICK S \in SUBSET NamesOf(fields) : context \in [S -> Values(fields)]
  BY DEF Contexts
<1>2. With(context, name, value) \in [S \cup {name} -> Values(fields)]
  BY <1>1 DEF With
<1>3. S \cup {name} \in SUBSET NamesOf(fields)
  OBVIOUS
<1> QED BY <1>2, <1>3 DEF Contexts

LEMMA NothingType == ASSUME NEW fields PROVE Nothing \in Contexts(fields)
<1>1. Nothing \in [{} -> Values(fields)]
  BY DEF Nothing
<1> QED BY <1>1 DEF Contexts

-----------------------------------------------------------------------------
\* The plain enumeration satisfies its equation.
PlainFrom(fields, fixed, low, p) ==
  p = [i \in low..Len(fields) + 1 |->
         [context \in Contexts(fields) |->
            IF i > Len(fields) THEN [words |-> {<<>>}, missing |-> {}]
            ELSE FromField(fields[i], fixed, p[i + 1], context)]]

LEMMA PlainExists ==
  ASSUME NEW fields, NEW fixed, Len(fields) \in Nat
  PROVE  \E p : PlainFrom(fields, fixed, 1, p)
<1> DEFINE N == Len(fields)
           Bad == {k \in 0..N : ~ \E p : PlainFrom(fields, fixed, N + 1 - k, p)}
<1>1. ASSUME Bad # {} PROVE FALSE
  <2>1. PICK m \in Bad : \A k \in Bad : m <= k
    <3>1. Bad \subseteq Nat
      OBVIOUS
    <3> QED BY <1>1, <3>1, LeastNat
  <2>2. m # 0
    <3> DEFINE p == [i \in N + 1..N + 1 |->
                       [context \in Contexts(fields) |-> [words |-> {<<>>}, missing |-> {}]]]
    <3>1. PlainFrom(fields, fixed, N + 1, p)
      BY DEF PlainFrom
    <3> QED BY <3>1
  <2>3. m \in 1..N /\ m - 1 \in 0..N /\ m - 1 \notin Bad
    BY <2>1, <2>2
  <2> DEFINE low == N + 1 - m
  <2>4. PICK p : PlainFrom(fields, fixed, low + 1, p)
    <3>1. N + 1 - (m - 1) = low + 1
      BY <2>3
    <3> QED BY <2>3, <3>1
  <2> DEFINE first == [context \in Contexts(fields) |->
                         FromField(fields[low], fixed, p[low + 1], context)]
             q == [i \in low..N + 1 |-> IF i = low THEN first ELSE p[i]]
             Row(i) == [context \in Contexts(fields) |->
                          IF i > N THEN [words |-> {<<>>}, missing |-> {}]
                          ELSE FromField(fields[i], fixed, q[i + 1], context)]
  <2>5. ASSUME NEW i \in low..N + 1 PROVE q[i] = Row(i)
    <3>1. CASE i = low
      <4>1. q[i + 1] = p[low + 1] /\ ~ (i > N)
        BY <2>3, <3>1
      <4>2. q[i] = first
        BY <3>1
      <4> QED BY <3>1, <4>1, <4>2
    <3>2. CASE i # low
      <4>1. i \in low + 1..N + 1 /\ q[i] = p[i]
        BY <3>2, <2>3
      <4>2. p[i] = [context \in Contexts(fields) |->
                      IF i > N THEN [words |-> {<<>>}, missing |-> {}]
                      ELSE FromField(fields[i], fixed, p[i + 1], context)]
        BY <2>4, <4>1 DEF PlainFrom
      <4>3. i > N \/ q[i + 1] = p[i + 1]
        BY <3>2, <2>3, <4>1
      <4> QED BY <4>1, <4>2, <4>3
    <3> QED BY <3>1, <3>2
  <2>6. q = [i \in low..N + 1 |-> Row(i)]
    <3> HIDE DEF first, Row
    <3> QED BY <2>5
  <2>7. PlainFrom(fields, fixed, low, q)
    BY <2>6 DEF PlainFrom
  <2> QED BY <2>1, <2>7
<1>2. 0 \in 0..N /\ N \in 0..N /\ N + 1 - N = 1
  OBVIOUS
<1> QED BY <1>1, <1>2

LEMMA PlainEquation ==
  ASSUME NEW fields, NEW fixed, Len(fields) \in Nat
  PROVE  PlainFrom(fields, fixed, 1, Plain(fields, fixed))
<1>1. PICK p : PlainFrom(fields, fixed, 1, p)
  BY PlainExists
<1> QED BY <1>1 DEF Plain, PlainFrom

-----------------------------------------------------------------------------
\* What a call stands for, by the cases of _build.

LEMMA PlainAt ==
  ASSUME NEW fields, NEW fixed, Len(fields) \in Nat, NEW i \in 1..Len(fields) + 1,
         NEW context \in Contexts(fields)
  PROVE  Plain(fields, fixed)[i][context] =
           IF i > Len(fields) THEN [words |-> {<<>>}, missing |-> {}]
           ELSE FromField(fields[i], fixed, Plain(fields, fixed)[i + 1], context)
<1> DEFINE p == Plain(fields, fixed)
           At(j, c) == IF j > Len(fields) THEN [words |-> {<<>>}, missing |-> {}]
                       ELSE FromField(fields[j], fixed, p[j + 1], c)
<1>1. PlainFrom(fields, fixed, 1, p)
  BY PlainEquation
<1> HIDE DEF p
<1>2. p = [j \in 1..Len(fields) + 1 |-> [c \in Contexts(fields) |-> At(j, c)]]
  BY <1>1, Zenon DEF PlainFrom
<1> HIDE DEF At
<1>3. p[i] = [c \in Contexts(fields) |-> At(i, c)]
  BY <1>2
<1>4. p[i][context] = At(i, context)
  BY <1>3
<1> QED BY <1>4 DEF At, p

LEMMA FromEnd ==
  ASSUME NEW in, WellFormed(in.fields), NEW context \in Contexts(in.fields)
  PROVE  From(in, Call(Len(in.fields) + 1, context)) = [words |-> {<<>>}, missing |-> {}]
<1> DEFINE N == Len(in.fields)
<1>1. N \in Nat
  BY InputFacts
<1>2. N + 1 \in 1..N + 1 /\ N + 1 > N
  BY <1>1
<1>3. Plain(in.fields, in.fixed)[N + 1][context] = [words |-> {<<>>}, missing |-> {}]
  BY <1>1, <1>2, PlainAt
<1> QED BY <1>3 DEF From, Call

LEMMA FromStep ==
  ASSUME NEW in, WellFormed(in.fields), NEW i \in 1..Len(in.fields),
         NEW context \in Contexts(in.fields)
  PROVE  From(in, Call(i, context)) =
           FromField(in.fields[i], in.fixed, Plain(in.fields, in.fixed)[i + 1], context)
<1> DEFINE N == Len(in.fields)
<1>1. N \in Nat
  BY InputFacts
<1>2. i \in 1..N + 1 /\ ~ (i > N)
  BY <1>1
<1>3. Plain(in.fields, in.fixed)[i][context] =
        FromField(in.fields[i], in.fixed, Plain(in.fields, in.fixed)[i + 1], context)
  BY <1>1, <1>2, PlainAt
<1> QED BY <1>3 DEF From, Call

LEMMA FromInactive ==
  ASSUME NEW in, WellFormed(in.fields), NEW i \in 1..Len(in.fields),
         NEW context \in Contexts(in.fields),
         ~ IsActive(in.fields[i], context)
  PROVE  From(in, Call(i, context)) = From(in, Call(i + 1, context))
<1>1. From(in, Call(i, context)) = Plain(in.fields, in.fixed)[i + 1][context]
  BY FromStep, Zenon DEF FromField
<1> QED BY <1>1 DEF From, Call

LEMMA FromUnresolved ==
  ASSUME NEW in, WellFormed(in.fields), NEW i \in 1..Len(in.fields),
         NEW context \in Contexts(in.fields),
         Unresolved(in.fields[i], context)
  PROVE  /\ From(in, Call(i, context)).words = {}
         /\ From(in, Call(i, context)).missing = {in.fields[i].name}
<1>1. IsActive(in.fields[i], context)
  BY DEF Unresolved
<1>2. From(in, Call(i, context)) = [words |-> {}, missing |-> {in.fields[i].name}]
  BY <1>1, FromStep, Zenon DEF FromField
<1> QED BY <1>2

\* The call for the k-th value of an active field.
Later(in, i, context, k) ==
  Call(i + 1, With(context, in.fields[i].name, Resolve(in.fields[i], context)[k]))
AllowedAt(in, i, context) == Allowed(in.fixed, in.fields[i], Resolve(in.fields[i], context))

LEMMA FromActive ==
  ASSUME NEW in, WellFormed(in.fields), NEW i \in 1..Len(in.fields),
         NEW context \in Contexts(in.fields),
         IsActive(in.fields[i], context), ~ Unresolved(in.fields[i], context)
  PROVE  /\ From(in, Call(i, context)).words =
              UNION {Prefixed(k - 1, From(in, Later(in, i, context, k)).words) :
                       k \in AllowedAt(in, i, context)}
         /\ From(in, Call(i, context)).missing =
              UNION {From(in, Later(in, i, context, k)).missing : k \in AllowedAt(in, i, context)}
<1> DEFINE f == in.fields[i]
           later == Plain(in.fields, in.fixed)[i + 1]
           After(k) == later[With(context, f.name, Resolve(f, context)[k])]
           allowed == Allowed(in.fixed, f, Resolve(f, context))
<1>1. From(in, Call(i, context)) = FromField(f, in.fixed, later, context)
  BY FromStep
<1>2. \A k : From(in, Later(in, i, context, k)) = After(k)
  BY DEF From, Later, Call
<1> HIDE DEF later
<1>3. FromField(f, in.fixed, later, context) =
        [words |-> UNION {Prefixed(k - 1, After(k).words) : k \in allowed},
         missing |-> UNION {After(k).missing : k \in allowed}]
  BY Zenon DEF FromField
<1>4. AllowedAt(in, i, context) = allowed
  BY DEF AllowedAt
<1> DEFINE words == UNION {Prefixed(k - 1, After(k).words) : k \in allowed}
           missing == UNION {After(k).missing : k \in allowed}
<1>5. From(in, Call(i, context)) = [words |-> words, missing |-> missing]
  BY <1>1, <1>3, Zenon
<1> HIDE DEF words, missing
<1>6. From(in, Call(i, context)).words = words /\ From(in, Call(i, context)).missing = missing
  BY <1>5
<1> HIDE DEF After, allowed
<1>7. words = UNION {Prefixed(k - 1, From(in, Later(in, i, context, k)).words) :
                       k \in AllowedAt(in, i, context)}
  BY <1>2, <1>4 DEF words
<1>8. missing = UNION {From(in, Later(in, i, context, k)).missing : k \in AllowedAt(in, i, context)}
  BY <1>2, <1>4 DEF missing
<1> QED BY <1>6, <1>7, <1>8

-----------------------------------------------------------------------------
\* Contexts that agree on what is relevant lead to the same words, so that
\* a key stands for one answer (_key, schema.relevant_context).
Agree(c, d, R) ==
  /\ R \cap DOMAIN c = R \cap DOMAIN d
  /\ \A n \in R \cap DOMAIN c : c[n] = d[n]

LEMMA KeyAgree ==
  ASSUME NEW in, NEW a, NEW b, KeyOf(in, a) = KeyOf(in, b)
  PROVE  a.index = b.index /\ Agree(a.context, b.context, Relevant(in.fields, a.index))
<1> DEFINE R == Relevant(in.fields, a.index)
<1>1. /\ a.index = b.index
      /\ Restrict(a.context, Relevant(in.fields, a.index) \cap DOMAIN a.context)
           = Restrict(b.context, Relevant(in.fields, b.index) \cap DOMAIN b.context)
  BY DEF KeyOf
<1> HIDE DEF R
<1>2. Restrict(a.context, R \cap DOMAIN a.context) = Restrict(b.context, R \cap DOMAIN b.context)
  BY <1>1 DEF R
<1>3. R \cap DOMAIN a.context = R \cap DOMAIN b.context
  BY <1>2 DEF Restrict
<1>4. ASSUME NEW n \in R \cap DOMAIN a.context PROVE a.context[n] = b.context[n]
  <2>1. /\ Restrict(a.context, R \cap DOMAIN a.context)[n] = a.context[n]
        /\ Restrict(b.context, R \cap DOMAIN b.context)[n] = b.context[n]
    BY <1>3 DEF Restrict
  <2> QED BY <1>2, <2>1
<1> QED BY <1>1, <1>3, <1>4 DEF Agree, R

LEMMA AgreeField ==
  ASSUME NEW f, NEW c, NEW d, NEW R, Agree(c, d, R), Dependencies(f) \subseteq R
  PROVE  /\ IsActive(f, c) <=> IsActive(f, d)
         /\ Unresolved(f, c) <=> Unresolved(f, d)
         /\ ~ Unresolved(f, c) => Resolve(f, c) = Resolve(f, d)
<1>1. \A x \in f.when : x.field \in R
  BY DEF Dependencies
<1>2. \A x \in f.when : Matches(x, c) <=> Matches(x, d)
  BY <1>1 DEF Matches, Agree
<1>3. IsActive(f, c) <=> IsActive(f, d)
  BY <1>2 DEF IsActive
<1>4. f.dependsOn = None \/ f.dependsOn \in R
  BY DEF Dependencies
<1>5. f.dependsOn \in DOMAIN c \cup {None} <=> f.dependsOn \in DOMAIN d \cup {None}
  BY <1>4 DEF Agree
<1>6. Unresolved(f, c) <=> Unresolved(f, d)
  BY <1>3, <1>5 DEF Unresolved
<1>7. ASSUME ~ Unresolved(f, c) PROVE Resolve(f, c) = Resolve(f, d)
  <2>1. CASE ~ IsActive(f, c)
    BY <2>1, <1>3, Zenon DEF Resolve
  <2>2. CASE IsActive(f, c) /\ f.dependsOn = None
    BY <2>2, <1>3, Zenon DEF Resolve
  <2>3. CASE IsActive(f, c) /\ f.dependsOn # None
    <3>1. f.dependsOn \in DOMAIN c
      BY <1>7, <2>3 DEF Unresolved
    <3>2. c[f.dependsOn] = d[f.dependsOn]
      BY <3>1, <1>4, <2>3 DEF Agree
    <3> QED BY <3>2, <1>3, Zenon DEF Resolve
  <2> QED BY <2>1, <2>2, <2>3
<1> QED BY <1>3, <1>6, <1>7

LEMMA AgreeWith ==
  ASSUME NEW c, NEW d, NEW R, NEW S, Agree(c, d, R), S \subseteq R, NEW name, NEW value
  PROVE  Agree(With(c, name, value), With(d, name, value), S)
<1>1. /\ DOMAIN With(c, name, value) = DOMAIN c \cup {name}
      /\ \A n \in DOMAIN c \cup {name} :
           With(c, name, value)[n] = IF n = name THEN value ELSE c[n]
  BY DEF With
<1>2. /\ DOMAIN With(d, name, value) = DOMAIN d \cup {name}
      /\ \A n \in DOMAIN d \cup {name} :
           With(d, name, value)[n] = IF n = name THEN value ELSE d[n]
  BY DEF With
<1> QED BY <1>1, <1>2 DEF Agree

LEMMA RelevantFacts ==
  ASSUME NEW fields, Len(fields) \in Nat, NEW i \in 1..Len(fields)
  PROVE  /\ Relevant(fields, i + 1) \subseteq Relevant(fields, i)
         /\ Dependencies(fields[i]) \subseteq Relevant(fields, i)
<1>1. i + 1..Len(fields) \subseteq i..Len(fields) /\ i \in i..Len(fields)
  OBVIOUS
<1> QED BY <1>1 DEF Relevant

SameFrom(in, a, b) ==
  From(in, a).words = From(in, b).words /\ From(in, a).missing = From(in, b).missing

\* One step of the argument: the calls of the next field do not tell c from d.
LEMMA AgreeStep ==
  ASSUME NEW in \in Inputs, NEW i \in 1..Len(in.fields),
         NEW c \in Contexts(in.fields), NEW d \in Contexts(in.fields),
         Agree(c, d, Relevant(in.fields, i)),
         \A x, y \in Contexts(in.fields) :
           Agree(x, y, Relevant(in.fields, i + 1)) => SameFrom(in, Call(i + 1, x), Call(i + 1, y))
  PROVE  SameFrom(in, Call(i, c), Call(i, d))
<1> DEFINE f == in.fields[i]
           R == Relevant(in.fields, i)
           S == Relevant(in.fields, i + 1)
<1>1. S \subseteq R /\ Dependencies(f) \subseteq R
  BY InputFacts, RelevantFacts, InputsAssumption
<1>2. /\ IsActive(f, c) <=> IsActive(f, d)
      /\ Unresolved(f, c) <=> Unresolved(f, d)
      /\ ~ Unresolved(f, c) => Resolve(f, c) = Resolve(f, d)
  BY <1>1, AgreeField
<1>3. CASE ~ IsActive(f, c)
  <2>1. Agree(c, d, S)
    BY <1>1 DEF Agree
  <2>2. SameFrom(in, Call(i + 1, c), Call(i + 1, d))
    BY <2>1
  <2>3. /\ From(in, Call(i, c)) = From(in, Call(i + 1, c))
        /\ From(in, Call(i, d)) = From(in, Call(i + 1, d))
    BY <1>2, <1>3, FromInactive, InputsAssumption
  <2> QED BY <2>2, <2>3 DEF SameFrom
<1>4. CASE Unresolved(f, c)
  <2>1. Unresolved(in.fields[i], c) /\ Unresolved(in.fields[i], d)
    BY <1>2, <1>4
  <2>2. From(in, Call(i, c)).words = {} /\ From(in, Call(i, c)).missing = {in.fields[i].name}
    BY <2>1, FromUnresolved, InputsAssumption
  <2>3. From(in, Call(i, d)).words = {} /\ From(in, Call(i, d)).missing = {in.fields[i].name}
    BY <2>1, FromUnresolved, InputsAssumption
  <2> QED BY <2>2, <2>3 DEF SameFrom
<1>5. CASE IsActive(f, c) /\ ~ Unresolved(f, c)
  <2> DEFINE allowed == AllowedAt(in, i, c)
             C(k) == From(in, Later(in, i, c, k))
             D(k) == From(in, Later(in, i, d, k))
  <2>1. AllowedAt(in, i, d) = allowed /\ Resolve(f, c) = Resolve(f, d)
    BY <1>2, <1>5 DEF AllowedAt
  <2>2. ASSUME NEW k \in allowed PROVE C(k).words = D(k).words /\ C(k).missing = D(k).missing
    <3> DEFINE v == Resolve(f, c)[k]
               x == With(c, f.name, v)
               y == With(d, f.name, v)
    <3>1. v \in Values(in.fields)
      <4>1. Resolve(f, c) \in Seq(Values(in.fields))
        BY <1>5, ResolveType, InputsAssumption
      <4>2. k \in DOMAIN Resolve(f, c)
        BY DEF AllowedAt, Allowed
      <4> QED BY <4>1, <4>2
    <3>2. x \in Contexts(in.fields) /\ y \in Contexts(in.fields)
      <4>1. f.name \in NamesOf(in.fields)
        BY InputFacts, InputsAssumption
      <4> QED BY <3>1, <4>1, WithType
    <3>3. Agree(x, y, S)
      BY <1>1, AgreeWith
    <3>4. SameFrom(in, Call(i + 1, x), Call(i + 1, y))
      BY <3>2, <3>3
    <3>5. Later(in, i, c, k) = Call(i + 1, x) /\ Later(in, i, d, k) = Call(i + 1, y)
      BY <2>1 DEF Later
    <3> QED BY <3>4, <3>5 DEF SameFrom
  <2>3. /\ From(in, Call(i, c)).words = UNION {Prefixed(k - 1, C(k).words) : k \in allowed}
        /\ From(in, Call(i, c)).missing = UNION {C(k).missing : k \in allowed}
    BY <1>5, FromActive, InputsAssumption
  <2>4. /\ From(in, Call(i, d)).words = UNION {Prefixed(k - 1, D(k).words) : k \in allowed}
        /\ From(in, Call(i, d)).missing = UNION {D(k).missing : k \in allowed}
    BY <1>2, <1>5, <2>1, FromActive, InputsAssumption
  <2> HIDE DEF C, D, allowed
  <2>5. UNION {C(k).missing : k \in allowed} = UNION {D(k).missing : k \in allowed}
    BY <2>2
  <2>6. UNION {Prefixed(k - 1, C(k).words) : k \in allowed}
          = UNION {Prefixed(k - 1, D(k).words) : k \in allowed}
    BY <2>2
  <2> QED BY <2>3, <2>4, <2>5, <2>6 DEF SameFrom
<1> QED BY <1>3, <1>4, <1>5 DEF Unresolved

LEMMA AgreeFrom ==
  ASSUME NEW in \in Inputs, NEW i \in 1..Len(in.fields) + 1,
         NEW c \in Contexts(in.fields), NEW d \in Contexts(in.fields),
         Agree(c, d, Relevant(in.fields, i))
  PROVE  SameFrom(in, Call(i, c), Call(i, d))
<1> DEFINE N == Len(in.fields)
           Same(j) == \A x, y \in Contexts(in.fields) :
                        Agree(x, y, Relevant(in.fields, j)) => SameFrom(in, Call(j, x), Call(j, y))
           Bad == {k \in 0..N : ~ Same(N + 1 - k)}
<1>1. N \in Nat
  BY InputFacts, InputsAssumption
<1>2. ASSUME Bad # {} PROVE FALSE
  <2>1. PICK m \in Bad : \A k \in Bad : m <= k
    <3>1. Bad \subseteq Nat
      OBVIOUS
    <3> QED BY <1>2, <3>1, LeastNat
  <2>2. m # 0
    <3>1. Same(N + 1)
      BY FromEnd, InputsAssumption DEF SameFrom
    <3>2. N + 1 - 0 = N + 1
      BY <1>1
    <3> QED BY <2>1, <3>1, <3>2
  <2> HIDE DEF Same
  <2>3. m \in 1..N /\ m - 1 \in 0..N /\ m - 1 \notin Bad
    BY <1>1, <2>1, <2>2
  <2>4. N + 1 - m \in 1..N /\ N + 1 - (m - 1) = (N + 1 - m) + 1
    BY <1>1, <2>3
  <2>5. Same((N + 1 - m) + 1)
    BY <2>3, <2>4
  <2>6. Same(N + 1 - m)
    BY <2>4, <2>5, AgreeStep DEF Same
  <2> QED BY <2>1, <2>6
<1>3. N + 1 - i \in 0..N /\ N + 1 - (N + 1 - i) = i
  BY <1>1
<1> HIDE DEF Same
<1>4. Same(i)
  BY <1>2, <1>3
<1> QED BY <1>4 DEF Same

LEMMA KeyFrom ==
  ASSUME NEW in \in Inputs, NEW a \in Calls(in), NEW b \in Calls(in), KeyOf(in, a) = KeyOf(in, b)
  PROVE  SameFrom(in, a, b)
<1>1. a.index = b.index /\ Agree(a.context, b.context, Relevant(in.fields, a.index))
  BY KeyAgree
<1>2. /\ a = Call(a.index, a.context) /\ b = Call(b.index, b.context)
      /\ a.index \in 1..Len(in.fields) + 1
      /\ a.context \in Contexts(in.fields) /\ b.context \in Contexts(in.fields)
  BY DEF Calls, Call
<1> QED BY <1>1, <1>2, AgreeFrom

-----------------------------------------------------------------------------
\* More words do not change what is right, and a key has one answer.
Grows(L, M) == DOMAIN L \subseteq DOMAIN M /\ \A n \in DOMAIN L : M[n] = L[n]

LEMMA RightGrows ==
  ASSUME NEW in, NEW L, NEW M, NEW call, NEW t, Grows(L, M), Right(in, L, call, t)
  PROVE  Right(in, M, call, t)
<1>1. LangOf(M, t) = LangOf(L, t)
  BY DEF Grows, Right, LangOf
<1> QED BY <1>1 DEF Right, Grows

LEMMA RightSame ==
  ASSUME NEW in, NEW L, NEW a, NEW b, NEW t, SameFrom(in, a, b), Right(in, L, a, t)
  PROVE  Right(in, L, b, t)
BY DEF Right, SameFrom

LEMMA HoldsGrows ==
  ASSUME NEW in, NEW L, NEW M, NEW F, NEW k, Grows(L, M), Holds(in, L, F, k)
  PROVE  Holds(in, M, F, k)
<1>1. \A call, t : Right(in, L, call, t) => Right(in, M, call, t)
  BY RightGrows
<1> QED BY <1>1, Zenon DEF Holds

LEMMA StackedGrows ==
  ASSUME NEW in, NEW L, NEW M, NEW s, NEW looping, Grows(L, M), Stacked(in, L, s, looping)
  PROVE  Stacked(in, M, s, looping)
<1>1. \A F, k : Holds(in, L, F, k) => Holds(in, M, F, k)
  BY HoldsGrows
<1>2. \A F : Loops(in, L, F) => Loops(in, M, F)
  BY <1>1 DEF Loops
<1>3. \A F : Waits(in, L, F) => Waits(in, M, F)
  BY <1>1 DEF Waits
<1> QED BY <1>2, <1>3, Zenon DEF Stacked

-----------------------------------------------------------------------------
\* The calls of a frame.

LEMMA FrameCalls ==
  ASSUME NEW in \in Inputs, NEW F \in Frames(in)
  PROVE  /\ F.index \in 1..Len(in.fields) /\ F.context \in Contexts(in.fields)
         /\ CallOf(F) \in Calls(in)
         /\ \A k : F.values = NoValues \/ k \in 1..Len(F.values) => CallFor(in, F, k) \in Calls(in)
<1>1. Len(in.fields) \in Nat
  BY InputFacts, InputsAssumption
<1>2. /\ F.index \in 1..Len(in.fields) /\ F.context \in Contexts(in.fields)
      /\ F.values \in Seq(Values(in.fields))
  BY DEF Frames
<1>3. F.index \in 1..Len(in.fields) + 1 /\ F.index + 1 \in 1..Len(in.fields) + 1
  BY <1>1, <1>2
<1>4. CallOf(F) \in Calls(in)
  BY <1>2, <1>3 DEF CallOf, Call, Calls
<1>5. ASSUME NEW k, F.values = NoValues \/ k \in 1..Len(F.values)
      PROVE  CallFor(in, F, k) \in Calls(in)
  <2>1. CASE F.values = NoValues
    <3>1. CallFor(in, F, k) = Call(F.index + 1, F.context)
      BY <2>1, Zenon DEF CallFor
    <3> QED BY <3>1, <1>2, <1>3 DEF Call, Calls
  <2>2. CASE F.values # NoValues
    <3> DEFINE c == With(F.context, FieldOfFrame(in, F).name, F.values[k])
    <3>1. CallFor(in, F, k) = Call(F.index + 1, c)
      BY <2>2, Zenon DEF CallFor
    <3>2. F.values[k] \in Values(in.fields)
      BY <1>2, <1>5, <2>2
    <3>3. FieldOfFrame(in, F).name \in NamesOf(in.fields)
      BY <1>2, InputFacts, InputsAssumption DEF FieldOfFrame
    <3>4. c \in Contexts(in.fields)
      BY <1>2, <3>2, <3>3, WithType
    <3> QED BY <3>1, <3>4, <1>3 DEF Call, Calls
  <2> QED BY <2>1, <2>2
<1> QED BY <1>2, <1>4, <1>5

\* The frame of an inactive field stands for the call it makes.
LEMMA InactiveFrame ==
  ASSUME NEW in \in Inputs, NEW L, NEW F, NEW k, Holds(in, L, F, k), F.values = NoValues
  PROVE  From(in, CallOf(F)) = From(in, CallFor(in, F, F.try))
<1>1. F \in Frames(in) /\ ~ IsActive(in.fields[F.index], F.context)
  BY DEF Holds, FieldOfFrame
<1>2. F.index \in 1..Len(in.fields) /\ F.context \in Contexts(in.fields)
  BY <1>1, FrameCalls
<1>3. CallFor(in, F, F.try) = Call(F.index + 1, F.context)
  BY Zenon DEF CallFor
<1> QED BY <1>1, <1>2, <1>3, FromInactive, InputsAssumption DEF CallOf

\* That of an active one for the calls that what is fixed allows.
LEMMA ActiveFrame ==
  ASSUME NEW in \in Inputs, NEW L, NEW F, NEW k, Holds(in, L, F, k), F.values # NoValues
  PROVE  LET allowed == Allowed(in.fixed, FieldOfFrame(in, F), F.values) IN
         /\ From(in, CallOf(F)).words =
              UNION {Prefixed(v - 1, From(in, CallFor(in, F, v)).words) : v \in allowed}
         /\ From(in, CallOf(F)).missing = UNION {From(in, CallFor(in, F, v)).missing : v \in allowed}
         /\ allowed \subseteq 1..Len(F.values) /\ Len(F.values) \in Nat
<1> DEFINE i == F.index
           c == F.context
           allowed == Allowed(in.fixed, FieldOfFrame(in, F), F.values)
<1>1. /\ F \in Frames(in) /\ ~ Unresolved(in.fields[i], c)
      /\ F.values = Resolve(in.fields[i], c)
  BY DEF Holds, FieldOfFrame
<1>2. IsActive(in.fields[i], c)
  BY <1>1, Zenon DEF Resolve
<1>3. i \in 1..Len(in.fields) /\ c \in Contexts(in.fields)
  BY <1>1, FrameCalls
<1>4. \A v : CallFor(in, F, v) = Later(in, i, c, v)
  BY <1>1, Zenon DEF CallFor, Later, FieldOfFrame
<1>5. AllowedAt(in, i, c) = allowed
  BY <1>1 DEF AllowedAt, FieldOfFrame
<1>6. /\ From(in, CallOf(F)).words =
           UNION {Prefixed(v - 1, From(in, Later(in, i, c, v)).words) : v \in AllowedAt(in, i, c)}
      /\ From(in, CallOf(F)).missing =
           UNION {From(in, Later(in, i, c, v)).missing : v \in AllowedAt(in, i, c)}
  BY <1>1, <1>2, <1>3, FromActive, InputsAssumption DEF CallOf
<1>7. F.values \in Seq(Values(in.fields))
  BY <1>1 DEF Frames
<1>8. allowed \subseteq 1..Len(F.values) /\ Len(F.values) \in Nat
  BY <1>7 DEF Allowed
<1> HIDE DEF i, c, allowed
<1>9. From(in, CallOf(F)).words =
           UNION {Prefixed(v - 1, From(in, CallFor(in, F, v)).words) : v \in allowed}
  BY <1>4, <1>5, <1>6
<1>10. From(in, CallOf(F)).missing = UNION {From(in, CallFor(in, F, v)).missing : v \in allowed}
  BY <1>4, <1>5, <1>6
<1> QED BY <1>8, <1>9, <1>10 DEF allowed

\* A field that is met unresolved below a waiting frame is met below it.
LEMMA MissingBelow ==
  ASSUME NEW in \in Inputs, NEW L, NEW F, Waits(in, L, F),
         From(in, CallFor(in, F, F.try)).missing # {}
  PROVE  From(in, Root).missing # {}
<1>1. Holds(in, L, F, F.try - 1)
  BY DEF Waits
<1>2. From(in, CallOf(F)).missing # {}
  <2>1. CASE F.values = NoValues
    BY <1>1, <2>1, InactiveFrame
  <2>2. CASE F.values # NoValues
    <3>1. F.try \in Allowed(in.fixed, FieldOfFrame(in, F), F.values)
      BY <2>2 DEF Waits, Tried
    <3>2. From(in, CallOf(F)).missing =
            UNION {From(in, CallFor(in, F, v)).missing :
                     v \in Allowed(in.fixed, FieldOfFrame(in, F), F.values)}
      BY <1>1, <2>2, ActiveFrame
    <3> QED BY <3>1, <3>2
  <2> QED BY <2>1, <2>2
<1> QED BY <1>1, <1>2 DEF Holds

-----------------------------------------------------------------------------
\* What the loop of _build does to its frame.

\* What is held does not depend on the number of values tried.
LEMMA HoldsTry ==
  ASSUME NEW in, NEW L, NEW F, NEW k, Holds(in, L, F, k), NEW n \in Nat, n <= Len(F.values)
  PROVE  Holds(in, L, [F EXCEPT !.try = n], k)
<1> DEFINE G == [F EXCEPT !.try = n]
<1>1. F \in Frames(in)
  BY DEF Holds
<1>2. /\ G.index = F.index /\ G.context = F.context /\ G.values = F.values
      /\ G.branches = F.branches /\ G.try = n /\ G \in Frames(in)
  BY <1>1 DEF Frames
<1> HIDE DEF G
<1>3. /\ FieldOfFrame(in, G) = FieldOfFrame(in, F) /\ CallOf(G) = CallOf(F)
      /\ Tried(in, G, k) = Tried(in, F, k)
      /\ \A v : CallFor(in, G, v) = CallFor(in, F, v)
  BY <1>2, Zenon DEF FieldOfFrame, CallOf, Tried, CallFor
<1>4. Holds(in, L, G, k)
  BY <1>2, <1>3, Zenon DEF Holds
<1> QED BY <1>4 DEF G

LEMMA FrameTypes ==
  ASSUME NEW in, NEW L, NEW F, NEW k, Holds(in, L, F, k)
  PROVE  /\ F.try \in Nat /\ F.values \in Seq(Values(in.fields)) /\ Len(F.values) \in Nat
         /\ F.branches \in Branches /\ F.try <= Len(F.values)
         /\ F.values = NoValues => F.try = 0
<1>1. F \in Frames(in) /\ F.try <= Len(F.values)
  BY DEF Holds
<1>2. /\ F.try \in Nat /\ F.values \in Seq(Values(in.fields)) /\ F.branches \in Branches
  BY <1>1 DEF Frames
<1>3. Len(F.values) \in Nat /\ (F.values = NoValues => Len(F.values) = 0)
  BY <1>2 DEF NoValues
<1> QED BY <1>1, <1>2, <1>3

LEMMA SkipFrame ==
  ASSUME NEW in, NEW L, NEW F, Loops(in, L, F), F.try < Len(F.values),
         F.try + 1 \notin Allowed(in.fixed, FieldOfFrame(in, F), F.values)
  PROVE  Loops(in, L, [F EXCEPT !.try = F.try + 1])
<1> DEFINE G == [F EXCEPT !.try = F.try + 1]
<1>1. Holds(in, L, F, F.try) /\ F.values # NoValues
  BY DEF Loops
<1>2. F.try \in Nat /\ Len(F.values) \in Nat
  BY <1>1, FrameTypes
<1>3. Holds(in, L, G, F.try)
  <2>1. F.try + 1 \in Nat /\ F.try + 1 <= Len(F.values)
    BY <1>2
  <2> QED BY <1>1, <2>1, HoldsTry
<1>4. G.values = F.values /\ G.try = F.try + 1 /\ FieldOfFrame(in, G) = FieldOfFrame(in, F)
  BY <1>1 DEF Holds, Frames, FieldOfFrame
<1> HIDE DEF G
<1>5. Tried(in, G, F.try + 1) = Tried(in, G, F.try)
  <2>1. \A k \in Int : k \in 1..F.try + 1 <=> k \in 1..F.try \/ k = F.try + 1
    BY <1>2
  <2> QED BY <1>4, <2>1 DEF Tried
<1>6. Holds(in, L, G, F.try + 1)
  BY <1>3, <1>5, Zenon DEF Holds
<1> QED BY <1>1, <1>4, <1>6 DEF Loops, G

LEMMA TryFrame ==
  ASSUME NEW in, NEW L, NEW F, Loops(in, L, F), F.try < Len(F.values),
         F.try + 1 \in Allowed(in.fixed, FieldOfFrame(in, F), F.values)
  PROVE  Waits(in, L, [F EXCEPT !.try = F.try + 1])
<1> DEFINE G == [F EXCEPT !.try = F.try + 1]
<1>1. Holds(in, L, F, F.try) /\ F.values # NoValues
  BY DEF Loops
<1>2. F.try \in Nat /\ Len(F.values) \in Nat
  BY <1>1, FrameTypes
<1>3. Holds(in, L, G, F.try)
  <2>1. F.try + 1 \in Nat /\ F.try + 1 <= Len(F.values)
    BY <1>2
  <2> QED BY <1>1, <2>1, HoldsTry
<1>4. G.values = F.values /\ G.try = F.try + 1 /\ FieldOfFrame(in, G) = FieldOfFrame(in, F)
  BY <1>1 DEF Holds, Frames, FieldOfFrame
<1> HIDE DEF G
<1>5. G.try - 1 = F.try /\ G.try \in 1..G.try
  BY <1>2, <1>4
<1>6. G.try \in Tried(in, G, G.try)
  BY <1>4, <1>5 DEF Tried
<1> QED BY <1>3, <1>5, <1>6 DEF Waits, G

\* An answer is settled: the branches grow by a live one.
Branch(F, t) == [value |-> F.try - 1, target |-> t]
LEMMA TakeDead ==
  ASSUME NEW in, NEW L, NEW F, Waits(in, L, F), F.values # NoValues,
         Right(in, L, CallFor(in, F, F.try), Dead)
  PROVE  Loops(in, L, F)
<1>1. Holds(in, L, F, F.try - 1) /\ F.try \in Tried(in, F, F.try)
  BY DEF Waits
<1>2. F.try \in Nat
  BY <1>1, FrameTypes
<1>3. \A v \in Tried(in, F, F.try) : v \in Tried(in, F, F.try - 1) \/ v = F.try
  BY <1>2 DEF Tried
<1>4. Tried(in, F, F.try - 1) \subseteq Tried(in, F, F.try)
  BY <1>2 DEF Tried
<1>5. /\ From(in, CallFor(in, F, F.try)).missing = {}
      /\ From(in, CallFor(in, F, F.try)).words = {}
  BY DEF Right
<1>6. Holds(in, L, F, F.try)
  BY <1>1, <1>3, <1>4, <1>5, Zenon DEF Holds
<1> QED BY <1>6 DEF Loops

LEMMA TakeLive ==
  ASSUME NEW in, NEW L, NEW F, Waits(in, L, F), F.values # NoValues, NEW t, t # Dead,
         Right(in, L, CallFor(in, F, F.try), t),
         DOMAIN L \subseteq {End} \cup {Name(k) : k \in Nat}
  PROVE  Loops(in, L, [F EXCEPT !.branches = Append(F.branches, Branch(F, t))])
<1> DEFINE bs == F.branches
           cs == Append(bs, Branch(F, t))
           G == [F EXCEPT !.branches = cs]
           try == F.try
<1>1. Holds(in, L, F, try - 1) /\ try \in Tried(in, F, try)
  BY DEF Waits
<1>2. /\ try \in Nat /\ try >= 1 /\ bs \in Branches
      /\ F \in Frames(in) /\ try <= Len(F.values)
  <2>1. try \in 1..try
    BY <1>1 DEF Tried
  <2>2. try \in Nat /\ bs \in Branches /\ try <= Len(F.values)
    BY <1>1, FrameTypes
  <2>3. F \in Frames(in)
    BY <1>1 DEF Holds
  <2> QED BY <2>1, <2>2, <2>3
<1>3. Branch(F, t) \in [value : Nat, target : {End} \cup {Name(k) : k \in Nat}]
  <2>1. t \in {End} \cup {Name(k) : k \in Nat}
    BY DEF Right
  <2>2. try - 1 \in Nat
    BY <1>2
  <2> HIDE DEF try
  <2> QED BY <2>1, <2>2 DEF Branch, try
<1>4. /\ cs \in Branches /\ DOMAIN bs = 1..Len(bs) /\ Len(bs) \in Nat
      /\ DOMAIN cs = 1..Len(bs) + 1
      /\ \A b \in DOMAIN bs : cs[b] = bs[b]
      /\ cs[Len(bs) + 1] = Branch(F, t)
  <2> HIDE DEF bs
  <2> QED BY <1>2, <1>3 DEF Branches
<1>5. /\ G \in Frames(in) /\ G.branches = cs /\ G.index = F.index /\ G.context = F.context
      /\ G.values = F.values /\ G.try = try
  <2> HIDE DEF cs
  <2> QED BY <1>2, <1>4 DEF Frames
<1> HIDE DEF G
<1>6. /\ FieldOfFrame(in, G) = FieldOfFrame(in, F) /\ CallOf(G) = CallOf(F)
      /\ \A k : Tried(in, G, k) = Tried(in, F, k)
      /\ \A v : CallFor(in, G, v) = CallFor(in, F, v)
  BY <1>5, Zenon DEF FieldOfFrame, CallOf, Tried, CallFor
<1>7. \A v \in Tried(in, F, try) : v \in Tried(in, F, try - 1) \/ v = try
  BY <1>2 DEF Tried
<1>8. Tried(in, F, try - 1) \subseteq Tried(in, F, try)
  BY <1>2 DEF Tried
<1>9. \A b \in DOMAIN bs : bs[b].value \in Nat /\ bs[b].value + 1 \in Tried(in, F, try - 1)
  <2>1. \A b \in DOMAIN bs : bs[b].value + 1 \in Tried(in, F, try - 1)
    BY <1>1 DEF Holds
  <2> HIDE DEF bs
  <2>2. ASSUME NEW b \in DOMAIN bs PROVE bs[b].value \in Nat
    <3>1. bs[b] \in [value : Nat, target : {End} \cup {Name(k) : k \in Nat}]
      BY <1>2, SeqElement DEF Branches
    <3> QED BY <3>1
  <2> QED BY <2>1, <2>2
<1>10. Branch(F, t).value = try - 1 /\ Branch(F, t).target = t
  BY DEF Branch
<1> HIDE DEF cs, bs, try
<1>11. Rising(cs)
  <2>1. Rising(bs)
    BY <1>1 DEF Holds, bs
  <2>2. \A b \in DOMAIN bs : bs[b].value < try - 1
    BY <1>2, <1>9 DEF Tried
  <2>3. ASSUME NEW a \in DOMAIN cs, NEW b \in DOMAIN cs, a < b PROVE cs[a].value < cs[b].value
    <3>1. a \in DOMAIN bs /\ a \in Nat /\ b \in Nat
      BY <1>4, <2>3
    <3>2. CASE b \in DOMAIN bs
      BY <1>4, <2>1, <2>3, <3>1, <3>2 DEF Rising
    <3>3. CASE b = Len(bs) + 1
      BY <1>4, <1>10, <2>2, <3>1, <3>3
    <3> QED BY <1>4, <3>2, <3>3
  <2> QED BY <2>3 DEF Rising
<1>12. ASSUME NEW b \in DOMAIN cs
       PROVE  /\ cs[b].value + 1 \in Tried(in, G, try)
              /\ Right(in, L, CallFor(in, G, cs[b].value + 1), cs[b].target)
              /\ cs[b].target # Dead
  <2>1. CASE b \in DOMAIN bs
    <3>1. /\ bs[b].value + 1 \in Tried(in, F, try - 1)
          /\ Right(in, L, CallFor(in, F, bs[b].value + 1), bs[b].target)
          /\ bs[b].target # Dead
      BY <1>1, <2>1 DEF Holds, bs
    <3> QED BY <1>4, <1>6, <1>8, <2>1, <3>1
  <2>2. CASE b = Len(bs) + 1
    <3>1. cs[b].value + 1 = try /\ cs[b].target = t
      BY <1>2, <1>4, <1>10, <2>2
    <3> QED BY <1>1, <1>6, <3>1 DEF try
  <2> QED BY <1>4, <2>1, <2>2
<1>13. ASSUME NEW v \in Tried(in, G, try)
       PROVE  /\ From(in, CallFor(in, G, v)).missing = {}
              /\ From(in, CallFor(in, G, v)).words # {} => \E b \in DOMAIN cs : cs[b].value = v - 1
  <2>1. CASE v \in Tried(in, F, try - 1)
    <3>1. /\ From(in, CallFor(in, F, v)).missing = {}
          /\ From(in, CallFor(in, F, v)).words # {} => \E b \in DOMAIN bs : bs[b].value = v - 1
      BY <1>1, <2>1 DEF Holds, bs
    <3>2. DOMAIN bs \subseteq DOMAIN cs
      BY <1>4
    <3> QED BY <1>4, <1>6, <3>1, <3>2
  <2>2. CASE v = try
    <3>1. From(in, CallFor(in, G, v)).missing = {}
      BY <1>6, <2>2 DEF Right, try
    <3>2. Len(bs) + 1 \in DOMAIN cs /\ cs[Len(bs) + 1].value = v - 1
      BY <1>4, <1>10, <2>2
    <3> QED BY <3>1, <3>2
  <2> QED BY <1>6, <1>7, <2>1, <2>2
<1>14. Holds(in, L, G, try)
  <2>1. /\ IF F.values = NoValues THEN ~ IsActive(FieldOfFrame(in, F), F.context)
           ELSE /\ ~ Unresolved(FieldOfFrame(in, F), F.context)
                /\ F.values = Resolve(FieldOfFrame(in, F), F.context)
        /\ From(in, CallOf(F)).missing # {} => From(in, Root).missing # {}
    BY <1>1, Zenon DEF Holds
  <2>2. G.try <= Len(G.values)
    BY <1>2, <1>5
  <2> QED BY <1>5, <1>6, <1>11, <1>12, <1>13, <2>1, <2>2, Zenon DEF Holds
<1> QED BY <1>5, <1>14 DEF Loops, G, cs, bs, try

LEMMA PrefixedFacts ==
  ASSUME NEW token, NEW words
  PROVE  Prefixed(token, words) = {} <=> words = {}
BY DEF Prefixed

\* When the loop is over, the branches join to the words of the call.
LEMMA CloseFrame ==
  ASSUME NEW in \in Inputs, NEW L, NEW F, Loops(in, L, F), F.try = Len(F.values)
  PROVE  /\ From(in, CallOf(F)).missing = {}
         /\ From(in, CallOf(F)).words = Joined(F.branches, L)
         /\ F.branches = <<>> <=> From(in, CallOf(F)).words = {}
<1> DEFINE allowed == Allowed(in.fixed, FieldOfFrame(in, F), F.values)
           bs == F.branches
           W(v) == From(in, CallFor(in, F, v)).words
<1>1. Holds(in, L, F, Len(F.values)) /\ F.values # NoValues
  BY DEF Loops
<1>2. /\ From(in, CallOf(F)).words = UNION {Prefixed(v - 1, W(v)) : v \in allowed}
      /\ From(in, CallOf(F)).missing = UNION {From(in, CallFor(in, F, v)).missing : v \in allowed}
      /\ allowed \subseteq 1..Len(F.values)
  BY <1>1, ActiveFrame
<1>3. Tried(in, F, Len(F.values)) = allowed
  BY <1>2 DEF Tried
<1>4. \A v \in allowed : From(in, CallFor(in, F, v)).missing = {}
  BY <1>1, <1>3, Zenon DEF Holds
<1>5. \A v \in allowed : W(v) # {} => \E b \in DOMAIN bs : bs[b].value = v - 1
  BY <1>1, <1>3, Zenon DEF Holds
<1>6. \A b \in DOMAIN bs :
        /\ bs[b].value + 1 \in allowed
        /\ Right(in, L, CallFor(in, F, bs[b].value + 1), bs[b].target)
        /\ bs[b].target # Dead
  BY <1>1, <1>3, Zenon DEF Holds
<1>7. bs \in Branches
  BY <1>1, FrameTypes
<1> HIDE DEF bs
<1>8. \A b \in DOMAIN bs : bs[b].value \in Nat
  <2>1. ASSUME NEW b \in DOMAIN bs PROVE bs[b].value \in Nat
    <3>1. bs[b] \in [value : Nat, target : {End} \cup {Name(k) : k \in Nat}]
      BY <1>7, SeqElement DEF Branches
    <3> QED BY <3>1
  <2> QED BY <2>1
<1>9. \A b \in DOMAIN bs : L[bs[b].target] = W(bs[b].value + 1) /\ W(bs[b].value + 1) # {}
  BY <1>6 DEF Right, LangOf
<1> HIDE DEF allowed, W
<1>10. ASSUME NEW v \in allowed, NEW x \in Prefixed(v - 1, W(v))
       PROVE  x \in Joined(bs, L)
  <2>1. W(v) # {}
    BY PrefixedFacts
  <2>2. PICK b \in DOMAIN bs : bs[b].value = v - 1
    BY <1>5, <2>1
  <2>3. bs[b].value + 1 = v
    BY <1>2, <1>8, <2>2
  <2>4. Prefixed(bs[b].value, L[bs[b].target]) = Prefixed(v - 1, W(v))
    BY <1>9, <2>2, <2>3
  <2> QED BY <2>4 DEF Joined
<1>11. ASSUME NEW x \in Joined(bs, L) PROVE \E v \in allowed : x \in Prefixed(v - 1, W(v))
  <2>1. PICK b \in DOMAIN bs : x \in Prefixed(bs[b].value, L[bs[b].target])
    BY DEF Joined
  <2>2. bs[b].value = (bs[b].value + 1) - 1
    BY <1>8
  <2> QED BY <1>6, <1>9, <2>1, <2>2
<1>12. From(in, CallOf(F)).words = Joined(bs, L)
  BY <1>2, <1>10, <1>11
<1>13. From(in, CallOf(F)).missing = {}
  BY <1>2, <1>4
<1>14. ASSUME bs # <<>> PROVE From(in, CallOf(F)).words # {}
  <2>1. 1 \in DOMAIN bs
    BY <1>7, <1>14 DEF Branches
  <2>2. Prefixed(bs[1].value, L[bs[1].target]) # {}
    BY <1>9, <2>1, PrefixedFacts
  <2> QED BY <1>12, <2>1, <2>2 DEF Joined
<1>15. ASSUME bs = <<>> PROVE From(in, CallOf(F)).words = {}
  <2>1. DOMAIN bs = {}
    BY <1>15
  <2> QED BY <1>12, <2>1 DEF Joined
<1> QED BY <1>12, <1>13, <1>14, <1>15 DEF bs

\* A new frame.
FrameFor(call, values) ==
  [index |-> call.index, context |-> call.context, values |-> values,
   try |-> 0, branches |-> <<>>]

LEMMA NewFrame ==
  ASSUME NEW in \in Inputs, NEW L, NEW call \in Calls(in), call.index \in 1..Len(in.fields),
         NEW values \in Seq(Values(in.fields)), NEW k \in {0, -1},
         IF values = NoValues THEN ~ IsActive(in.fields[call.index], call.context)
         ELSE /\ ~ Unresolved(in.fields[call.index], call.context)
              /\ values = Resolve(in.fields[call.index], call.context),
         From(in, call).missing # {} => From(in, Root).missing # {}
  PROVE  /\ Holds(in, L, FrameFor(call, values), k)
         /\ CallOf(FrameFor(call, values)) = call
<1> DEFINE F == FrameFor(call, values)
<1>1. /\ F.index = call.index /\ F.context = call.context /\ F.values = values
      /\ F.try = 0 /\ F.branches = <<>>
  BY DEF FrameFor
<1>2. call.context \in Contexts(in.fields) /\ call = Call(call.index, call.context)
  BY DEF Calls, Call
<1>3. F \in Frames(in)
  <2>1. <<>> \in Branches
    BY DEF Branches
  <2> QED BY <1>2, <2>1 DEF FrameFor, Frames
<1> HIDE DEF F
<1>4. CallOf(F) = call
  BY <1>1, <1>2 DEF CallOf
<1>5. FieldOfFrame(in, F) = in.fields[call.index]
  BY <1>1 DEF FieldOfFrame
<1>6. Tried(in, F, k) = {}
  BY DEF Tried
<1>7. F.try <= Len(F.values)
  BY <1>1
<1>8. DOMAIN F.branches = {}
  BY <1>1
<1>9. Rising(F.branches)
  BY <1>8 DEF Rising
<1>10. IF F.values = NoValues THEN ~ IsActive(FieldOfFrame(in, F), F.context)
       ELSE /\ ~ Unresolved(FieldOfFrame(in, F), F.context)
            /\ F.values = Resolve(FieldOfFrame(in, F), F.context)
  BY <1>1, <1>5
<1>11. From(in, CallOf(F)).missing # {} => From(in, Root).missing # {}
  BY <1>4
<1>12. Holds(in, L, F, k)
  BY <1>3, <1>6, <1>7, <1>8, <1>9, <1>10, <1>11, Zenon DEF Holds
<1> QED BY <1>4, <1>12 DEF F

-----------------------------------------------------------------------------
\* The stack of frames.

LEMMA PushFacts ==
  ASSUME NEW S, NEW s \in Seq(S), NEW e \in S
  PROVE  /\ Append(s, e) \in Seq(S) /\ Len(Append(s, e)) = Len(s) + 1 /\ Len(s) \in Nat
         /\ Append(s, e)[Len(s) + 1] = e /\ Append(s, e) # <<>>
         /\ \A j \in 1..Len(s) : Append(s, e)[j] = s[j]
OBVIOUS

LEMMA PopFacts ==
  ASSUME NEW S, NEW s \in Seq(S), s # <<>>
  PROVE  LET u == SubSeq(s, 1, Len(s) - 1) IN
         /\ Len(s) \in Nat /\ Len(s) >= 1 /\ s[Len(s)] \in S
         /\ u \in Seq(S) /\ Len(u) = Len(s) - 1
         /\ \A j \in 1..Len(s) - 1 : u[j] = s[j]
<1> DEFINE n == Len(s) - 1
           u == SubSeq(s, 1, n)
<1>1. Len(s) \in Nat /\ Len(s) >= 1 /\ n \in Nat /\ n <= Len(s)
  OBVIOUS
<1>2. s[Len(s)] \in S
  BY <1>1
<1>3. \A j \in 1..n : s[j] \in S
  BY <1>1
<1> HIDE DEF n
<1>4. u = [j \in 1..n |-> s[j]]
  BY <1>1
<1>5. u \in Seq(S) /\ Len(u) = n /\ \A j \in 1..n : u[j] = s[j]
  BY <1>1, <1>3, <1>4
<1> QED BY <1>1, <1>2, <1>5 DEF n

LEMMA SetTopFacts ==
  ASSUME NEW S, NEW s \in Seq(S), s # <<>>, NEW e \in S
  PROVE  LET t == Append(SubSeq(s, 1, Len(s) - 1), e) IN
         /\ Len(s) \in Nat /\ Len(s) >= 1
         /\ t \in Seq(S) /\ t # <<>> /\ Len(t) = Len(s) /\ t[Len(s)] = e
         /\ \A j \in 1..Len(s) - 1 : t[j] = s[j]
<1> DEFINE u == SubSeq(s, 1, Len(s) - 1)
<1>1. /\ Len(s) \in Nat /\ Len(s) >= 1
      /\ u \in Seq(S) /\ Len(u) = Len(s) - 1
      /\ \A j \in 1..Len(s) - 1 : u[j] = s[j]
  BY PopFacts
<1> HIDE DEF u
<1>2. /\ Append(u, e) \in Seq(S) /\ Len(Append(u, e)) = Len(u) + 1
      /\ Append(u, e)[Len(u) + 1] = e /\ Append(u, e) # <<>>
      /\ \A j \in 1..Len(u) : Append(u, e)[j] = u[j]
  BY <1>1, PushFacts
<1>3. Len(u) + 1 = Len(s)
  BY <1>1
<1> QED BY <1>1, <1>2, <1>3 DEF u

LEMMA EmptyDomain ==
  ASSUME NEW S, NEW s \in Seq(S), DOMAIN s = {}
  PROVE  s = <<>>
<1>1. Len(s) \in Nat /\ DOMAIN s = 1..Len(s)
  OBVIOUS
<1>2. ~ (1 <= Len(s))
  BY <1>1
<1> QED BY <1>1, <1>2

LEMMA EmptyOrNot ==
  ASSUME NEW S, NEW s \in Seq(S)
  PROVE  s = <<>> <=> Len(s) = 0
OBVIOUS

LEMMA StackPush ==
  ASSUME NEW in, NEW L, NEW s, Stacked(in, L, s, FALSE), NEW F \in Frames(in),
         CallOf(F) = Pending(in, s), NEW looping \in BOOLEAN,
         looping => Loops(in, L, F), ~ looping => Waits(in, L, F)
  PROVE  Stacked(in, L, Append(s, F), looping)
<1> DEFINE t == Append(s, F)
<1>1. /\ s \in Seq(Frames(in)) /\ Chained(in, s)
      /\ \A j \in 1..Len(s) : Waits(in, L, s[j])
  BY Zenon DEF Stacked
<1>2. /\ t \in Seq(Frames(in)) /\ Len(t) = Len(s) + 1 /\ Len(s) \in Nat
      /\ t[Len(s) + 1] = F /\ t # <<>>
      /\ \A j \in 1..Len(s) : t[j] = s[j]
  BY <1>1, PushFacts
<1> HIDE DEF t
<1>3. \A j \in 1..Len(t) : IF j = Len(t) /\ looping THEN Loops(in, L, t[j]) ELSE Waits(in, L, t[j])
  <2>1. \A j \in 1..Len(t) : j \in 1..Len(s) \/ j = Len(s) + 1
    BY <1>2
  <2>2. \A j \in 1..Len(s) : j # Len(t)
    BY <1>2
  <2> QED BY <1>1, <1>2, <2>1, <2>2
<1>4. CallOf(t[1]) = Root
  <2>1. CASE s = <<>>
    <3>1. t[1] = F /\ Pending(in, s) = Root
      BY <1>2, <2>1 DEF Pending
    <3> QED BY <3>1
  <2>2. CASE s # <<>>
    <3>1. 1 \in 1..Len(s)
      BY <1>1, <1>2, <2>2, EmptyOrNot
    <3> QED BY <1>1, <1>2, <2>2, <3>1 DEF Chained
  <2> QED BY <2>1, <2>2
<1>5. ASSUME NEW j \in 1..Len(t) - 1 PROVE CallOf(t[j + 1]) = CallFor(in, t[j], t[j].try)
  <2>1. j \in 1..Len(s) /\ t[j] = s[j]
    BY <1>2
  <2>2. CASE j = Len(s)
    <3>1. s # <<>>
      BY <1>1, <1>2, <2>1, EmptyOrNot
    <3>2. Pending(in, s) = CallFor(in, s[j], s[j].try)
      BY <2>2, <3>1 DEF Pending
    <3> QED BY <1>2, <2>1, <2>2, <3>2
  <2>3. CASE j # Len(s)
    <3>1. j \in 1..Len(s) - 1 /\ t[j + 1] = s[j + 1]
      BY <1>2, <2>1, <2>3
    <3>2. CallOf(s[j + 1]) = CallFor(in, s[j], s[j].try)
      BY <1>1, <3>1 DEF Chained
    <3> QED BY <2>1, <3>1, <3>2
  <2> QED BY <2>2, <2>3
<1>6. ASSUME NEW j \in 1..Len(t) PROVE t[j].index = j
  <2>1. CASE j \in 1..Len(s)
    BY <1>1, <1>2, <2>1 DEF Chained
  <2>2. CASE j = Len(s) + 1
    <3>1. F.index = Pending(in, s).index
      BY DEF CallOf, Call
    <3>2. CASE s = <<>>
      BY <1>2, <2>2, <3>1, <3>2 DEF Pending, Root, Call
    <3>3. CASE s # <<>>
      <4>1. Len(s) \in 1..Len(s)
        BY <1>1, <1>2, <3>3, EmptyOrNot
      <4>2. s[Len(s)].index = Len(s)
        BY <1>1, <4>1 DEF Chained
      <4>3. Pending(in, s).index = s[Len(s)].index + 1
        BY <3>3 DEF Pending, CallFor, Call
      <4> QED BY <1>2, <2>2, <3>1, <4>2, <4>3
    <3> QED BY <3>2, <3>3
  <2> QED BY <1>2, <2>1, <2>2
<1>7. Chained(in, t)
  BY <1>4, <1>5, <1>6 DEF Chained
<1> QED BY <1>2, <1>3, <1>7 DEF Stacked, t

LEMMA StackPop ==
  ASSUME NEW in, NEW L, NEW s, s # <<>>, NEW looping, Stacked(in, L, s, looping)
  PROVE  LET u == SubSeq(s, 1, Len(s) - 1) IN
         /\ Stacked(in, L, u, FALSE)
         /\ Pending(in, u) = CallOf(s[Len(s)])
         /\ Len(s) \in Nat /\ Len(s) >= 1 /\ s[Len(s)] \in Frames(in) /\ Len(u) = Len(s) - 1
         /\ \A j \in 1..Len(s) : s[j].index = j
         /\ \A j \in 1..Len(s) - 1 : u[j] = s[j]
<1> DEFINE u == SubSeq(s, 1, Len(s) - 1)
<1>1. /\ s \in Seq(Frames(in)) /\ Chained(in, s)
      /\ \A j \in 1..Len(s) :
           IF j = Len(s) /\ looping THEN Loops(in, L, s[j]) ELSE Waits(in, L, s[j])
  BY Zenon DEF Stacked
<1>2. /\ Len(s) \in Nat /\ Len(s) >= 1 /\ s[Len(s)] \in Frames(in)
      /\ u \in Seq(Frames(in)) /\ Len(u) = Len(s) - 1
      /\ \A j \in 1..Len(s) - 1 : u[j] = s[j]
  BY <1>1, PopFacts
<1> HIDE DEF u
<1>3. \A j \in 1..Len(u) : Waits(in, L, u[j])
  <2>1. \A j \in 1..Len(u) : j \in 1..Len(s) /\ j # Len(s) /\ u[j] = s[j]
    BY <1>2
  <2> QED BY <1>1, <2>1
<1>6. \A j \in 1..Len(s) : s[j].index = j
  BY <1>1 DEF Chained
<1>7. Chained(in, u)
  <2>1. u # <<>> => CallOf(u[1]) = Root
    <3>1. u # <<>> => 1 \in 1..Len(s) - 1
      BY <1>2, EmptyOrNot
    <3> QED BY <1>1, <1>2, <3>1 DEF Chained
  <2>2. ASSUME NEW j \in 1..Len(u) - 1 PROVE CallOf(u[j + 1]) = CallFor(in, u[j], u[j].try)
    <3>1. j \in 1..Len(s) - 1 /\ u[j] = s[j] /\ u[j + 1] = s[j + 1]
      BY <1>2
    <3> QED BY <1>1, <3>1 DEF Chained
  <2>3. \A j \in 1..Len(u) : u[j].index = j
    BY <1>2, <1>6
  <2> QED BY <2>1, <2>2, <2>3 DEF Chained
<1>8. Stacked(in, L, u, FALSE)
  BY <1>2, <1>3, <1>7 DEF Stacked
<1>9. Pending(in, u) = CallOf(s[Len(s)])
  <2>1. CASE u = <<>>
    <3>1. Len(s) = 1
      BY <1>2, <2>1
    <3>2. CallOf(s[1]) = Root
      BY <1>1 DEF Chained
    <3> QED BY <2>1, <3>1, <3>2 DEF Pending
  <2>2. CASE u # <<>>
    <3>1. Len(u) \in 1..Len(s) - 1 /\ Len(u) + 1 = Len(s) /\ u[Len(u)] = s[Len(u)]
      BY <1>2, <2>2, EmptyOrNot
    <3>2. CallOf(s[Len(u) + 1]) = CallFor(in, s[Len(u)], s[Len(u)].try)
      BY <1>1, <3>1 DEF Chained
    <3> QED BY <2>2, <3>1, <3>2 DEF Pending
  <2> QED BY <2>1, <2>2
<1> QED BY <1>2, <1>6, <1>8, <1>9 DEF u

\* Another frame for the same call on top.
LEMMA StackTop ==
  ASSUME NEW in, NEW L, NEW s, s # <<>>, NEW before, Stacked(in, L, s, before),
         NEW G \in Frames(in), CallOf(G) = CallOf(s[Len(s)]), NEW after \in BOOLEAN,
         after => Loops(in, L, G), ~ after => Waits(in, L, G)
  PROVE  Stacked(in, L, Append(SubSeq(s, 1, Len(s) - 1), G), after)
<1> DEFINE u == SubSeq(s, 1, Len(s) - 1)
<1>1. Stacked(in, L, u, FALSE) /\ Pending(in, u) = CallOf(s[Len(s)])
  BY StackPop
<1> HIDE DEF u
<1>2. Stacked(in, L, Append(u, G), after)
  BY <1>1, StackPush
<1> QED BY <1>2 DEF u

\* The frame on top in each phase.
LEMMA TopFacts ==
  ASSUME NEW in, NEW L, NEW s, s # <<>>, NEW looping, Stacked(in, L, s, looping)
  PROVE  /\ s[Len(s)] \in Frames(in) /\ s[Len(s)].index = Len(s)
         /\ looping => Loops(in, L, s[Len(s)])
         /\ ~ looping => Waits(in, L, s[Len(s)])
<1>1. /\ s \in Seq(Frames(in)) /\ Chained(in, s)
      /\ \A j \in 1..Len(s) :
           IF j = Len(s) /\ looping THEN Loops(in, L, s[j]) ELSE Waits(in, L, s[j])
  BY Zenon DEF Stacked
<1>2. Len(s) \in 1..Len(s) /\ s[Len(s)] \in Frames(in)
  BY <1>1, PopFacts
<1> QED BY <1>1, <1>2 DEF Chained

-----------------------------------------------------------------------------
\* Parts of the invariant that a step may leave alone.

LEMMA NameFacts ==
  /\ End # Dead /\ \A k : Name(k) # End /\ Name(k) # Dead
  /\ \A j, k : Name(j) = Name(k) => j = k
<1>1. End # Dead
  BY DEF End, Dead
<1>2. \A k : Name(k) # End /\ Name(k) # Dead
  BY DEF Name, End, Dead
<1>3. ASSUME NEW j, NEW k, Name(j) = Name(k) PROVE j = k
  <2>1. Name(j)[2] = j /\ Name(k)[2] = k
    BY DEF Name
  <2> QED BY <1>3, <2>1
<1> QED BY <1>1, <1>2, <1>3

LEMMA GraphFacts ==
  ASSUME NEW L, Graph(L)
  PROVE  /\ counter \in Nat /\ DOMAIN L = Names(counter) /\ End \in DOMAIN L
         /\ Dead \notin DOMAIN L
         /\ DOMAIN L \subseteq {End} \cup {Name(k) : k \in Nat}
<1>1. counter \in Nat /\ L = [n \in Names(counter) |-> L[n]]
  BY DEF Graph
<1>2. DOMAIN L = Names(counter)
  BY <1>1
<1>3. Dead \notin Names(counter)
  BY NameFacts DEF Names
<1>4. Names(counter) \subseteq {End} \cup {Name(k) : k \in Nat} /\ End \in Names(counter)
  BY <1>1 DEF Names
<1> QED BY <1>1, <1>2, <1>3, <1>4

LEMMA GraphSame ==
  ASSUME NEW L, Graph(L), UNCHANGED <<nodes, counter>>
  PROVE  Graph(L)'
BY DEF Graph

LEMMA MemoSame ==
  ASSUME NEW in, NEW L, Memo(in, L), UNCHANGED <<memo, counter>>
  PROVE  Memo(in, L)'
BY DEF Memo

LEMMA MemoAdd ==
  ASSUME NEW in, NEW L, Memo(in, L), UNCHANGED counter,
         NEW call \in Calls(in), NEW t, Right(in, L, call, t),
         KeyOf(in, call) \notin DOMAIN memo, Remember(KeyOf(in, call), t)
  PROVE  Memo(in, L)'
<1> DEFINE key == KeyOf(in, call)
<1> HIDE DEF key
<1>1. /\ DOMAIN memo' = DOMAIN memo \cup {key}
      /\ memo'[key] = t /\ \A k \in DOMAIN memo : memo'[k] = memo[k]
  BY DEF Remember, key
<1>2. IsFiniteSet(DOMAIN memo')
  BY <1>1, FS_AddElement DEF Memo
<1>3. ASSUME NEW k \in DOMAIN memo'
      PROVE  \E c \in Calls(in) : KeyOf(in, c) = k /\ Right(in, L, c, memo'[k])
  <2>1. CASE k = key
    BY <1>1, <2>1 DEF key
  <2>2. CASE k \in DOMAIN memo
    BY <1>1, <2>2 DEF Memo
  <2> QED BY <1>1, <2>1, <2>2
<1>4. ASSUME NEW k \in 0..counter - 1 PROVE \E x \in DOMAIN memo' : memo'[x] = Name(k)
  <2>1. PICK x \in DOMAIN memo : memo[x] = Name(k)
    BY DEF Memo
  <2> QED BY <1>1, <2>1
<1>5. counter' = counter
  OBVIOUS
<1> QED BY <1>2, <1>3, <1>4, <1>5 DEF Memo

\* How the stack or the answer uses a node.
InStack(s, k) == \E j \in 1..Len(s) : LedTo(s[j].branches, k)
Held(k) ==
  \/ InStack(stack, k)
  \/ phase \in {"return", "done", "empty"} /\ answer = Name(k)

LEMMA UsedSame ==
  ASSUME Used, UNCHANGED <<nodes, counter>>, \A k \in 0..counter - 1 : Held(k) => Held(k)'
  PROVE  Used'
<1>1. ASSUME NEW k \in 0..counter - 1
      PROVE  (\E j \in k + 1..counter - 1 : LedTo(nodes[Name(j)].branches, k)) \/ Held(k)'
  <2>1. (\E j \in k + 1..counter - 1 : LedTo(nodes[Name(j)].branches, k)) \/ Held(k)
    BY DEF Used, Held, InStack
  <2> QED BY <2>1
<1> QED BY <1>1 DEF Used, Held, InStack

LEMMA InStackPush ==
  ASSUME NEW S, NEW s \in Seq(S), NEW e \in S, NEW k, InStack(s, k)
  PROVE  InStack(Append(s, e), k)
<1>1. PICK j \in 1..Len(s) : LedTo(s[j].branches, k)
  BY DEF InStack
<1>2. j \in 1..Len(Append(s, e)) /\ Append(s, e)[j] = s[j]
  BY PushFacts
<1> QED BY <1>1, <1>2 DEF InStack

LEMMA InStackPop ==
  ASSUME NEW S, NEW s \in Seq(S), s # <<>>, NEW k, InStack(s, k), ~ LedTo(s[Len(s)].branches, k)
  PROVE  InStack(SubSeq(s, 1, Len(s) - 1), k)
<1>1. PICK j \in 1..Len(s) : LedTo(s[j].branches, k)
  BY DEF InStack
<1> DEFINE u == SubSeq(s, 1, Len(s) - 1)
<1>2. Len(s) \in Nat /\ Len(u) = Len(s) - 1 /\ \A i \in 1..Len(s) - 1 : u[i] = s[i]
  BY PopFacts
<1> HIDE DEF u
<1>3. j # Len(s)
  BY <1>1
<1>4. j \in 1..Len(u) /\ u[j] = s[j]
  BY <1>2, <1>3
<1> QED BY <1>1, <1>4 DEF InStack, u

LEMMA InStackTop ==
  ASSUME NEW S, NEW s \in Seq(S), s # <<>>, NEW e \in S, NEW k,
         InStack(s, k), LedTo(s[Len(s)].branches, k) => LedTo(e.branches, k)
  PROVE  InStack(Append(SubSeq(s, 1, Len(s) - 1), e), k)
<1> DEFINE t == Append(SubSeq(s, 1, Len(s) - 1), e)
<1>1. /\ Len(s) \in Nat /\ Len(s) >= 1 /\ Len(t) = Len(s) /\ t[Len(s)] = e
      /\ \A j \in 1..Len(s) - 1 : t[j] = s[j]
  BY SetTopFacts
<1> HIDE DEF t
<1>2. PICK j \in 1..Len(s) : LedTo(s[j].branches, k)
  BY DEF InStack
<1>3. LedTo(t[j].branches, k)
  <2>1. CASE j = Len(s)
    BY <1>1, <1>2, <2>1
  <2>2. CASE j # Len(s)
    <3>1. j \in 1..Len(s) - 1
      BY <1>1, <2>2
    <3> QED BY <1>1, <1>2, <3>1
  <2> QED BY <2>1, <2>2
<1> QED BY <1>1, <1>3 DEF InStack, t

\* A call that is pending is below the first one.
LEMMA MissingPending ==
  ASSUME NEW in \in Inputs, NEW L, NEW s, Stacked(in, L, s, FALSE),
         From(in, Pending(in, s)).missing # {}
  PROVE  From(in, Root).missing # {}
<1>1. CASE s = <<>>
  BY <1>1 DEF Pending
<1>2. CASE s # <<>>
  <2>1. Waits(in, L, s[Len(s)])
    BY <1>2, TopFacts
  <2>2. Pending(in, s) = CallFor(in, s[Len(s)], s[Len(s)].try)
    BY <1>2 DEF Pending
  <2> QED BY <2>1, <2>2, MissingBelow
<1> QED BY <1>1, <1>2

\* Keys of open frames: the frames below have earlier fields.
LEMMA OpenPush ==
  ASSUME NEW in, NEW S, NEW s \in Seq(S), NEW F \in S, NEW m, OpenIn(in, s, m),
         KeyOf(in, CallOf(F)) \notin DOMAIN m
  PROVE  OpenIn(in, Append(s, F), m)
<1> DEFINE t == Append(s, F)
<1>1. Len(s) \in Nat /\ Len(t) = Len(s) + 1 /\ t[Len(s) + 1] = F /\ \A j \in 1..Len(s) : t[j] = s[j]
  BY PushFacts
<1> HIDE DEF t
<1>2. \A j \in 1..Len(t) : j \in 1..Len(s) \/ j = Len(s) + 1
  BY <1>1
<1> QED BY <1>1, <1>2 DEF OpenIn, t

LEMMA OpenTop ==
  ASSUME NEW in, NEW S, NEW s \in Seq(S), s # <<>>, NEW G \in S, NEW m, OpenIn(in, s, m),
         CallOf(G) = CallOf(s[Len(s)])
  PROVE  OpenIn(in, Append(SubSeq(s, 1, Len(s) - 1), G), m)
<1> DEFINE t == Append(SubSeq(s, 1, Len(s) - 1), G)
<1>1. /\ Len(s) \in Nat /\ Len(s) >= 1 /\ Len(t) = Len(s) /\ t[Len(s)] = G
      /\ \A j \in 1..Len(s) - 1 : t[j] = s[j]
  BY SetTopFacts
<1> HIDE DEF t
<1>2. \A j \in 1..Len(t) : j \in 1..Len(s) /\ (j \in 1..Len(s) - 1 \/ j = Len(s))
  BY <1>1
<1> QED BY <1>1, <1>2 DEF OpenIn, t

LEMMA OpenPop ==
  ASSUME NEW in, NEW L, NEW s, s # <<>>, NEW looping, Stacked(in, L, s, looping),
         NEW m, NEW n, OpenIn(in, s, m),
         DOMAIN n = DOMAIN m \cup {KeyOf(in, CallOf(s[Len(s)]))}
  PROVE  OpenIn(in, SubSeq(s, 1, Len(s) - 1), n)
<1> DEFINE u == SubSeq(s, 1, Len(s) - 1)
<1>1. /\ Len(s) \in Nat /\ Len(s) >= 1 /\ Len(u) = Len(s) - 1
      /\ \A j \in 1..Len(s) : s[j].index = j
      /\ \A j \in 1..Len(s) - 1 : u[j] = s[j]
  <2>1. s \in Seq(Frames(in)) /\ \A j \in 1..Len(s) : s[j].index = j
    BY Zenon DEF Stacked, Chained
  <2> QED BY <2>1, PopFacts
<1> HIDE DEF u
<1>2. ASSUME NEW j \in 1..Len(u) PROVE KeyOf(in, CallOf(u[j])) \notin DOMAIN n
  <2>1. j \in 1..Len(s) - 1 /\ j \in 1..Len(s) /\ Len(s) \in 1..Len(s) /\ j # Len(s)
    BY <1>1
  <2>2. u[j] = s[j] /\ KeyOf(in, CallOf(s[j])) \notin DOMAIN m
    BY <1>1, <2>1 DEF OpenIn
  <2>3. s[j].index # s[Len(s)].index
    BY <1>1, <2>1
  <2>4. KeyOf(in, CallOf(s[j])) # KeyOf(in, CallOf(s[Len(s)]))
    BY <2>3 DEF KeyOf, CallOf, Call
  <2> QED BY <2>2, <2>4
<1> QED BY <1>2 DEF OpenIn, u

-----------------------------------------------------------------------------
\* One step at a time.

LEMMA GoodInit ==
  ASSUME Init PROVE Good(input, [n \in {End} |-> {<<>>}])
<1> DEFINE L == [n \in {End} |-> {<<>>}]
<1>1. /\ input \in Inputs /\ phase = "new" /\ stack = <<>> /\ arg = Root /\ memo = <<>> /\ counter = 0
      /\ DOMAIN nodes = {End}
  BY DEF Init, Root
<1>2. Names(0) = {End}
  BY DEF Names
<1>3. Graph(L)
  BY <1>1, <1>2 DEF Graph
<1>4. Memo(input, L)
  <2>1. DOMAIN memo = {}
    BY <1>1
  <2>2. IsFiniteSet({})
    BY FS_EmptySet
  <2> QED BY <1>1, <2>1, <2>2 DEF Memo
<1> HIDE DEF L
<1>5. Running(input, L)
  BY <1>1 DEF Running
<1>6. Used
  BY <1>1 DEF Used
<1> QED BY <1>3, <1>4, <1>5, <1>6 DEF Good, L

LEMMA WhenCalling ==
  ASSUME NEW in \in Inputs, NEW L, Good(in, L), phase = "call"
  PROVE  /\ input = in /\ Stacked(in, L, stack, FALSE) /\ OpenIn(in, stack, memo)
         /\ arg = Pending(in, stack) /\ arg \in Calls(in) /\ stack \in Seq(Frames(in))
         /\ arg.context \in Contexts(in.fields) /\ arg = Call(arg.index, arg.context)
         /\ From(in, arg).missing # {} => From(in, Root).missing # {}
         /\ AtEnd => arg.index = Len(in.fields) + 1
         /\ ~ AtEnd => arg.index \in 1..Len(in.fields)
         /\ Field = in.fields[arg.index] /\ ArgKey = KeyOf(in, arg)
<1>1. /\ input = in /\ Stacked(in, L, stack, FALSE) /\ OpenIn(in, stack, memo)
      /\ arg = Pending(in, stack) /\ arg \in Calls(in)
  BY DEF Good, Running
<1>2. stack \in Seq(Frames(in))
  BY <1>1, Zenon DEF Stacked
<1>3. From(in, arg).missing # {} => From(in, Root).missing # {}
  BY <1>1, MissingPending
<1>4. /\ arg.context \in Contexts(in.fields) /\ arg = Call(arg.index, arg.context)
      /\ arg.index \in 1..Len(in.fields) + 1
  BY <1>1 DEF Calls, Call
<1>5. Len(in.fields) \in Nat
  BY InputFacts, InputsAssumption
<1>6. AtEnd <=> arg.index > Len(in.fields)
  BY <1>1 DEF AtEnd, Fields
<1>7. Field = in.fields[arg.index] /\ ArgKey = KeyOf(in, arg)
  BY <1>1, Zenon DEF Field, Fields, ArgKey, Key, KeyOf
<1>8. /\ AtEnd => arg.index = Len(in.fields) + 1
      /\ ~ AtEnd => arg.index \in 1..Len(in.fields)
  BY <1>4, <1>5, <1>6
<1> QED BY <1>1, <1>2, <1>3, <1>4, <1>7, <1>8

LEMMA WhenReturning ==
  ASSUME NEW in, NEW L, Good(in, L), phase = "return"
  PROVE  /\ input = in /\ Stacked(in, L, stack, FALSE) /\ OpenIn(in, stack, memo)
         /\ Right(in, L, Pending(in, stack), answer) /\ stack \in Seq(Frames(in))
         /\ stack # <<>> =>
              /\ Top = stack[Len(stack)] /\ Waits(in, L, Top) /\ Top \in Frames(in)
              /\ Pending(in, stack) = CallFor(in, Top, Top.try)
              /\ TopKey = KeyOf(in, CallOf(Top))
<1>1. /\ input = in /\ Stacked(in, L, stack, FALSE) /\ OpenIn(in, stack, memo)
      /\ Right(in, L, Pending(in, stack), answer)
  BY DEF Good, Running
<1>2. stack \in Seq(Frames(in))
  BY <1>1, Zenon DEF Stacked
<1>3. ASSUME stack # <<>>
      PROVE  /\ Top = stack[Len(stack)] /\ Waits(in, L, Top) /\ Top \in Frames(in)
             /\ Pending(in, stack) = CallFor(in, Top, Top.try)
             /\ TopKey = KeyOf(in, CallOf(Top))
  <2>1. Top = stack[Len(stack)]
    BY DEF Top
  <2>2. Waits(in, L, Top) /\ Top \in Frames(in)
    BY <1>1, <1>3, <2>1, TopFacts
  <2>3. Pending(in, stack) = CallFor(in, Top, Top.try)
    BY <1>3, <2>1 DEF Pending
  <2>4. TopKey = KeyOf(in, CallOf(Top))
    BY <1>1 DEF TopKey, Key, Fields, KeyOf, CallOf, Call
  <2> QED BY <2>1, <2>2, <2>3, <2>4
<1> QED BY <1>1, <1>2, <1>3

LEMMA WhenLooping ==
  ASSUME NEW in, NEW L, Good(in, L), phase = "loop"
  PROVE  /\ input = in /\ Stacked(in, L, stack, TRUE) /\ OpenIn(in, stack, memo)
         /\ stack # <<>> /\ stack \in Seq(Frames(in))
         /\ Top = stack[Len(stack)] /\ Loops(in, L, Top) /\ Top \in Frames(in)
         /\ Top.try \in Nat /\ Len(Top.values) \in Nat /\ Top.values # NoValues
         /\ TopField = FieldOfFrame(in, Top) /\ TopKey = KeyOf(in, CallOf(Top))
<1>1. /\ input = in /\ Stacked(in, L, stack, TRUE) /\ OpenIn(in, stack, memo) /\ stack # <<>>
  BY DEF Good, Running
<1>2. stack \in Seq(Frames(in))
  BY <1>1, Zenon DEF Stacked
<1>3. Top = stack[Len(stack)]
  BY DEF Top
<1>4. Loops(in, L, Top) /\ Top \in Frames(in)
  BY <1>1, <1>3, TopFacts
<1>5. Top.try \in Nat /\ Len(Top.values) \in Nat /\ Top.values # NoValues
  BY <1>4, FrameTypes DEF Loops
<1>6. TopField = FieldOfFrame(in, Top) /\ TopKey = KeyOf(in, CallOf(Top))
  BY <1>1 DEF TopField, TopKey, Key, Fields, FieldOfFrame, KeyOf, CallOf, Call
<1> QED BY <1>1, <1>2, <1>3, <1>4, <1>5, <1>6

LEMMA GoodConstruct ==
  ASSUME NEW in \in Inputs, NEW L, Good(in, L), Construct
  PROVE  Good(in, L)'
<1>1. /\ phase = "new" /\ phase' \in {"call", "invalid"}
      /\ UNCHANGED <<input, stack, arg, answer, memo, nodes, counter>>
  BY DEF Construct
<1>2. /\ input = in /\ Graph(L) /\ Memo(in, L) /\ Used /\ stack = <<>> /\ arg = Root
  BY <1>1 DEF Good, Running
<1>3. Graph(L)' /\ Memo(in, L)'
  BY <1>1, <1>2, GraphSame, MemoSame
<1>4. Used'
  <2>1. \A k : Held(k) => Held(k)'
    BY <1>1 DEF Held
  <2> QED BY <1>1, <1>2, <2>1, UsedSame
<1>5. Stacked(in, L, <<>>, FALSE) /\ OpenIn(in, <<>>, memo')
  BY DEF Stacked, Chained, OpenIn
<1>6. Root \in Calls(in)
  <2>1. Len(in.fields) \in Nat /\ Nothing \in Contexts(in.fields)
    BY InputFacts, NothingType, InputsAssumption
  <2> QED BY <2>1 DEF Root, Call, Calls
<1>7. Running(in, L)'
  BY <1>1, <1>2, <1>5, <1>6 DEF Running, Pending
<1> QED BY <1>1, <1>2, <1>3, <1>4, <1>7 DEF Good

\* A call that returns at once.
LEMMA GoodReturn ==
  ASSUME NEW in \in Inputs, NEW L, Good(in, L), phase = "call",
         NEW t, Return(t), Right(in, L, arg, t), UNCHANGED <<input, stack, arg, nodes, counter>>,
         Memo(in, L)', OpenIn(in, stack, memo')
  PROVE  Good(in, L)'
<1>1. /\ input = in /\ Stacked(in, L, stack, FALSE) /\ arg = Pending(in, stack)
  BY WhenCalling
<1>2. phase' = "return" /\ answer' = t
  BY DEF Return
<1>3. Graph(L)'
  BY GraphSame DEF Good
<1>4. Used'
  <2>1. \A k : Held(k) => Held(k)'
    BY DEF Held
  <2> QED BY <2>1, UsedSame DEF Good
<1>5. Running(in, L)'
  BY <1>1, <1>2 DEF Running
<1> QED BY <1>1, <1>3, <1>4, <1>5 DEF Good

LEMMA GoodCallEnd ==
  ASSUME NEW in \in Inputs, NEW L, Good(in, L), CallEnd
  PROVE  Good(in, L)'
<1>1. /\ phase = "call" /\ AtEnd /\ Return(End)
      /\ UNCHANGED <<input, stack, arg, memo, nodes, counter>>
  BY DEF CallEnd
<1>2. /\ arg.context \in Contexts(in.fields) /\ arg = Call(arg.index, arg.context)
      /\ arg.index = Len(in.fields) + 1 /\ OpenIn(in, stack, memo)
  BY <1>1, WhenCalling
<1>3. From(in, arg) = [words |-> {<<>>}, missing |-> {}]
  BY <1>2, FromEnd, InputsAssumption
<1>4. From(in, arg).words = {<<>>} /\ From(in, arg).missing = {}
  BY <1>3
<1>5. End \in DOMAIN L /\ L[End] = {<<>>}
  BY GraphFacts DEF Good, Graph
<1>6. Right(in, L, arg, End)
  BY <1>4, <1>5, NameFacts DEF Right, LangOf
<1>7. Memo(in, L)'
  BY <1>1, MemoSame DEF Good
<1> QED BY <1>1, <1>2, <1>6, <1>7, GoodReturn

LEMMA GoodCallKnown ==
  ASSUME NEW in \in Inputs, NEW L, Good(in, L), CallKnown
  PROVE  Good(in, L)'
<1>1. /\ phase = "call" /\ ArgKey \in DOMAIN memo /\ Return(memo[ArgKey])
      /\ UNCHANGED <<input, stack, arg, memo, nodes, counter>>
  BY DEF CallKnown, Calling
<1>2. /\ arg \in Calls(in) /\ ArgKey = KeyOf(in, arg) /\ OpenIn(in, stack, memo)
  BY <1>1, WhenCalling
<1>3. PICK call \in Calls(in) :
        KeyOf(in, call) = ArgKey /\ Right(in, L, call, memo[ArgKey])
  BY <1>1 DEF Good, Memo
<1>4. Right(in, L, arg, memo[ArgKey])
  BY <1>2, <1>3, KeyFrom, RightSame
<1>5. Memo(in, L)'
  BY <1>1, MemoSame DEF Good
<1> QED BY <1>1, <1>2, <1>4, <1>5, GoodReturn

LEMMA GoodCallUnresolved ==
  ASSUME NEW in \in Inputs, NEW L, Good(in, L), CallUnresolved
  PROVE  Good(in, L)'
<1>1. /\ phase = "call" /\ ~ AtEnd /\ Unresolved(Field, arg.context) /\ phase' = "unresolved"
      /\ UNCHANGED <<input, stack, arg, answer, memo, nodes, counter>>
  BY DEF CallUnresolved, Unknown, Calling
<1>2. /\ arg.context \in Contexts(in.fields) /\ arg = Call(arg.index, arg.context)
      /\ arg.index \in 1..Len(in.fields) /\ Field = in.fields[arg.index]
      /\ From(in, arg).missing # {} => From(in, Root).missing # {}
      /\ input = in
  BY <1>1, WhenCalling
<1>3. From(in, arg).missing = {in.fields[arg.index].name}
  BY <1>1, <1>2, FromUnresolved, InputsAssumption
<1>4. From(in, Root).missing # {}
  BY <1>2, <1>3
<1>5. Running(in, L)'
  BY <1>1, <1>4 DEF Running
<1>6. Graph(L)' /\ Memo(in, L)'
  BY <1>1, GraphSame, MemoSame DEF Good
<1>7. Used'
  <2>1. \A k : Held(k) => Held(k)'
    BY <1>1 DEF Held
  <2> QED BY <1>1, <2>1, UsedSame DEF Good
<1> QED BY <1>1, <1>2, <1>5, <1>6, <1>7 DEF Good

\* A frame is pushed: its call waits for what it makes, or its loop begins.
LEMMA GoodPush ==
  ASSUME NEW in \in Inputs, NEW L, Good(in, L), phase = "call", ArgKey \notin DOMAIN memo,
         NEW F \in Frames(in), CallOf(F) = arg, stack' = Append(stack, F),
         UNCHANGED <<input, answer, memo, nodes, counter>>,
         \/ phase' = "loop" /\ Loops(in, L, F)
         \/ /\ phase' = "call" /\ Waits(in, L, F)
            /\ arg' = CallFor(in, F, F.try) /\ arg' \in Calls(in)
  PROVE  Good(in, L)'
<1>1. /\ input = in /\ Stacked(in, L, stack, FALSE) /\ OpenIn(in, stack, memo)
      /\ arg = Pending(in, stack) /\ stack \in Seq(Frames(in)) /\ ArgKey = KeyOf(in, arg)
  BY WhenCalling
<1>2. OpenIn(in, stack', memo')
  BY <1>1, OpenPush
<1>3. Graph(L)' /\ Memo(in, L)'
  BY GraphSame, MemoSame DEF Good
<1>4. Used'
  <2>1. ASSUME NEW k, Held(k) PROVE Held(k)'
    <3>1. InStack(stack, k)
      BY <2>1 DEF Held
    <3>2. InStack(stack', k)
      BY <1>1, <3>1, InStackPush
    <3> QED BY <3>2 DEF Held
  <2> QED BY <2>1, UsedSame DEF Good
<1>5. Running(in, L)'
  <2>1. CASE phase' = "loop" /\ Loops(in, L, F)
    <3>1. Stacked(in, L, stack', TRUE)
      BY <1>1, <2>1, StackPush
    <3>2. stack' # <<>>
      BY <1>1, PushFacts
    <3> QED BY <1>2, <2>1, <3>1, <3>2 DEF Running
  <2>2. CASE /\ phase' = "call" /\ Waits(in, L, F)
             /\ arg' = CallFor(in, F, F.try) /\ arg' \in Calls(in)
    <3>1. Stacked(in, L, stack', FALSE)
      BY <1>1, <2>2, StackPush
    <3>2. /\ stack' # <<>> /\ Len(stack') = Len(stack) + 1 /\ stack'[Len(stack) + 1] = F
      BY <1>1, PushFacts
    <3>3. arg' = Pending(in, stack')
      BY <2>2, <3>2 DEF Pending
    <3> QED BY <1>2, <2>2, <3>1, <3>3 DEF Running
  <2> QED BY <2>1, <2>2
<1> QED BY <1>1, <1>3, <1>4, <1>5 DEF Good

LEMMA GoodCallInactive ==
  ASSUME NEW in \in Inputs, NEW L, Good(in, L), CallInactive
  PROVE  Good(in, L)'
<1>1. /\ phase = "call" /\ ~ AtEnd /\ ArgKey \notin DOMAIN memo /\ ~ IsActive(Field, arg.context)
      /\ stack' = Append(stack, Frame(NoValues)) /\ arg' = Call(arg.index + 1, arg.context)
      /\ UNCHANGED <<input, phase, answer, memo, nodes, counter>>
  BY DEF CallInactive, Unknown, Calling
<1>2. /\ arg \in Calls(in) /\ arg.index \in 1..Len(in.fields) /\ Field = in.fields[arg.index]
      /\ From(in, arg).missing # {} => From(in, Root).missing # {}
  BY <1>1, WhenCalling
<1> DEFINE F == FrameFor(arg, NoValues)
<1>3. Frame(NoValues) = F
  BY DEF Frame, FrameFor
<1>4. NoValues \in Seq(Values(in.fields))
  BY DEF NoValues
<1>5. Holds(in, L, F, -1) /\ CallOf(F) = arg
  BY <1>1, <1>2, <1>4, NewFrame
<1>6. F.index = arg.index /\ F.context = arg.context /\ F.values = NoValues /\ F.try = 0
  BY DEF FrameFor
<1> HIDE DEF F
<1>7. F \in Frames(in)
  BY <1>5, Zenon DEF Holds
<1>8. Waits(in, L, F)
  <2>1. F.try - 1 = -1
    BY <1>6
  <2> QED BY <1>5, <1>6, <2>1 DEF Waits
<1>9. arg' = CallFor(in, F, F.try) /\ CallFor(in, F, F.try) \in Calls(in)
  <2>1. CallFor(in, F, F.try) = Call(arg.index + 1, arg.context)
    BY <1>6, Zenon DEF CallFor
  <2> QED BY <1>1, <1>6, <1>7, <2>1, FrameCalls
<1> QED BY <1>1, <1>3, <1>5, <1>7, <1>8, <1>9, GoodPush

LEMMA GoodCallField ==
  ASSUME NEW in \in Inputs, NEW L, Good(in, L), CallField
  PROVE  Good(in, L)'
<1> DEFINE values == Resolve(Field, arg.context)
<1>1. /\ phase = "call" /\ ~ AtEnd /\ ArgKey \notin DOMAIN memo
      /\ ~ Unresolved(Field, arg.context) /\ values # NoValues
      /\ stack' = Append(stack, Frame(values)) /\ phase' = "loop"
      /\ UNCHANGED <<input, arg, answer, memo, nodes, counter>>
  BY DEF CallField, Resolvable, Unknown, Calling
<1>2. /\ arg \in Calls(in) /\ arg.index \in 1..Len(in.fields) /\ Field = in.fields[arg.index]
      /\ From(in, arg).missing # {} => From(in, Root).missing # {}
  BY <1>1, WhenCalling
<1> DEFINE F == FrameFor(arg, values)
<1>3. Frame(values) = F
  BY DEF Frame, FrameFor
<1>4. values \in Seq(Values(in.fields))
  BY <1>1, <1>2, ResolveType, InputsAssumption
<1>5. Holds(in, L, F, 0) /\ CallOf(F) = arg
  <2>1. values = Resolve(in.fields[arg.index], arg.context)
    BY <1>2
  <2> HIDE DEF values
  <2> QED BY <1>1, <1>2, <1>4, <2>1, NewFrame
<1>6. F.values = values /\ F.try = 0
  BY DEF FrameFor
<1> HIDE DEF F, values
<1>7. F \in Frames(in)
  BY <1>5, Zenon DEF Holds
<1>8. Loops(in, L, F)
  BY <1>1, <1>5, <1>6 DEF Loops
<1> QED BY <1>1, <1>3, <1>5, <1>7, <1>8, GoodPush

LEMMA GoodCallDead ==
  ASSUME NEW in \in Inputs, NEW L, Good(in, L), CallDead
  PROVE  Good(in, L)'
<1>1. /\ phase = "call" /\ ~ AtEnd /\ ArgKey \notin DOMAIN memo
      /\ IsActive(Field, arg.context) /\ ~ Unresolved(Field, arg.context)
      /\ Resolve(Field, arg.context) = NoValues
      /\ Remember(ArgKey, Dead) /\ Return(Dead)
      /\ UNCHANGED <<input, stack, arg, nodes, counter>>
  BY DEF CallDead, Resolvable, Unknown, Calling
<1>2. /\ arg \in Calls(in) /\ arg.index \in 1..Len(in.fields) /\ Field = in.fields[arg.index]
      /\ arg.context \in Contexts(in.fields) /\ arg = Call(arg.index, arg.context)
      /\ ArgKey = KeyOf(in, arg) /\ OpenIn(in, stack, memo) /\ Stacked(in, L, stack, FALSE)
      /\ arg = Pending(in, stack) /\ stack \in Seq(Frames(in))
  BY <1>1, WhenCalling
<1>3. From(in, arg).words = {} /\ From(in, arg).missing = {}
  <2> DEFINE allowed == AllowedAt(in, arg.index, arg.context)
  <2>1. allowed = {}
    BY <1>1, <1>2 DEF AllowedAt, Allowed, NoValues
  <2>2. /\ From(in, arg).words =
             UNION {Prefixed(k - 1, From(in, Later(in, arg.index, arg.context, k)).words) : k \in allowed}
        /\ From(in, arg).missing =
             UNION {From(in, Later(in, arg.index, arg.context, k)).missing : k \in allowed}
    BY <1>1, <1>2, FromActive, InputsAssumption
  <2> HIDE DEF allowed
  <2> QED BY <2>1, <2>2
<1>4. Right(in, L, arg, Dead)
  BY <1>3 DEF Right, LangOf
<1>5. Memo(in, L)'
  BY <1>1, <1>2, <1>4, MemoAdd DEF Good
<1>6. OpenIn(in, stack, memo')
  <2>1. DOMAIN memo' = DOMAIN memo \cup {ArgKey}
    BY <1>1 DEF Remember
  <2>2. ASSUME NEW j \in 1..Len(stack) PROVE KeyOf(in, CallOf(stack[j])) # ArgKey
    <3>1. stack # <<>> /\ Len(stack) \in Nat
      BY <1>2, EmptyOrNot
    <3>2. Pending(in, stack) = CallFor(in, stack[Len(stack)], stack[Len(stack)].try)
      BY <3>1 DEF Pending
    <3>3. arg.index = stack[Len(stack)].index + 1
      BY <1>2, <3>2 DEF CallFor, Call
    <3>4. stack[Len(stack)].index = Len(stack) /\ stack[j].index = j
      BY <1>2, <3>1, Zenon, TopFacts DEF Stacked, Chained
    <3>5. arg.index # stack[j].index
      BY <3>1, <3>3, <3>4
    <3> QED BY <1>2, <3>5 DEF KeyOf, CallOf, Call
  <2> QED BY <1>2, <2>1, <2>2 DEF OpenIn
<1> QED BY <1>1, <1>4, <1>5, <1>6, GoodReturn

\* The frame on top takes another form.
LEMMA GoodTop ==
  ASSUME NEW in \in Inputs, NEW L, Good(in, L), phase \in {"loop", "return"}, stack # <<>>,
         NEW G \in Frames(in), CallOf(G) = CallOf(Top), SetTop(G),
         UNCHANGED <<input, memo, nodes, counter>>,
         \/ phase' = "loop" /\ Loops(in, L, G)
         \/ /\ phase' = "call" /\ Waits(in, L, G)
            /\ arg' = CallFor(in, G, G.try) /\ arg' \in Calls(in),
         \A k : LedTo(Top.branches, k) => LedTo(G.branches, k),
         \A k : phase = "return" /\ answer = Name(k) => LedTo(G.branches, k)
  PROVE  Good(in, L)'
<1> DEFINE looping == phase = "loop"
<1>1. /\ input = in /\ OpenIn(in, stack, memo) /\ stack \in Seq(Frames(in))
      /\ \E before \in BOOLEAN : Stacked(in, L, stack, before)
      /\ Top = stack[Len(stack)]
  <2>1. CASE phase = "loop"
    BY <2>1, WhenLooping
  <2>2. CASE phase = "return"
    BY <2>2, WhenReturning
  <2> QED BY <2>1, <2>2
<1>2. PICK before \in BOOLEAN : Stacked(in, L, stack, before)
  BY <1>1
<1>3. stack' = Append(SubSeq(stack, 1, Len(stack) - 1), G)
  BY DEF SetTop, Below
<1>4. OpenIn(in, stack', memo')
  BY <1>1, <1>3, OpenTop
<1>5. Graph(L)' /\ Memo(in, L)'
  BY GraphSame, MemoSame DEF Good
<1>6. /\ stack' # <<>> /\ Len(stack') = Len(stack) /\ stack'[Len(stack)] = G
      /\ Len(stack) \in 1..Len(stack')
  BY <1>1, <1>3, SetTopFacts
<1>7. Used'
  <2>1. ASSUME NEW k, Held(k) PROVE Held(k)'
    <3>1. CASE InStack(stack, k)
      <4>1. InStack(stack', k)
        BY <1>1, <1>3, <3>1, InStackTop
      <4> QED BY <4>1 DEF Held
    <3>2. CASE phase = "return" /\ answer = Name(k)
      <4>1. LedTo(G.branches, k)
        BY <3>2
      <4>2. InStack(stack', k)
        BY <1>6, <4>1 DEF InStack
      <4> QED BY <4>2 DEF Held
    <3> QED BY <2>1, <3>1, <3>2 DEF Held
  <2> QED BY <2>1, UsedSame DEF Good
<1>8. Running(in, L)'
  <2>1. CASE phase' = "loop" /\ Loops(in, L, G)
    <3>1. Stacked(in, L, stack', TRUE)
      BY <1>1, <1>2, <1>3, <2>1, StackTop
    <3> QED BY <1>4, <1>6, <2>1, <3>1 DEF Running
  <2>2. CASE /\ phase' = "call" /\ Waits(in, L, G)
             /\ arg' = CallFor(in, G, G.try) /\ arg' \in Calls(in)
    <3>1. Stacked(in, L, stack', FALSE)
      BY <1>1, <1>2, <1>3, <2>2, StackTop
    <3>2. arg' = Pending(in, stack')
      BY <1>6, <2>2 DEF Pending
    <3> QED BY <1>4, <2>2, <3>1, <3>2 DEF Running
  <2> QED BY <2>1, <2>2
<1> QED BY <1>1, <1>5, <1>7, <1>8 DEF Good

\* The value on trial and whether what is fixed excludes it.
LEMMA ExcludedFacts ==
  ASSUME NEW in, NEW L, Good(in, L), phase = "loop", Top.try < Len(Top.values)
  PROVE  /\ Excluded <=> Top.try + 1 \notin Allowed(in.fixed, FieldOfFrame(in, Top), Top.values)
         /\ Top.try + 1 \in 1..Len(Top.values)
<1>1. /\ input = in /\ Loops(in, L, Top) /\ TopField = FieldOfFrame(in, Top)
      /\ Top.try \in Nat /\ Len(Top.values) \in Nat
  BY WhenLooping
<1>2. Top.values \in Seq(Values(in.fields))
  BY <1>1, FrameTypes DEF Loops
<1>3. Top.try + 1 \in 1..Len(Top.values) /\ DOMAIN Top.values = 1..Len(Top.values)
  BY <1>1, <1>2
<1>4. Fixed = in.fixed
  BY <1>1 DEF Fixed
<1>5. Excluded <=> Top.try + 1 \notin Allowed(in.fixed, FieldOfFrame(in, Top), Top.values)
  BY <1>1, <1>3, <1>4 DEF Excluded, Value, Allowed
<1> QED BY <1>3, <1>5

LEMMA FrameTry ==
  ASSUME NEW in, NEW F \in Frames(in), NEW n
  PROVE  LET G == [F EXCEPT !.try = n] IN
         /\ CallOf(G) = CallOf(F) /\ G.branches = F.branches /\ G.try = n
         /\ G.index = F.index /\ G.context = F.context /\ G.values = F.values
<1> DEFINE G == [F EXCEPT !.try = n]
<1>1. /\ G.branches = F.branches /\ G.try = n
      /\ G.index = F.index /\ G.context = F.context /\ G.values = F.values
  BY DEF Frames
<1> HIDE DEF G
<1>2. CallOf(G) = CallOf(F)
  BY <1>1 DEF CallOf
<1> QED BY <1>1, <1>2 DEF G

LEMMA GoodSkipValue ==
  ASSUME NEW in \in Inputs, NEW L, Good(in, L), SkipValue
  PROVE  Good(in, L)'
<1> DEFINE G == [Top EXCEPT !.try = Top.try + 1]
<1>1. /\ phase = "loop" /\ Top.try < Len(Top.values) /\ Excluded /\ SetTop(G)
      /\ UNCHANGED <<input, phase, arg, answer, memo, nodes, counter>>
  BY DEF SkipValue
<1>2. stack # <<>> /\ Loops(in, L, Top) /\ Top \in Frames(in)
  BY <1>1, WhenLooping
<1>3. Top.try + 1 \notin Allowed(in.fixed, FieldOfFrame(in, Top), Top.values)
  BY <1>1, ExcludedFacts
<1>4. Loops(in, L, G)
  BY <1>1, <1>2, <1>3, SkipFrame
<1>5. CallOf(G) = CallOf(Top) /\ G.branches = Top.branches
  BY <1>2, FrameTry
<1> HIDE DEF G
<1>6. G \in Frames(in)
  BY <1>4, Zenon DEF Loops, Holds
<1> QED BY <1>1, <1>2, <1>4, <1>5, <1>6, GoodTop

LEMMA GoodTryValue ==
  ASSUME NEW in \in Inputs, NEW L, Good(in, L), TryValue
  PROVE  Good(in, L)'
<1> DEFINE G == [Top EXCEPT !.try = Top.try + 1]
<1>1. /\ phase = "loop" /\ Top.try < Len(Top.values) /\ ~ Excluded /\ SetTop(G)
      /\ arg' = Call(Top.index + 1, With(Top.context, TopField.name, Value)) /\ phase' = "call"
      /\ UNCHANGED <<input, answer, memo, nodes, counter>>
  BY DEF TryValue
<1>2. /\ stack # <<>> /\ Loops(in, L, Top) /\ Top \in Frames(in) /\ Top.values # NoValues
      /\ TopField = FieldOfFrame(in, Top)
  BY <1>1, WhenLooping
<1>3. /\ Top.try + 1 \in Allowed(in.fixed, FieldOfFrame(in, Top), Top.values)
      /\ Top.try + 1 \in 1..Len(Top.values)
  BY <1>1, ExcludedFacts
<1>4. Waits(in, L, G)
  BY <1>1, <1>2, <1>3, TryFrame
<1>5. /\ CallOf(G) = CallOf(Top) /\ G.branches = Top.branches /\ G.try = Top.try + 1
      /\ G.index = Top.index /\ G.context = Top.context /\ G.values = Top.values
  BY <1>2, FrameTry
<1> HIDE DEF G
<1>6. G \in Frames(in)
  BY <1>4, Zenon DEF Waits, Holds
<1>7. arg' = CallFor(in, G, G.try)
  <2>1. FieldOfFrame(in, G) = FieldOfFrame(in, Top)
    BY <1>5 DEF FieldOfFrame
  <2>2. CallFor(in, G, G.try) =
          Call(Top.index + 1, With(Top.context, FieldOfFrame(in, Top).name, Top.values[Top.try + 1]))
    BY <1>2, <1>5, <2>1, Zenon DEF CallFor
  <2> QED BY <1>1, <1>2, <2>2 DEF Value
<1>8. arg' \in Calls(in)
  BY <1>3, <1>5, <1>6, <1>7, FrameCalls
<1> QED BY <1>1, <1>2, <1>4, <1>5, <1>6, <1>7, <1>8, GoodTop

LEMMA GoodTakeAnswer ==
  ASSUME NEW in \in Inputs, NEW L, Good(in, L), TakeAnswer
  PROVE  Good(in, L)'
<1> DEFINE G == [Top EXCEPT !.branches = Append(Top.branches, Branch(Top, answer))]
<1>1. /\ phase = "return" /\ stack # <<>> /\ Top.values # NoValues /\ phase' = "loop"
      /\ SetTop(IF Kept(answer) THEN G ELSE Top)
      /\ UNCHANGED <<input, arg, answer, memo, nodes, counter>>
  BY DEF TakeAnswer, Branch, Number
<1>2. /\ Waits(in, L, Top) /\ Top \in Frames(in)
      /\ Right(in, L, CallFor(in, Top, Top.try), answer)
  BY <1>1, WhenReturning
<1>3. CASE answer = Dead
  <2>1. SetTop(Top)
    BY <1>1, <1>3, Zenon DEF Kept
  <2>2. Loops(in, L, Top)
    BY <1>1, <1>2, <1>3, TakeDead
  <2>3. \A k : answer # Name(k)
    BY <1>3, NameFacts
  <2> QED BY <1>1, <1>2, <2>1, <2>2, <2>3, GoodTop
<1>4. CASE answer # Dead
  <2>1. SetTop(G)
    BY <1>1, <1>4, Zenon DEF Kept
  <2>2. DOMAIN L \subseteq {End} \cup {Name(k) : k \in Nat}
    BY GraphFacts DEF Good
  <2>3. Loops(in, L, G)
    BY <1>1, <1>2, <1>4, <2>2, TakeLive
  <2> DEFINE bs == Top.branches
             cs == Append(bs, Branch(Top, answer))
  <2>4. G.branches = cs /\ G.index = Top.index /\ G.context = Top.context
    BY <1>2 DEF Frames
  <2>5. Top.branches \in Branches
    BY <1>2, Zenon, FrameTypes DEF Waits
  <2>6. /\ DOMAIN bs \subseteq DOMAIN cs /\ \A b \in DOMAIN bs : cs[b] = bs[b]
        /\ Len(bs) + 1 \in DOMAIN cs /\ cs[Len(bs) + 1] = Branch(Top, answer)
    <3> HIDE DEF bs
    <3>1. PICK S : bs \in Seq(S)
      BY <2>5 DEF Branches, bs
    <3> QED BY <3>1
  <2> HIDE DEF G, cs
  <2>7. CallOf(G) = CallOf(Top)
    BY <2>4 DEF CallOf
  <2>8. \A k : LedTo(Top.branches, k) => LedTo(G.branches, k)
    BY <2>4, <2>6 DEF LedTo
  <2>9. \A k : answer = Name(k) => LedTo(G.branches, k)
    BY <2>4, <2>6 DEF LedTo, Branch
  <2>10. G \in Frames(in)
    BY <2>3, Zenon DEF Loops, Holds
  <2> QED BY <1>1, <2>1, <2>3, <2>7, <2>8, <2>9, <2>10, GoodTop
<1> QED BY <1>3, <1>4

\* The frame on top returns its answer.
LEMMA GoodPop ==
  ASSUME NEW in \in Inputs, NEW L, Good(in, L), phase \in {"loop", "return"}, stack # <<>>,
         NEW t, Return(t), stack' = Below, UNCHANGED input,
         NEW M, Grows(L, M), Graph(M)', Memo(in, M)', Right(in, M, CallOf(Top), t),
         DOMAIN memo' = DOMAIN memo \cup {TopKey}, Used'
  PROVE  Good(in, M)'
<1>1. /\ input = in /\ OpenIn(in, stack, memo) /\ TopKey = KeyOf(in, CallOf(Top))
      /\ \E before \in BOOLEAN : Stacked(in, L, stack, before)
      /\ Top = stack[Len(stack)]
  <2>1. CASE phase = "loop"
    BY <2>1, WhenLooping
  <2>2. CASE phase = "return"
    BY <2>2, WhenReturning
  <2> QED BY <2>1, <2>2
<1>2. PICK before \in BOOLEAN : Stacked(in, L, stack, before)
  BY <1>1
<1>3. stack' = SubSeq(stack, 1, Len(stack) - 1) /\ phase' = "return" /\ answer' = t
  BY DEF Below, Return
<1>4. Stacked(in, L, stack', FALSE) /\ Pending(in, stack') = CallOf(Top)
  <2>1. /\ Stacked(in, L, SubSeq(stack, 1, Len(stack) - 1), FALSE)
        /\ Pending(in, SubSeq(stack, 1, Len(stack) - 1)) = CallOf(stack[Len(stack)])
    BY <1>2, StackPop
  <2> QED BY <1>1, <1>3, <2>1, Zenon
<1>5. Stacked(in, M, stack', FALSE)
  BY <1>4, StackedGrows
<1>6. OpenIn(in, stack', memo')
  BY <1>1, <1>2, <1>3, OpenPop
<1>7. Running(in, M)'
  BY <1>3, <1>4, <1>5, <1>6 DEF Running
<1> QED BY <1>1, <1>7 DEF Good

LEMMA OpenTopKey ==
  ASSUME NEW in, NEW S, stack \in Seq(S), stack # <<>>, OpenIn(in, stack, memo)
  PROVE  KeyOf(in, CallOf(Top)) \notin DOMAIN memo
<1>1. Len(stack) \in 1..Len(stack)
  BY PopFacts
<1> QED BY <1>1 DEF OpenIn, Top

LEMMA GoodPassAnswer ==
  ASSUME NEW in \in Inputs, NEW L, Good(in, L), PassAnswer
  PROVE  Good(in, L)'
<1>1. /\ phase = "return" /\ phase' = "return" /\ stack # <<>> /\ Top.values = NoValues
      /\ Remember(TopKey, answer) /\ stack' = Below
      /\ UNCHANGED <<input, arg, answer, nodes, counter>>
  BY DEF PassAnswer
<1>2. /\ Waits(in, L, Top) /\ Top \in Frames(in) /\ stack \in Seq(Frames(in))
      /\ Right(in, L, CallFor(in, Top, Top.try), answer) /\ OpenIn(in, stack, memo)
      /\ TopKey = KeyOf(in, CallOf(Top))
  BY <1>1, WhenReturning
<1>3. From(in, CallOf(Top)) = From(in, CallFor(in, Top, Top.try))
  BY <1>1, <1>2, InactiveFrame DEF Waits
<1>4. Right(in, L, CallOf(Top), answer)
  BY <1>2, <1>3, RightSame DEF SameFrom
<1>5. CallOf(Top) \in Calls(in) /\ TopKey \notin DOMAIN memo
  BY <1>1, <1>2, FrameCalls, OpenTopKey
<1>6. Memo(in, L)'
  BY <1>1, <1>2, <1>4, <1>5, MemoAdd DEF Good
<1>7. Graph(L)'
  BY <1>1, GraphSame DEF Good
<1>8. DOMAIN memo' = DOMAIN memo \cup {TopKey}
  BY <1>1 DEF Remember
<1>9. Top.branches = <<>>
  <2>1. Holds(in, L, Top, Top.try - 1) /\ Top.try = 0
    BY <1>1, <1>2, FrameTypes DEF Waits
  <2>2. \A b \in DOMAIN Top.branches : Top.branches[b].value + 1 \in Tried(in, Top, Top.try - 1)
    BY <2>1, Zenon DEF Holds
  <2>3. Tried(in, Top, Top.try - 1) = {}
    BY <2>1 DEF Tried
  <2>4. DOMAIN Top.branches = {}
    BY <2>2, <2>3
  <2>5. Top.branches \in Branches
    BY <2>1, FrameTypes
  <2>6. PICK S : Top.branches \in Seq(S)
    BY <2>5 DEF Branches
  <2> QED BY <2>4, <2>6, EmptyDomain
<1>10. Used'
  <2>1. ASSUME NEW k, Held(k) PROVE Held(k)'
    <3>1. CASE InStack(stack, k)
      <4>1. ~ LedTo(stack[Len(stack)].branches, k)
        BY <1>9 DEF Top, LedTo
      <4>2. InStack(Below, k)
        BY <1>1, <1>2, <3>1, <4>1, InStackPop DEF Below
      <4> QED BY <1>1, <4>2 DEF Held
    <3>2. CASE answer = Name(k)
      BY <1>1, <3>2 DEF Held
    <3> QED BY <2>1, <3>1, <3>2 DEF Held
  <2> QED BY <1>1, <2>1, UsedSame DEF Good
<1>11. Return(answer) /\ Grows(L, L)
  BY <1>1 DEF Return, Grows
<1> QED BY <1>1, <1>4, <1>6, <1>7, <1>8, <1>10, <1>11, GoodPop

LEMMA GoodCloseDead ==
  ASSUME NEW in \in Inputs, NEW L, Good(in, L), CloseDead
  PROVE  Good(in, L)'
<1>1. /\ phase = "loop" /\ Top.try = Len(Top.values) /\ Top.branches = <<>>
      /\ Remember(TopKey, Dead) /\ Return(Dead) /\ stack' = Below
      /\ UNCHANGED <<input, arg, nodes, counter>>
  BY DEF CloseDead
<1>2. /\ Loops(in, L, Top) /\ Top \in Frames(in) /\ stack \in Seq(Frames(in)) /\ stack # <<>>
      /\ OpenIn(in, stack, memo) /\ TopKey = KeyOf(in, CallOf(Top))
  BY <1>1, WhenLooping
<1>3. From(in, CallOf(Top)).words = {} /\ From(in, CallOf(Top)).missing = {}
  BY <1>1, <1>2, CloseFrame
<1>4. Right(in, L, CallOf(Top), Dead)
  BY <1>3 DEF Right, LangOf
<1>5. CallOf(Top) \in Calls(in) /\ TopKey \notin DOMAIN memo
  BY <1>2, FrameCalls, OpenTopKey
<1>6. Memo(in, L)'
  BY <1>1, <1>2, <1>4, <1>5, MemoAdd DEF Good
<1>7. Graph(L)'
  BY <1>1, GraphSame DEF Good
<1>8. DOMAIN memo' = DOMAIN memo \cup {TopKey}
  BY <1>1 DEF Remember
<1>9. Used'
  <2>1. ASSUME NEW k, Held(k) PROVE Held(k)'
    <3>1. InStack(stack, k)
      BY <1>1, <2>1 DEF Held
    <3>2. ~ LedTo(stack[Len(stack)].branches, k)
      BY <1>1 DEF Top, LedTo
    <3>3. InStack(Below, k)
      BY <1>2, <3>1, <3>2, InStackPop DEF Below
    <3> QED BY <1>1, <3>3 DEF Held
  <2> QED BY <1>1, <2>1, UsedSame DEF Good
<1>10. Grows(L, L)
  BY DEF Grows
<1> QED BY <1>1, <1>2, <1>4, <1>6, <1>7, <1>8, <1>9, <1>10, GoodPop

\* The words once the branches have become node number counter.
Joins(L, bs) == [n \in Names(counter + 1) |-> IF n = Name(counter) THEN Joined(bs, L) ELSE L[n]]

LEMMA JoinsFacts ==
  ASSUME NEW L, Graph(L), NEW bs
  PROVE  /\ Names(counter + 1) = Names(counter) \cup {Name(counter)}
         /\ Name(counter) \notin Names(counter)
         /\ DOMAIN Joins(L, bs) = Names(counter + 1)
         /\ Joins(L, bs)[Name(counter)] = Joined(bs, L)
         /\ \A n \in Names(counter) : Joins(L, bs)[n] = L[n]
         /\ Grows(L, Joins(L, bs))
<1>1. counter \in Nat /\ DOMAIN L = Names(counter)
  BY GraphFacts
<1>2. 0..(counter + 1) - 1 = (0..counter - 1) \cup {counter}
  BY <1>1
<1>3. Names(counter + 1) = Names(counter) \cup {Name(counter)}
  BY <1>2 DEF Names
<1>4. Name(counter) \notin Names(counter)
  <2>1. counter \notin 0..counter - 1
    BY <1>1
  <2> QED BY <2>1, NameFacts DEF Names
<1>5. /\ DOMAIN Joins(L, bs) = Names(counter + 1)
      /\ Joins(L, bs)[Name(counter)] = Joined(bs, L)
      /\ \A n \in Names(counter) : Joins(L, bs)[n] = L[n]
  BY <1>3, <1>4 DEF Joins
<1> QED BY <1>1, <1>3, <1>4, <1>5 DEF Grows

LEMMA JoinedSame ==
  ASSUME NEW bs, NEW L, NEW M, \A b \in DOMAIN bs : M[bs[b].target] = L[bs[b].target]
  PROVE  Joined(bs, M) = Joined(bs, L)
BY DEF Joined

\* The branches of the frame that closes make a layer of their own.
LEMMA ClosingLayer ==
  ASSUME NEW in, NEW L, Graph(L), NEW F, Loops(in, L, F), F.branches # <<>>
  PROVE  Layered(counter, F.branches)
<1>1. Holds(in, L, F, F.try)
  BY DEF Loops
<1>2. F.branches \in Branches /\ Rising(F.branches)
  BY <1>1, FrameTypes, Zenon DEF Holds
<1>3. \A b \in DOMAIN F.branches : F.branches[b].target \in DOMAIN L \cup {Dead} /\ F.branches[b].target # Dead
  BY <1>1, Zenon DEF Holds, Right
<1>4. DOMAIN L = Names(counter)
  BY GraphFacts
<1> QED BY <1>2, <1>3, <1>4 DEF Layered

LEMMA GraphAdd ==
  ASSUME NEW L, Graph(L), NEW bs, Layered(counter, bs), counter' = counter + 1,
         DOMAIN nodes' = DOMAIN nodes \cup {Name(counter)},
         nodes'[Name(counter)].branches = bs,
         \A n \in DOMAIN nodes : n # Name(counter) => nodes'[n] = nodes[n],
         NEW M, M = Joins(L, bs)
  PROVE  Graph(M)'
<1>2. PICK c \in Nat : c = counter
  BY GraphFacts
<1>3. /\ Names(c + 1) = Names(c) \cup {Name(c)} /\ Name(c) \notin Names(c)
      /\ DOMAIN M = Names(c + 1) /\ M[Name(c)] = Joined(bs, L)
      /\ \A n \in Names(c) : M[n] = L[n]
      /\ M = [n \in Names(c + 1) |-> M[n]]
  BY <1>2, JoinsFacts DEF Joins
<1>4. /\ DOMAIN nodes = Names(c) /\ L[End] = {<<>>} /\ End \in Names(c)
      /\ \A k \in 0..c - 1 :
           /\ Layered(k, nodes[Name(k)].branches)
           /\ L[Name(k)] = Joined(nodes[Name(k)].branches, L)
  BY <1>2 DEF Graph, Names
<1>5. counter' = c + 1 /\ c + 1 \in Nat /\ DOMAIN nodes' = Names(c + 1)
  BY <1>2, <1>3, <1>4
<1>6. M[End] = {<<>>}
  BY <1>3, <1>4
<1>7. ASSUME NEW k \in 0..(c + 1) - 1
      PROVE  /\ Layered(k, nodes'[Name(k)].branches)
             /\ M[Name(k)] = Joined(nodes'[Name(k)].branches, M)
  <2>1. ASSUME NEW j \in 0..c, NEW ds, Layered(j, ds) PROVE Joined(ds, M) = Joined(ds, L)
    <3>1. Names(j) \subseteq Names(c)
      <4>1. 0..j - 1 \subseteq 0..c - 1
        OBVIOUS
      <4> QED BY <4>1 DEF Names
    <3>2. \A b \in DOMAIN ds : ds[b].target \in Names(c)
      BY <2>1, <3>1 DEF Layered
    <3>3. \A b \in DOMAIN ds : M[ds[b].target] = L[ds[b].target]
      BY <1>3, <3>2
    <3> QED BY <3>3, JoinedSame
  <2>2. CASE k = c
    BY <1>2, <1>3, <2>1, <2>2
  <2>3. CASE k # c
    <3>1. k \in 0..c - 1 /\ k \in 0..c
      BY <2>3
    <3>2. Name(k) \in Names(c) /\ Name(k) # Name(c)
      BY <1>3, <3>1 DEF Names
    <3>3. nodes'[Name(k)] = nodes[Name(k)] /\ M[Name(k)] = L[Name(k)]
      BY <1>2, <1>3, <1>4, <3>2
    <3> QED BY <1>4, <2>1, <3>1, <3>3
  <2> QED BY <2>2, <2>3
<1> QED BY <1>3, <1>5, <1>6, <1>7 DEF Graph

LEMMA GoodCloseNode ==
  ASSUME NEW in \in Inputs, NEW L, Good(in, L), CloseNode
  PROVE  \E M : Good(in, M)'
<1>1. PICK c \in Nat : c = counter
  BY GraphFacts DEF Good
<1> DEFINE name == Name(counter)
           bs == Top.branches
<1>2. /\ phase = "loop" /\ Top.try = Len(Top.values) /\ bs # <<>>
      /\ DOMAIN nodes' = DOMAIN nodes \cup {name} /\ nodes'[name].branches = bs
      /\ \A n \in DOMAIN nodes : n # name => nodes'[n] = nodes[n]
      /\ Remember(TopKey, name) /\ Return(name) /\ counter' = counter + 1
      /\ stack' = Below /\ UNCHANGED <<input, arg>>
  BY DEF CloseNode, Name
<1>3. /\ input = in /\ Loops(in, L, Top) /\ Top \in Frames(in) /\ stack \in Seq(Frames(in))
      /\ stack # <<>> /\ OpenIn(in, stack, memo) /\ TopKey = KeyOf(in, CallOf(Top))
      /\ Graph(L) /\ Memo(in, L) /\ Used
  BY <1>2, WhenLooping DEF Good
<1>4. PICK M : M = Joins(L, bs)
  OBVIOUS
<1>5. Layered(counter, bs)
  BY <1>2, <1>3, ClosingLayer
<1>6. Graph(M)'
  <2> HIDE DEF bs
  <2> QED BY <1>2, <1>3, <1>4, <1>5, GraphAdd
<1>7. /\ Grows(L, M) /\ M[name] = Joined(bs, L) /\ name \in DOMAIN M
  BY <1>3, <1>4, JoinsFacts
<1>8. /\ From(in, CallOf(Top)).missing = {}
      /\ From(in, CallOf(Top)).words = Joined(bs, L)
      /\ From(in, CallOf(Top)).words # {}
  BY <1>2, <1>3, CloseFrame
<1>9. Right(in, M, CallOf(Top), name)
  BY <1>7, <1>8, NameFacts DEF Right, LangOf
<1>10. CallOf(Top) \in Calls(in) /\ TopKey \notin DOMAIN memo
  BY <1>3, FrameCalls, OpenTopKey
<1>11. /\ DOMAIN memo' = DOMAIN memo \cup {TopKey} /\ memo'[TopKey] = name
       /\ \A k \in DOMAIN memo : memo'[k] = memo[k]
  BY <1>2, <1>10 DEF Remember
<1>12. Memo(in, M)'
  <2>1. IsFiniteSet(DOMAIN memo')
    BY <1>3, <1>11, FS_AddElement DEF Memo
  <2>2. ASSUME NEW k \in DOMAIN memo'
        PROVE  \E call \in Calls(in) : KeyOf(in, call) = k /\ Right(in, M, call, memo'[k])
    <3>1. CASE k = TopKey
      BY <1>3, <1>9, <1>10, <1>11, <3>1
    <3>2. CASE k \in DOMAIN memo
      <4>1. PICK call \in Calls(in) : KeyOf(in, call) = k /\ Right(in, L, call, memo[k])
        BY <1>3, <3>2 DEF Memo
      <4>2. Right(in, M, call, memo[k])
        BY <1>7, <4>1, RightGrows
      <4> QED BY <1>11, <3>2, <4>1, <4>2
    <3> QED BY <1>11, <3>1, <3>2
  <2>3. ASSUME NEW k \in 0..counter' - 1 PROVE \E x \in DOMAIN memo' : memo'[x] = Name(k)
    <3>1. CASE k = counter
      BY <1>11, <3>1
    <3>2. CASE k # counter
      <4>1. k \in 0..counter - 1
        BY <1>1, <1>2, <3>2
      <4>2. PICK x \in DOMAIN memo : memo[x] = Name(k)
        BY <1>3, <4>1 DEF Memo
      <4> QED BY <1>11, <4>2
    <3> QED BY <3>1, <3>2
  <2> QED BY <2>1, <2>2, <2>3 DEF Memo
<1>13. Used'
  <2>1. ASSUME NEW k \in 0..c
        PROVE  \/ \E j \in k + 1..c : LedTo(nodes'[Name(j)].branches, k)
               \/ Held(k)'
    <3>1. CASE k = c
      BY <1>1, <1>2, <3>1 DEF Held, Return
    <3>2. CASE k # c
      <4>1. k \in 0..c - 1
        BY <3>2
      <4>2. (\E j \in k + 1..c - 1 : LedTo(nodes[Name(j)].branches, k)) \/ InStack(stack, k)
        BY <1>1, <1>2, <1>3, <4>1 DEF Used, InStack
      <4>3. ASSUME NEW j \in k + 1..c - 1, LedTo(nodes[Name(j)].branches, k)
            PROVE  \E i \in k + 1..c : LedTo(nodes'[Name(i)].branches, k)
        <5>1. j \in 0..c - 1 /\ j \in k + 1..c /\ j # c
          BY <4>1
        <5>2. Name(j) \in DOMAIN nodes /\ Name(j) # name
          BY <1>1, <1>3, <5>1, NameFacts DEF Graph, Names
        <5> QED BY <1>2, <4>3, <5>1, <5>2
      <4>4. CASE InStack(stack, k)
        <5>1. CASE LedTo(bs, k)
          <6>1. c \in k + 1..c /\ nodes'[Name(c)].branches = bs
            BY <1>1, <1>2, <4>1
          <6> QED BY <5>1, <6>1
        <5>2. CASE ~ LedTo(bs, k)
          <6>1. InStack(Below, k)
            BY <1>3, <4>4, <5>2, InStackPop DEF Below, Top
          <6> QED BY <1>2, <6>1 DEF Held
        <5> QED BY <5>1, <5>2
      <4> QED BY <4>2, <4>3, <4>4
    <3> QED BY <3>1, <3>2
  <2>2. counter' - 1 = c
    BY <1>1, <1>2
  <2> QED BY <2>1, <2>2 DEF Used, Held, InStack
<1> QED BY <1>2, <1>3, <1>6, <1>7, <1>9, <1>11, <1>12, <1>13, GoodPop

LEMMA GoodFinish ==
  ASSUME NEW in \in Inputs, NEW L, Good(in, L), Finish
  PROVE  Good(in, L)'
<1>1. /\ phase = "return" /\ stack = <<>> /\ phase' = IF answer = Dead THEN "empty" ELSE "done"
      /\ UNCHANGED <<input, stack, arg, answer, memo, nodes, counter>>
  BY DEF Finish
<1>2. input = in /\ Right(in, L, Root, answer)
  BY <1>1, WhenReturning DEF Pending
<1>3. Running(in, L)'
  BY <1>1, <1>2 DEF Running
<1>4. Graph(L)' /\ Memo(in, L)'
  BY <1>1, GraphSame, MemoSame DEF Good
<1>5. Used'
  <2>1. \A k : Held(k) => Held(k)'
    BY <1>1 DEF Held
  <2> QED BY <1>1, <2>1, UsedSame DEF Good
<1> QED BY <1>1, <1>2, <1>3, <1>4, <1>5 DEF Good

LEMMA GoodStutter ==
  ASSUME NEW in \in Inputs, NEW L, Good(in, L), UNCHANGED vars
  PROVE  Good(in, L)'
BY DEF vars, Good, Graph, Memo, Running, Used

LEMMA GoodNext ==
  ASSUME IInv, input \in Inputs, [Next]_vars
  PROVE  IInv' /\ input' \in Inputs
<1>1. PICK in \in Inputs : in = input
  OBVIOUS
<1>2. PICK L : Good(in, L)
  BY <1>1 DEF IInv
<1>3. \E M : Good(in, M)'
  <2>1. CASE Construct
    BY <1>2, <2>1, GoodConstruct
  <2>2. CASE CallEnd
    BY <1>2, <2>2, GoodCallEnd
  <2>3. CASE CallKnown
    BY <1>2, <2>3, GoodCallKnown
  <2>4. CASE CallInactive
    BY <1>2, <2>4, GoodCallInactive
  <2>5. CASE CallUnresolved
    BY <1>2, <2>5, GoodCallUnresolved
  <2>6. CASE CallDead
    BY <1>2, <2>6, GoodCallDead
  <2>7. CASE CallField
    BY <1>2, <2>7, GoodCallField
  <2>8. CASE SkipValue
    BY <1>2, <2>8, GoodSkipValue
  <2>9. CASE TryValue
    BY <1>2, <2>9, GoodTryValue
  <2>10. CASE TakeAnswer
    BY <1>2, <2>10, GoodTakeAnswer
  <2>11. CASE PassAnswer
    BY <1>2, <2>11, GoodPassAnswer
  <2>12. CASE CloseDead
    BY <1>2, <2>12, GoodCloseDead
  <2>13. CASE CloseNode
    BY <1>2, <2>13, GoodCloseNode
  <2>14. CASE Finish
    BY <1>2, <2>14, GoodFinish
  <2>15. CASE UNCHANGED vars
    BY <1>2, <2>15, GoodStutter
  <2> QED BY <2>1, <2>2, <2>3, <2>4, <2>5, <2>6, <2>7, <2>8, <2>9, <2>10, <2>11,
             <2>12, <2>13, <2>14, <2>15 DEF Next
<1>4. PICK M : Good(in, M)'
  BY <1>3
<1>5. input' = in
  BY <1>4 DEF Good
<1> QED BY <1>4, <1>5 DEF IInv

\* From here on: the invariant holds, and what it says.
THEOREM CompilerInvariant == Spec => [](IInv /\ input \in Inputs)
<1>1. Init => IInv /\ input \in Inputs
  BY GoodInit DEF Init, IInv
<1>2. IInv /\ input \in Inputs /\ [Next]_vars => (IInv /\ input \in Inputs)'
  BY GoodNext
<1> QED BY <1>1, <1>2, PTL DEF Spec

-----------------------------------------------------------------------------
\* The nodes are the values of different keys.
LEMMA SharedNodes == ASSUME IInv PROVE NodesShared
<1>1. PICK L : Good(input, L)
  BY DEF IInv
<1> DEFINE live == {k \in DOMAIN memo : memo[k] \notin {Dead, End}}
           f == [k \in 0..counter - 1 |-> CHOOSE key \in DOMAIN memo : memo[key] = Name(k)]
<1>2. /\ counter \in Nat /\ IsFiniteSet(DOMAIN memo)
      /\ \A k \in 0..counter - 1 : \E key \in DOMAIN memo : memo[key] = Name(k)
  BY <1>1 DEF Good, Graph, Memo
<1>3. IsFiniteSet(live)
  BY <1>2, FS_Subset
<1>4. \A k \in 0..counter - 1 : f[k] \in DOMAIN memo /\ memo[f[k]] = Name(k)
  BY <1>2
<1>5. \A k \in 0..counter - 1 : f[k] \in live
  BY <1>4, NameFacts
<1>6. \A j, k \in 0..counter - 1 : f[j] = f[k] => j = k
  BY <1>4, NameFacts
<1>7. f = [k \in 0..counter - 1 |-> f[k]]
  OBVIOUS
<1> HIDE DEF f, live
<1>8. f \in Injection(0..counter - 1, live)
  BY <1>5, <1>6, <1>7 DEF Injection, IsInjective
<1>9. IsFiniteSet(0..counter - 1) /\ Cardinality(0..counter - 1) = counter
  <2>1. counter - 1 \in Int /\ 0 \in Int
    BY <1>2
  <2> QED BY <1>2, <2>1, FS_Interval
<1>10. Cardinality(0..counter - 1) <= Cardinality(live)
  BY <1>3, <1>8, FS_Injection
<1> QED BY <1>9, <1>10 DEF NodesShared, live

\* States are shared: no more nodes than dependency contexts with a live
\* suffix, for every schema and everything that can be fixed.
THEOREM SharesStates == Spec => []NodesShared
<1>1. IInv => NodesShared
  BY SharedNodes
<1> QED BY CompilerInvariant, <1>1, PTL

-----------------------------------------------------------------------------
\* The words of the invariant are the language of the graph: an equation by
\* recursion on the nodes has one solution.
LEMMA LanguageIs ==
  ASSUME NEW L, Graph(L)
  PROVE  Language = L
<1> DEFINE Solves(g) == g = [n \in DOMAIN nodes |->
                               IF n = End THEN {<<>>} ELSE Joined(nodes[n].branches, g)]
<1>1. /\ counter \in Nat /\ DOMAIN nodes = Names(counter)
      /\ L = [n \in Names(counter) |-> L[n]] /\ L[End] = {<<>>}
      /\ \A k \in 0..counter - 1 :
           /\ Layered(k, nodes[Name(k)].branches)
           /\ L[Name(k)] = Joined(nodes[Name(k)].branches, L)
  BY DEF Graph
<1>2. \A n \in Names(counter) : n = End \/ \E k \in 0..counter - 1 : n = Name(k)
  BY DEF Names
<1>3. Solves(L)
  <2>1. \A n \in DOMAIN nodes : L[n] = IF n = End THEN {<<>>} ELSE Joined(nodes[n].branches, L)
    BY <1>1, <1>2
  <2> QED BY <1>1, <2>1
<1>4. Language = CHOOSE g : Solves(g)
  BY DEF Language
<1>5. Solves(Language)
  <2> HIDE DEF Solves
  <2> QED BY <1>3, <1>4
<1> DEFINE g == Language
<1> HIDE DEF g
<1>6. Solves(g)
  BY <1>5 DEF g
<1>7. g[End] = {<<>>} /\ g = [n \in Names(counter) |-> g[n]]
  <2>1. End \in Names(counter)
    BY DEF Names
  <2>2. DOMAIN g = Names(counter)
    BY <1>1, <1>6
  <2>3. g[End] = {<<>>}
    BY <1>1, <1>6, <2>1
  <2>4. g = [n \in DOMAIN g |-> g[n]]
    BY <1>6
  <2> QED BY <2>2, <2>3, <2>4
<1>8. ASSUME NEW k \in 0..counter - 1 PROVE g[Name(k)] = Joined(nodes[Name(k)].branches, g)
  <2>1. Name(k) \in DOMAIN nodes /\ Name(k) # End
    BY <1>1, NameFacts DEF Names
  <2> QED BY <1>6, <2>1
<1> HIDE DEF Solves
<1> DEFINE Bad == {k \in 0..counter - 1 : g[Name(k)] # L[Name(k)]}
<1>9. ASSUME Bad # {} PROVE FALSE
  <2>1. PICK m \in Bad : \A k \in Bad : m <= k
    <3>1. Bad \subseteq Nat
      BY <1>1
    <3> QED BY <1>9, <3>1, LeastNat
  <2> DEFINE bs == nodes[Name(m)].branches
  <2>2. Layered(m, bs) /\ L[Name(m)] = Joined(bs, L) /\ g[Name(m)] = Joined(bs, g)
    BY <1>1, <1>8, <2>1
  <2>3. \A n \in Names(m) : g[n] = L[n]
    <3>1. ASSUME NEW k \in 0..m - 1 PROVE g[Name(k)] = L[Name(k)]
      <4>1. m \in 0..counter - 1
        BY <2>1
      <4>2. k \in 0..counter - 1 /\ ~ (m <= k)
        BY <1>1, <4>1
      <4> QED BY <2>1, <4>2
    <3> QED BY <1>1, <1>7, <3>1 DEF Names
  <2>4. \A b \in DOMAIN bs : g[bs[b].target] = L[bs[b].target]
    BY <2>2, <2>3 DEF Layered
  <2>5. Joined(bs, g) = Joined(bs, L)
    BY <2>4, JoinedSame
  <2> QED BY <2>1, <2>2, <2>5
<1>10. \A n \in Names(counter) : g[n] = L[n]
  BY <1>1, <1>2, <1>7, <1>9
<1>11. g = L
  BY <1>1, <1>7, <1>10
<1> QED BY <1>11 DEF g

-----------------------------------------------------------------------------
\* The engine accepts the graph.

LEMMA TargetFacts ==
  ASSUME NEW L, Graph(L), NEW k \in 0..counter - 1
  PROVE  /\ Name(k) \in DOMAIN nodes
         /\ TargetsOf(Name(k)) \subseteq Names(k)
         /\ Names(k) \subseteq Names(counter)
         /\ \A j \in Nat : LedTo(nodes[Name(k)].branches, j) => Name(j) \in TargetsOf(Name(k))
<1> DEFINE bs == nodes[Name(k)].branches
<1>1. Layered(k, bs) /\ DOMAIN nodes = Names(counter) /\ counter \in Nat
  BY DEF Graph
<1>2. TargetsOf(Name(k)) = {bs[b].target : b \in DOMAIN bs}
  BY NameFacts, Zenon DEF TargetsOf
<1> HIDE DEF bs
<1>3. 0..k - 1 \subseteq 0..counter - 1
  BY <1>1
<1>4. Name(k) \in Names(counter) /\ Names(k) \subseteq Names(counter)
  BY <1>3 DEF Names
<1>5. TargetsOf(Name(k)) \subseteq Names(k)
  BY <1>1, <1>2 DEF Layered
<1>6. \A j \in Nat : LedTo(bs, j) => Name(j) \in TargetsOf(Name(k))
  BY <1>2 DEF LedTo
<1> QED BY <1>1, <1>4, <1>5, <1>6 DEF bs

\* Earlier nodes are closed under targets, so that no node reaches itself.
LEMMA NamesClosed ==
  ASSUME NEW L, Graph(L), NEW k \in 0..counter - 1
  PROVE  ClosedUnder(Names(k)) /\ Name(k) \notin Names(k)
<1>1. counter \in Nat
  BY DEF Graph
<1>2. ASSUME NEW n \in Names(k) PROVE TargetsOf(n) \subseteq Names(k)
  <2>1. CASE n = End
    BY <2>1 DEF TargetsOf
  <2>2. CASE n # End
    <3>1. PICK j \in 0..k - 1 : n = Name(j)
      BY <2>2 DEF Names
    <3>2. j \in 0..counter - 1
      BY <1>1
    <3>3. TargetsOf(n) \subseteq Names(j)
      BY <3>1, <3>2, TargetFacts
    <3>4. 0..j - 1 \subseteq 0..k - 1
      OBVIOUS
    <3> QED BY <3>3, <3>4 DEF Names
  <2> QED BY <2>1, <2>2
<1>3. Name(k) \notin Names(k)
  <2>1. k \notin 0..k - 1
    OBVIOUS
  <2> QED BY <2>1, NameFacts DEF Names
<1> QED BY <1>2, <1>3 DEF ClosedUnder

\* Every node is reached: the last one that is not would be the answer or a
\* target of a later one.
LEMMA AllConnected ==
  ASSUME NEW in, NEW L, Good(in, L), phase = "done"
  PROVE  Connected
<1>1. Graph(L) /\ Used /\ answer \in DOMAIN L /\ counter \in Nat
  BY DEF Good, Running, Right, Graph
<1>2. DOMAIN L = Names(counter) /\ DOMAIN nodes = Names(counter)
  BY <1>1, GraphFacts DEF Graph
<1>3. Len(stack) = 0
  BY DEF Good, Running
<1>4. ASSUME NEW S \in SUBSET DOMAIN nodes, answer \in S, ClosedUnder(S)
      PROVE  S = DOMAIN nodes
  <2> DEFINE Bad == {d \in 0..counter - 1 : Name(counter - 1 - d) \notin S}
  <2>1. ASSUME Bad # {} PROVE FALSE
    <3>1. PICK d \in Bad : \A e \in Bad : d <= e
      <4>1. Bad \subseteq Nat
        BY <1>1
      <4> QED BY <2>1, <4>1, LeastNat
    <3>2. PICK k \in 0..counter - 1 : k = counter - 1 - d
      BY <1>1
    <3>3. Name(k) \notin S
      BY <3>1, <3>2
    <3>4. answer # Name(k)
      BY <1>4, <3>3
    <3>5. PICK j \in k + 1..counter - 1 : LedTo(nodes[Name(j)].branches, k)
      <4>1. ~ \E i \in 1..Len(stack) : LedTo(stack[i].branches, k)
        BY <1>3
      <4> QED BY <1>1, <3>4, <4>1 DEF Used
    <3>6. j \in 0..counter - 1 /\ k \in Nat
      BY <1>1, <3>2
    <3>7. Name(j) \in S
      <4>1. counter - 1 - j \in 0..counter - 1 /\ counter - 1 - j < d
            /\ counter - 1 - (counter - 1 - j) = j
        BY <1>1, <3>1, <3>2, <3>5, <3>6
      <4>2. counter - 1 - j \notin Bad
        BY <3>1, <4>1
      <4> QED BY <4>1, <4>2
    <3>8. Name(k) \in TargetsOf(Name(j))
      BY <1>1, <3>5, <3>6, TargetFacts
    <3> QED BY <1>4, <3>3, <3>7, <3>8 DEF ClosedUnder
  <2>2. \A k \in 0..counter - 1 : Name(k) \in S
    <3>1. ASSUME NEW k \in 0..counter - 1 PROVE Name(k) \in S
      <4>1. counter - 1 - k \in 0..counter - 1 /\ counter - 1 - (counter - 1 - k) = k
        BY <1>1
      <4>2. counter - 1 - k \notin Bad
        BY <2>1
      <4> QED BY <4>1, <4>2
    <3> QED BY <3>1
  <2>3. End \in S
    <3>1. CASE counter = 0
      <4>1. Names(counter) = {End}
        BY <3>1 DEF Names
      <4> QED BY <1>1, <1>2, <1>4, <4>1
    <3>2. CASE counter # 0
      <4>1. 0 \in 0..counter - 1
        BY <1>1, <3>2
      <4> DEFINE bs == nodes[Name(0)].branches
      <4>2. Layered(0, bs)
        BY <1>1, <4>1 DEF Graph
      <4>3. Names(0) = {End}
        BY DEF Names
      <4>4. TargetsOf(Name(0)) = {bs[b].target : b \in DOMAIN bs}
        BY NameFacts, Zenon DEF TargetsOf
      <4> HIDE DEF bs
      <4>5. bs \in Branches /\ bs # <<>>
        BY <4>2 DEF Layered
      <4>6. DOMAIN bs # {}
        BY <4>5, EmptyDomain DEF Branches
      <4>7. End \in TargetsOf(Name(0))
        BY <4>2, <4>3, <4>4, <4>6 DEF Layered
      <4>8. Name(0) \in S
        BY <2>2, <4>1
      <4> QED BY <1>4, <4>7, <4>8 DEF ClosedUnder
    <3> QED BY <3>1, <3>2
  <2> QED BY <1>2, <2>2, <2>3 DEF Names
<1> QED BY <1>4 DEF Connected

LEMMA Accepted ==
  ASSUME NEW in, NEW L, Good(in, L)
  PROVE  EngineAccepts
<1>1. SUFFICES ASSUME phase = "done" PROVE EngineAccepts
  BY DEF EngineAccepts
<1>2. Connected
  BY <1>1, AllConnected
<1>3. Graph(L) /\ DOMAIN L = Names(counter) /\ DOMAIN nodes = Names(counter) /\ counter \in Nat
  BY GraphFacts DEF Good, Graph
<1>4. answer \in DOMAIN nodes
  BY <1>1, <1>3 DEF Good, Running, Right
<1>5. ASSUME NEW n \in DOMAIN nodes \ {End}
      PROVE  /\ AvoidsItself(n)
             /\ nodes[n].branches # <<>>
             /\ \A a, b \in DOMAIN nodes[n].branches :
                  nodes[n].branches[a].value = nodes[n].branches[b].value => a = b
  <2>1. PICK k \in 0..counter - 1 : n = Name(k)
    BY <1>3 DEF Names
  <2>2. AvoidsItself(n)
    <3>1. /\ Names(k) \in SUBSET DOMAIN nodes /\ TargetsOf(n) \subseteq Names(k)
          /\ ClosedUnder(Names(k)) /\ n \notin Names(k)
      BY <1>3, <2>1, TargetFacts, NamesClosed
    <3> QED BY <3>1 DEF AvoidsItself
  <2> DEFINE bs == nodes[n].branches
  <2>3. Layered(k, bs)
    BY <1>3, <2>1 DEF Graph
  <2> HIDE DEF bs
  <2>4. bs # <<>> /\ bs \in Branches /\ Rising(bs)
    BY <2>3 DEF Layered
  <2>5. \A b \in DOMAIN bs : b \in Nat /\ bs[b].value \in Nat
    <3>1. ASSUME NEW b \in DOMAIN bs PROVE b \in Nat /\ bs[b].value \in Nat
      <4>1. bs[b] \in [value : Nat, target : {End} \cup {Name(j) : j \in Nat}]
        BY <2>4, SeqElement DEF Branches
      <4>2. PICK S : bs \in Seq(S)
        BY <2>4 DEF Branches
      <4>3. b \in Nat
        BY <4>2
      <4> QED BY <4>1, <4>3
    <3> QED BY <3>1
  <2>6. ASSUME NEW a \in DOMAIN bs, NEW b \in DOMAIN bs, bs[a].value = bs[b].value PROVE a = b
    <3>1. ~ (a < b) /\ ~ (b < a)
      BY <2>4, <2>5, <2>6 DEF Rising
    <3> QED BY <2>5, <3>1
  <2> QED BY <2>2, <2>4, <2>6 DEF bs
<1> QED BY <1>2, <1>4, <1>5 DEF EngineAccepts

-----------------------------------------------------------------------------
LEMMA CompiledExactly == ASSUME IInv PROVE CompilesExactly
<1>1. PICK L : Good(input, L)
  BY DEF IInv
<1>2. EngineAccepts
  BY <1>1, Accepted
<1>3. AllWords(Fixed) = From(input, Root).words /\ (Stuck(Fixed) <=> From(input, Root).missing # {})
  BY DEF AllWords, Stuck, From, Root, Call, Fixed, Fields
<1>4. Running(input, L) /\ Language = L
  BY <1>1, LanguageIs DEF Good
<1>5. ASSUME phase \in {"done", "empty"}
      PROVE  /\ WordsOf(answer) = AllWords(Fixed) /\ ~ Stuck(Fixed)
             /\ phase = "done" => AllWords(Fixed) # {}
             /\ phase = "empty" => AllWords(Fixed) = {}
  <2>1. Right(input, L, Root, answer) /\ (phase = "done" => answer # Dead) /\ (phase = "empty" => answer = Dead)
    BY <1>4, <1>5 DEF Running
  <2>2. WordsOf(answer) = LangOf(L, answer)
    BY <1>4, Zenon DEF WordsOf, LangOf
  <2> QED BY <1>3, <2>1, <2>2 DEF Right
<1>6. phase = "unresolved" => Stuck(Fixed)
  BY <1>3, <1>4 DEF Running
<1> QED BY <1>2, <1>5, <1>6, Zenon DEF CompilesExactly

\* For every schema and everything that can be fixed, the compiler's graph has
\* exactly the words of the plain enumeration, it refuses a schema just when
\* there are none or a field is met unresolved, and the engine accepts the graph.
THEOREM CompilesForAll == Spec => []CompilesExactly
<1>1. IInv => CompilesExactly
  BY CompiledExactly
<1> QED BY CompilerInvariant, <1>1, PTL

-----------------------------------------------------------------------------
\* The loops of _tokens_from_record and of _record_from_tokens, field by field.
TakenUpTo(fields, fixed, record, n, p) ==
  p = [i \in 0..n |-> IF i = 0 THEN Sofar(<<>>)
                      ELSE TakeField(fixed, record, p[i - 1], fields[i])]

LEMMA TakenExists ==
  ASSUME NEW fields, NEW fixed, NEW record, NEW N \in Nat
  PROVE  \E p : TakenUpTo(fields, fixed, record, N, p)
<1> DEFINE Step(x, i) == TakeField(fixed, record, x, fields[i])
           start == Sofar(<<>>)
           UpTo(n, p) == p = [i \in 0..n |-> IF i = 0 THEN start ELSE Step(p[i - 1], i)]
           S == {n \in 0..N : \E p : UpTo(n, p)}
<1>0. \A n, p : UpTo(n, p) <=> TakenUpTo(fields, fixed, record, n, p)
  BY DEF TakenUpTo
<1> HIDE DEF Step, start
<1>1. 0 \in S
  <2> DEFINE p == [i \in 0..0 |-> start]
  <2>1. UpTo(0, p)
    OBVIOUS
  <2> HIDE DEF UpTo
  <2> QED BY <2>1
<1>2. ASSUME NEW n \in 0..N - 1, n \in S PROVE n + 1 \in S
  <2>1. PICK p : UpTo(n, p)
    BY <1>2
  <2> DEFINE q == [i \in 0..n + 1 |-> IF i = n + 1 THEN Step(p[n], n + 1) ELSE p[i]]
  <2>2. ASSUME NEW i \in 0..n + 1
        PROVE  q[i] = IF i = 0 THEN start ELSE Step(q[i - 1], i)
    <3>1. CASE i = n + 1
      <4>1. q[i] = Step(p[n], i) /\ q[i - 1] = p[n] /\ i # 0
        BY <3>1
      <4> QED BY <4>1
    <3>2. CASE i # n + 1
      <4>1. i \in 0..n /\ q[i] = p[i] /\ (i # 0 => q[i - 1] = p[i - 1])
        BY <3>2
      <4>2. p[i] = IF i = 0 THEN start ELSE Step(p[i - 1], i)
        BY <2>1, <4>1
      <4> QED BY <4>1, <4>2
    <3> QED BY <3>1, <3>2
  <2>3. DOMAIN q = 0..n + 1 /\ q = [i \in 0..n + 1 |-> q[i]]
    OBVIOUS
  <2> HIDE DEF q
  <2>4. UpTo(n + 1, q)
    BY <2>2, <2>3
  <2> HIDE DEF UpTo
  <2> QED BY <2>4
<1> HIDE DEF S, UpTo
<1>3. \A n \in 0..N : n \in S
  BY <1>1, <1>2, Upwards
<1> QED BY <1>0, <1>3 DEF S

LEMMA TakenAt ==
  ASSUME NEW fields, NEW fixed, NEW record, Len(fields) \in Nat
  PROVE  /\ Taken(fields, fixed, record)[0] = Sofar(<<>>)
         /\ \A i \in 1..Len(fields) :
              Taken(fields, fixed, record)[i] =
                TakeField(fixed, record, Taken(fields, fixed, record)[i - 1], fields[i])
<1> DEFINE p == Taken(fields, fixed, record)
<1>1. PICK q : TakenUpTo(fields, fixed, record, Len(fields), q)
  BY TakenExists
<1>2. TakenUpTo(fields, fixed, record, Len(fields), p)
  BY <1>1 DEF Taken, TakenUpTo
<1> HIDE DEF p
<1>3. p = [i \in 0..Len(fields) |-> IF i = 0 THEN Sofar(<<>>)
                                    ELSE TakeField(fixed, record, p[i - 1], fields[i])]
  BY <1>2, Zenon DEF TakenUpTo
<1>4. p[0] = Sofar(<<>>)
  BY <1>3
<1>5. ASSUME NEW i \in 1..Len(fields)
      PROVE  p[i] = TakeField(fixed, record, p[i - 1], fields[i])
  BY <1>3
<1> QED BY <1>4, <1>5 DEF p

ReadUpTo(fields, tokens, n, p) ==
  p = [i \in 0..n |-> IF i = 0 THEN Sofar(tokens) ELSE TakeToken(p[i - 1], fields[i])]

LEMMA ReadExists ==
  ASSUME NEW fields, NEW tokens, NEW N \in Nat
  PROVE  \E p : ReadUpTo(fields, tokens, N, p)
<1> DEFINE Step(x, i) == TakeToken(x, fields[i])
           start == Sofar(tokens)
           UpTo(n, p) == p = [i \in 0..n |-> IF i = 0 THEN start ELSE Step(p[i - 1], i)]
           S == {n \in 0..N : \E p : UpTo(n, p)}
<1>0. \A n, p : UpTo(n, p) <=> ReadUpTo(fields, tokens, n, p)
  BY DEF ReadUpTo
<1> HIDE DEF Step, start
<1>1. 0 \in S
  <2> DEFINE p == [i \in 0..0 |-> start]
  <2>1. UpTo(0, p)
    OBVIOUS
  <2> HIDE DEF UpTo
  <2> QED BY <2>1
<1>2. ASSUME NEW n \in 0..N - 1, n \in S PROVE n + 1 \in S
  <2>1. PICK p : UpTo(n, p)
    BY <1>2
  <2> DEFINE q == [i \in 0..n + 1 |-> IF i = n + 1 THEN Step(p[n], n + 1) ELSE p[i]]
  <2>2. ASSUME NEW i \in 0..n + 1
        PROVE  q[i] = IF i = 0 THEN start ELSE Step(q[i - 1], i)
    <3>1. CASE i = n + 1
      <4>1. q[i] = Step(p[n], i) /\ q[i - 1] = p[n] /\ i # 0
        BY <3>1
      <4> QED BY <4>1
    <3>2. CASE i # n + 1
      <4>1. i \in 0..n /\ q[i] = p[i] /\ (i # 0 => q[i - 1] = p[i - 1])
        BY <3>2
      <4>2. p[i] = IF i = 0 THEN start ELSE Step(p[i - 1], i)
        BY <2>1, <4>1
      <4> QED BY <4>1, <4>2
    <3> QED BY <3>1, <3>2
  <2>3. DOMAIN q = 0..n + 1 /\ q = [i \in 0..n + 1 |-> q[i]]
    OBVIOUS
  <2> HIDE DEF q
  <2>4. UpTo(n + 1, q)
    BY <2>2, <2>3
  <2> HIDE DEF UpTo
  <2> QED BY <2>4
<1> HIDE DEF S, UpTo
<1>3. \A n \in 0..N : n \in S
  BY <1>1, <1>2, Upwards
<1> QED BY <1>0, <1>3 DEF S

LEMMA ReadAt ==
  ASSUME NEW fields, NEW tokens, Len(fields) \in Nat
  PROVE  /\ Read(fields, tokens)[0] = Sofar(tokens)
         /\ \A i \in 1..Len(fields) :
              Read(fields, tokens)[i] = TakeToken(Read(fields, tokens)[i - 1], fields[i])
<1> DEFINE p == Read(fields, tokens)
<1>1. PICK q : ReadUpTo(fields, tokens, Len(fields), q)
  BY ReadExists
<1>2. ReadUpTo(fields, tokens, Len(fields), p)
  BY <1>1 DEF Read, ReadUpTo
<1> HIDE DEF p
<1>3. p = [i \in 0..Len(fields) |-> IF i = 0 THEN Sofar(tokens) ELSE TakeToken(p[i - 1], fields[i])]
  BY <1>2, Zenon DEF ReadUpTo
<1>4. p[0] = Sofar(tokens)
  BY <1>3
<1>5. ASSUME NEW i \in 1..Len(fields) PROVE p[i] = TakeToken(p[i - 1], fields[i])
  BY <1>3
<1> QED BY <1>4, <1>5 DEF p

-----------------------------------------------------------------------------
\* One round of the loops, by what becomes of the field.
LEMMA PositionFacts ==
  ASSUME NEW values, Distinct(values), NEW k \in DOMAIN values
  PROVE  PositionIn(values, values[k]) = k /\ Contains(values, values[k])
<1> DEFINE at == {i \in 1..Len(values) : values[i] = values[k]}
<1>1. /\ Len(values) \in Nat /\ DOMAIN values = 1..Len(values)
      /\ \A a, b \in DOMAIN values : values[a] = values[b] => a = b
  BY DEF Distinct, IsList, IsInjective
<1>2. at = {k}
  BY <1>1
<1>3. Min({k}) = k
  BY <1>1 DEF Min
<1>4. PositionIn(values, values[k]) = IF at # {} THEN Min(at) ELSE 0
  BY DEF PositionIn, SelectInSeq
<1> HIDE DEF at
<1>5. PositionIn(values, values[k]) = k
  BY <1>2, <1>3, <1>4
<1>6. Contains(values, values[k])
  BY <1>1 DEF Contains
<1> QED BY <1>5, <1>6

\* The field is met, the k-th of its values is taken.
Chosen(fixed, field, context, k) ==
  /\ IsActive(field, context) /\ ~ Unresolved(field, context)
  /\ k \in Allowed(fixed, field, Resolve(field, context))
ContextOf(field, context, k) == With(context, field.name, Resolve(field, context)[k])

LEMMA TakeChosen ==
  ASSUME NEW fixed, NEW record, NEW sofar, NEW field, NEW k \in Nat,
         sofar.ok, Chosen(fixed, field, sofar.context, k),
         Distinct(Resolve(field, sofar.context)),
         field.name \in DOMAIN record, record[field.name] = Resolve(field, sofar.context)[k]
  PROVE  TakeField(fixed, record, sofar, field) =
           [ok |-> TRUE, context |-> ContextOf(field, sofar.context, k),
            tokens |-> Append(sofar.tokens, k - 1)]
<1> DEFINE values == Resolve(field, sofar.context)
           value == record[field.name]
<1>1. k \in DOMAIN values /\ (field.name \in DOMAIN fixed => fixed[field.name] = values[k])
  BY DEF Chosen, Allowed
<1>2. value = values[k] /\ PositionIn(values, value) = k /\ Contains(values, value)
  BY <1>1, PositionFacts
<1>3. ~ (field.name \in DOMAIN fixed /\ fixed[field.name] # value)
  BY <1>1, <1>2
<1>4. ContextOf(field, sofar.context, k) = With(sofar.context, field.name, value)
  BY <1>2 DEF ContextOf
<1>5. IsActive(field, sofar.context) /\ ~ Unresolved(field, sofar.context)
  BY DEF Chosen
<1> QED BY <1>2, <1>3, <1>4, <1>5, Zenon DEF TakeField

LEMMA TakeSkipped ==
  ASSUME NEW fixed, NEW record, NEW sofar, NEW field, sofar.ok,
         ~ IsActive(field, sofar.context), field.name \notin DOMAIN record
  PROVE  TakeField(fixed, record, sofar, field) = sofar
BY Zenon DEF TakeField

\* A round that does not refuse the record skips the field or takes its value.
LEMMA TakeAccepted ==
  ASSUME NEW fixed, NEW record, NEW sofar, NEW field,
         TakeField(fixed, record, sofar, field).ok,
         Distinct(Resolve(field, sofar.context))
  PROVE  /\ sofar.ok
         /\ IF IsActive(field, sofar.context)
              THEN /\ field.name \in DOMAIN record
                   /\ \E k : /\ Chosen(fixed, field, sofar.context, k)
                             /\ record[field.name] = Resolve(field, sofar.context)[k]
                             /\ TakeField(fixed, record, sofar, field) =
                                  [ok |-> TRUE, context |-> ContextOf(field, sofar.context, k),
                                   tokens |-> Append(sofar.tokens, k - 1)]
              ELSE /\ field.name \notin DOMAIN record
                   /\ TakeField(fixed, record, sofar, field) = sofar
<1> DEFINE values == Resolve(field, sofar.context)
           value == record[field.name]
           conflict == field.name \in DOMAIN fixed /\ fixed[field.name] # value
<1>1. ~ Refused.ok
  BY DEF Refused
<1>2. sofar.ok
  <2>1. ~ sofar.ok => TakeField(fixed, record, sofar, field) = sofar
    BY Zenon DEF TakeField
  <2> QED BY <2>1
<1>3. CASE ~ IsActive(field, sofar.context)
  <2>1. TakeField(fixed, record, sofar, field) =
          IF field.name \in DOMAIN record THEN Refused ELSE sofar
    BY <1>2, <1>3, Zenon DEF TakeField
  <2> QED BY <1>1, <1>2, <1>3, <2>1
<1>4. CASE IsActive(field, sofar.context)
  <2>1. field.name \in DOMAIN record /\ ~ Unresolved(field, sofar.context)
    <3>1. field.name \notin DOMAIN record \/ Unresolved(field, sofar.context) =>
            TakeField(fixed, record, sofar, field) = Refused
      BY <1>2, <1>4, Zenon DEF TakeField
    <3> QED BY <1>1, <3>1
  <2>2. Contains(values, value) /\ ~ conflict
    <3>1. ~ Contains(values, value) \/ conflict =>
            TakeField(fixed, record, sofar, field) = Refused
      BY <1>2, <1>4, <2>1, Zenon DEF TakeField
    <3> QED BY <1>1, <3>1
  <2>3. PICK k \in Nat : k \in DOMAIN values /\ values[k] = value
    <3>1. DOMAIN values = 1..Len(values) /\ Len(values) \in Nat
      BY DEF Distinct, IsList
    <3> QED BY <2>2, <3>1 DEF Contains
  <2>4. Chosen(fixed, field, sofar.context, k)
    BY <1>4, <2>1, <2>2, <2>3 DEF Chosen, Allowed
  <2>5. TakeField(fixed, record, sofar, field) =
          [ok |-> TRUE, context |-> ContextOf(field, sofar.context, k),
           tokens |-> Append(sofar.tokens, k - 1)]
    BY <1>2, <2>1, <2>3, <2>4, TakeChosen
  <2> QED BY <1>2, <1>4, <2>1, <2>3, <2>4, <2>5
<1> QED BY <1>3, <1>4

LEMMA ReadChosen ==
  ASSUME NEW fixed, NEW sofar, NEW field, NEW k \in Nat,
         sofar.ok, Chosen(fixed, field, sofar.context, k),
         Distinct(Resolve(field, sofar.context)),
         sofar.tokens # <<>>, Head(sofar.tokens) = k - 1
  PROVE  TakeToken(sofar, field) =
           [ok |-> TRUE, context |-> ContextOf(field, sofar.context, k),
            tokens |-> Tail(sofar.tokens)]
<1> DEFINE values == Resolve(field, sofar.context)
           index == Head(sofar.tokens)
<1>1. k \in 1..Len(values) /\ Len(values) \in Nat
  BY DEF Chosen, Allowed, Distinct, IsList
<1>2. index \in 0..Len(values) - 1 /\ index + 1 = k
  BY <1>1
<1>3. IsActive(field, sofar.context) /\ ~ Unresolved(field, sofar.context)
  BY DEF Chosen
<1> HIDE DEF values, index
<1>4. TakeToken(sofar, field) =
        [ok |-> TRUE, context |-> With(sofar.context, field.name, values[index + 1]),
         tokens |-> Tail(sofar.tokens)]
  BY <1>2, <1>3, Zenon DEF TakeToken, values, index
<1> QED BY <1>2, <1>4 DEF ContextOf, values

LEMMA ReadSkipped ==
  ASSUME NEW sofar, NEW field, sofar.ok, ~ IsActive(field, sofar.context)
  PROVE  TakeToken(sofar, field) = sofar
BY Zenon DEF TakeToken

-----------------------------------------------------------------------------
\* Words and fields.
LEMMA DistinctNames ==
  ASSUME NEW in, WellFormed(in.fields), ValidSchema(in.fields)
  PROVE  \A i, j \in 1..Len(in.fields) : in.fields[i].name = in.fields[j].name => i = j
<1> DEFINE N == Len(in.fields)
           name == [i \in 1..N |-> in.fields[i].name]
<1>1. N \in Nat /\ DOMAIN in.fields = 1..N
  BY InputFacts
<1>2. Cardinality(NamesOf(in.fields)) = N
  BY DEF ValidSchema
<1>3. IsFiniteSet(1..N) /\ Cardinality(1..N) = N
  BY <1>1, FS_Interval
<1>4. name \in Surjection(1..N, NamesOf(in.fields))
  BY <1>1 DEF Surjection, NamesOf
<1> HIDE DEF name
<1>5. name \in Injection(1..N, NamesOf(in.fields))
  BY <1>2, <1>3, <1>4, FS_Surjection
<1>6. \A i, j \in 1..N : name[i] = name[j] => i = j
  BY <1>5 DEF Injection, IsInjective
<1> QED BY <1>6 DEF name

LEMMA ResolveDistinct ==
  ASSUME NEW in, WellFormed(in.fields), NEW i \in 1..Len(in.fields), NEW context
  PROVE  Distinct(Resolve(in.fields[i], context))
<1> DEFINE f == in.fields[i]
<1>1. f \in Range(in.fields)
  BY InputFacts DEF Range
<1>2. Distinct(f.values) /\ Distinct(f.default) /\ \A v \in DOMAIN f.cases : Distinct(f.cases[v])
  BY <1>1 DEF WellFormed
<1>3. Distinct(NoValues)
  BY DEF NoValues, Distinct, IsList, IsInjective
<1> HIDE DEF f
<1>4. Distinct(Resolve(f, context))
  BY <1>2, <1>3, Zenon DEF Resolve
<1> QED BY <1>4 DEF f

LEMMA ChosenType ==
  ASSUME NEW in, WellFormed(in.fields), NEW i \in 1..Len(in.fields), NEW fixed,
         NEW context \in Contexts(in.fields), NEW k, Chosen(fixed, in.fields[i], context, k)
  PROVE  /\ k \in 1..Len(Resolve(in.fields[i], context)) /\ k \in Nat
         /\ Distinct(Resolve(in.fields[i], context))
         /\ ContextOf(in.fields[i], context, k) \in Contexts(in.fields)
<1> DEFINE f == in.fields[i]
           values == Resolve(f, context)
<1>1. f.name \in NamesOf(in.fields)
  BY InputFacts
<1>2. values \in Seq(Values(in.fields)) /\ Distinct(values)
  BY ResolveType, ResolveDistinct DEF Chosen
<1>3. k \in DOMAIN values
  BY DEF Chosen, Allowed
<1> HIDE DEF values, f
<1>4. k \in 1..Len(values) /\ k \in Nat /\ values[k] \in Values(in.fields)
  BY <1>2, <1>3
<1>5. With(context, f.name, values[k]) \in Contexts(in.fields)
  BY <1>1, <1>4, WithType
<1> QED BY <1>2, <1>4, <1>5 DEF ContextOf, values, f

\* What is a word from a field on, by what becomes of the field.
LEMMA WordCases ==
  ASSUME NEW in, WellFormed(in.fields), NEW i \in 1..Len(in.fields),
         NEW context \in Contexts(in.fields), NEW w
  PROVE  w \in From(in, Call(i, context)).words <=>
           IF IsActive(in.fields[i], context)
             THEN \E k : /\ Chosen(in.fixed, in.fields[i], context, k)
                         /\ \E v \in From(in, Call(i + 1, ContextOf(in.fields[i], context, k))).words :
                              w = <<k - 1>> \o v
             ELSE w \in From(in, Call(i + 1, context)).words
<1> DEFINE f == in.fields[i]
           Rest(k) == From(in, Call(i + 1, ContextOf(f, context, k))).words
<1>1. CASE ~ IsActive(f, context)
  BY <1>1, FromInactive
<1>2. CASE Unresolved(f, context)
  <2>1. IsActive(f, context) /\ \A k : ~ Chosen(in.fixed, f, context, k)
    BY <1>2 DEF Unresolved, Chosen
  <2> QED BY <1>2, <2>1, FromUnresolved
<1>3. CASE IsActive(f, context) /\ ~ Unresolved(f, context)
  <2>1. From(in, Call(i, context)).words =
          UNION {Prefixed(k - 1, From(in, Later(in, i, context, k)).words) :
                   k \in AllowedAt(in, i, context)}
    BY <1>3, FromActive
  <2>2. \A k : From(in, Later(in, i, context, k)).words = Rest(k)
    BY DEF Later, ContextOf
  <2>3. \A k : k \in AllowedAt(in, i, context) <=> Chosen(in.fixed, f, context, k)
    BY <1>3 DEF AllowedAt, Chosen
  <2> HIDE DEF Rest
  <2>4. \A k : w \in Prefixed(k - 1, Rest(k)) <=> \E v \in Rest(k) : w = <<k - 1>> \o v
    BY DEF Prefixed
  <2>5. w \in From(in, Call(i, context)).words <=>
          \E k \in AllowedAt(in, i, context) : w \in Prefixed(k - 1, Rest(k))
    BY <2>1, <2>2
  <2>6. w \in From(in, Call(i, context)).words <=>
          \E k : Chosen(in.fixed, f, context, k) /\ \E v \in Rest(k) : w = <<k - 1>> \o v
    BY <2>3, <2>4, <2>5
  <2> QED BY <1>3, <2>6 DEF Rest
<1> QED BY <1>1, <1>2, <1>3

LEMMA EndWords ==
  ASSUME NEW in, WellFormed(in.fields), NEW context \in Contexts(in.fields)
  PROVE  From(in, Call(Len(in.fields) + 1, context)).words = {<<>>}
BY FromEnd

LEMMA WordsType ==
  ASSUME NEW in, WellFormed(in.fields), NEW i \in 0..Len(in.fields),
         NEW context \in Contexts(in.fields), NEW w \in From(in, Call(i + 1, context)).words
  PROVE  w \in Seq(Int)
<1> DEFINE N == Len(in.fields)
           Typed(j) == \A c \in Contexts(in.fields) : From(in, Call(j + 1, c)).words \subseteq Seq(Int)
           S == {j \in 0..N : Typed(j)}
<1>1. N \in Nat
  BY InputFacts
<1>2. N \in S
  <2>1. ASSUME NEW c \in Contexts(in.fields), NEW x \in From(in, Call(N + 1, c)).words
        PROVE  x \in Seq(Int)
    <3>1. From(in, Call(N + 1, c)).words = {<<>>}
      BY EndWords
    <3>2. x = <<>>
      BY <3>1, Zenon
    <3> QED BY <3>2
  <2> QED BY <1>1, <2>1
<1>3. ASSUME NEW j \in 0..N - 1, j + 1 \in S PROVE j \in S
  <2>1. j \in 0..N /\ j + 1 \in 1..N
    BY <1>1
  <2>2. ASSUME NEW c \in Contexts(in.fields), NEW x \in From(in, Call(j + 1, c)).words
        PROVE  x \in Seq(Int)
    <3> DEFINE f == in.fields[j + 1]
    <3>1. IF IsActive(f, c)
            THEN \E k : /\ Chosen(in.fixed, f, c, k)
                        /\ \E v \in From(in, Call(j + 1 + 1, ContextOf(f, c, k))).words :
                             x = <<k - 1>> \o v
            ELSE x \in From(in, Call(j + 1 + 1, c)).words
      BY <2>1, <2>2, WordCases
    <3>2. CASE ~ IsActive(f, c)
      BY <1>3, <3>1, <3>2
    <3>3. CASE IsActive(f, c)
      <4>1. PICK k : /\ Chosen(in.fixed, f, c, k)
                     /\ \E v \in From(in, Call(j + 1 + 1, ContextOf(f, c, k))).words :
                          x = <<k - 1>> \o v
        BY <3>1, <3>3
      <4>2. ContextOf(f, c, k) \in Contexts(in.fields) /\ k \in Nat
        BY <2>1, <4>1, ChosenType
      <4>3. PICK v \in Seq(Int) : x = <<k - 1>> \o v
        BY <1>3, <4>1, <4>2
      <4> QED BY <4>2, <4>3
    <3> QED BY <3>2, <3>3
  <2> QED BY <2>1, <2>2
<1> HIDE DEF S
<1>4. \A j \in 0..N : j \in S
  BY <1>1, <1>2, <1>3, Downwards
<1> QED BY <1>4 DEF S

-----------------------------------------------------------------------------
\* A word is read to its end: what is left is always a word of what is left of
\* the schema, in the context that has been read.
Reads(in, w, i) ==
  LET r == Read(in.fields, w)[i] IN
    /\ r.ok /\ r.context \in Contexts(in.fields)
    /\ r.tokens \in From(in, Call(i + 1, r.context)).words
    /\ DOMAIN r.context \subseteq {in.fields[j].name : j \in 1..i}

\* From i fields to one more.
ReadsOn(in, w, i) ==
  LET r == Read(in.fields, w)[i]
      f == in.fields[i + 1]
      next == Read(in.fields, w)[i + 1]
  IN  IF IsActive(f, r.context)
        THEN \E k : /\ Chosen(in.fixed, f, r.context, k)
                    /\ next.context = ContextOf(f, r.context, k)
                    /\ r.tokens = <<k - 1>> \o next.tokens
        ELSE next = r

LEMMA ReadStep ==
  ASSUME NEW in, WellFormed(in.fields), NEW w, NEW i \in 0..Len(in.fields) - 1, Reads(in, w, i)
  PROVE  Reads(in, w, i + 1) /\ ReadsOn(in, w, i)
<1> DEFINE r == Read(in.fields, w)[i]
           f == in.fields[i + 1]
           next == Read(in.fields, w)[i + 1]
           Met(j) == {in.fields[l].name : l \in 1..j}
<1>1. /\ Len(in.fields) \in Nat /\ i + 1 \in 1..Len(in.fields)
      /\ Met(i) \subseteq Met(i + 1) /\ f.name \in Met(i + 1)
  <2>1. Len(in.fields) \in Nat
    BY InputFacts
  <2> QED BY <2>1
<1>2. next = TakeToken(r, f)
  <2>1. i + 1 - 1 = i
    OBVIOUS
  <2> QED BY <1>1, <2>1, ReadAt
<1>3. /\ r.ok /\ r.context \in Contexts(in.fields)
      /\ r.tokens \in From(in, Call(i + 1, r.context)).words
      /\ DOMAIN r.context \subseteq Met(i)
  BY DEF Reads
<1>4. IF IsActive(f, r.context)
        THEN \E k : /\ Chosen(in.fixed, f, r.context, k)
                    /\ \E v \in From(in, Call(i + 1 + 1, ContextOf(f, r.context, k))).words :
                         r.tokens = <<k - 1>> \o v
        ELSE r.tokens \in From(in, Call(i + 1 + 1, r.context)).words
  BY <1>1, <1>3, WordCases
<1> HIDE DEF r, f, next, Met
<1>5. CASE ~ IsActive(f, r.context)
  <2>1. next = r
    BY <1>2, <1>3, <1>5, ReadSkipped
  <2>2. Reads(in, w, i + 1)
    BY <1>1, <1>3, <1>4, <1>5, <2>1 DEF Reads, next, Met
  <2> QED BY <1>5, <2>1, <2>2 DEF ReadsOn, r, f, next
<1>6. CASE IsActive(f, r.context)
  <2>1. PICK k : /\ Chosen(in.fixed, f, r.context, k)
                 /\ \E v \in From(in, Call(i + 1 + 1, ContextOf(f, r.context, k))).words :
                      r.tokens = <<k - 1>> \o v
    BY <1>4, <1>6
  <2>2. PICK v \in From(in, Call(i + 1 + 1, ContextOf(f, r.context, k))).words :
          r.tokens = <<k - 1>> \o v
    BY <2>1
  <2>3. /\ ContextOf(f, r.context, k) \in Contexts(in.fields) /\ Distinct(Resolve(f, r.context))
        /\ k \in Nat
    BY <1>1, <1>3, <2>1, ChosenType DEF f
  <2>4. v \in Seq(Int)
    <3>1. i + 1 \in 0..Len(in.fields)
      BY <1>1
    <3> QED BY <2>2, <2>3, <3>1, WordsType, Zenon
  <2>5. next = [ok |-> TRUE, context |-> ContextOf(f, r.context, k), tokens |-> v]
    <3>1. r.tokens # <<>> /\ Head(r.tokens) = k - 1 /\ Tail(r.tokens) = v
      BY <2>2, <2>4
    <3>2. TakeToken(r, f) =
            [ok |-> TRUE, context |-> ContextOf(f, r.context, k), tokens |-> Tail(r.tokens)]
      BY <1>3, <2>1, <2>3, <3>1, ReadChosen
    <3> QED BY <1>2, <3>1, <3>2
  <2>6. /\ next.ok /\ next.context = ContextOf(f, r.context, k) /\ next.tokens = v
    BY <2>5
  <2>7. DOMAIN next.context \subseteq Met(i + 1)
    BY <1>1, <1>3, <2>6 DEF ContextOf, With
  <2>8. Reads(in, w, i + 1)
    BY <2>2, <2>3, <2>6, <2>7 DEF Reads, next, Met
  <2>9. ReadsOn(in, w, i)
    BY <1>6, <2>1, <2>2, <2>6 DEF ReadsOn, r, f, next
  <2> QED BY <2>8, <2>9
<1> QED BY <1>5, <1>6

LEMMA ReadAll ==
  ASSUME NEW in, WellFormed(in.fields), NEW w \in From(in, Root).words
  PROVE  /\ \A i \in 0..Len(in.fields) : Reads(in, w, i)
         /\ \A i \in 0..Len(in.fields) - 1 : ReadsOn(in, w, i)
         /\ Read(in.fields, w)[0] = Sofar(w)
         /\ RecordFromTokens(in.fields, w) = Read(in.fields, w)[Len(in.fields)]
         /\ Read(in.fields, w)[Len(in.fields)].tokens = <<>>
<1> DEFINE N == Len(in.fields)
           S == {j \in 0..N : Reads(in, w, j)}
<1>1. N \in Nat
  BY InputFacts
<1>2. Read(in.fields, w)[0] = Sofar(w)
  BY <1>1, ReadAt
<1>3. Reads(in, w, 0)
  <2>1. Nothing \in Contexts(in.fields)
    BY NothingType
  <2>2. Sofar(w).ok /\ Sofar(w).context = Nothing /\ Sofar(w).tokens = w
    BY DEF Sofar, Nothing
  <2>3. DOMAIN Nothing = {}
    BY DEF Nothing
  <2>4. Root = Call(0 + 1, Nothing)
    BY DEF Root
  <2> QED BY <1>2, <2>1, <2>2, <2>3, <2>4 DEF Reads
<1>4. \A i \in 0..N - 1 : i \in S => i + 1 \in S
  BY <1>1, ReadStep
<1>5. 0 \in S
  BY <1>1, <1>3
<1> HIDE DEF S
<1>6. \A i \in 0..N : i \in S
  BY <1>1, <1>4, <1>5, Upwards
<1>7. \A i \in 0..N : Reads(in, w, i)
  BY <1>6 DEF S
<1>8. \A i \in 0..N - 1 : ReadsOn(in, w, i)
  BY <1>1, <1>7, ReadStep
<1>9. Read(in.fields, w)[N].tokens = <<>>
  <2>1. Reads(in, w, N)
    BY <1>1, <1>7
  <2> DEFINE last == Read(in.fields, w)[N]
  <2>2. /\ last.context \in Contexts(in.fields)
        /\ last.tokens \in From(in, Call(N + 1, last.context)).words
    BY <2>1 DEF Reads
  <2> HIDE DEF last
  <2>3. From(in, Call(N + 1, last.context)).words = {<<>>}
    BY <2>2, EndWords
  <2> QED BY <2>2, <2>3 DEF last
<1>10. RecordFromTokens(in.fields, w) = Read(in.fields, w)[N]
  BY <1>9 DEF RecordFromTokens
<1> QED BY <1>2, <1>7, <1>8, <1>9, <1>10

\* What has been read for a field is not changed by later fields.
ReadEnd(in, w) == Read(in.fields, w)[Len(in.fields)]
Settled(in, w, i) ==
  LET c == Read(in.fields, w)[i].context
      last == ReadEnd(in, w).context
  IN  /\ DOMAIN c \subseteq DOMAIN last
      /\ \A n \in DOMAIN c : last[n] = c[n]
      /\ DOMAIN last \subseteq DOMAIN c \cup {in.fields[j].name : j \in i + 1..Len(in.fields)}

LEMMA ReadSettles ==
  ASSUME NEW in, WellFormed(in.fields), ValidSchema(in.fields), NEW w \in From(in, Root).words
  PROVE  \A i \in 0..Len(in.fields) : Settled(in, w, i)
<1> DEFINE N == Len(in.fields)
           last == ReadEnd(in, w).context
           S == {i \in 0..N : Settled(in, w, i)}
<1>1. N \in Nat
  BY InputFacts
<1>2. N \in S
  BY <1>1 DEF Settled, ReadEnd
<1>3. ASSUME NEW i \in 0..N - 1, i + 1 \in S PROVE i \in S
  <2> DEFINE r == Read(in.fields, w)[i]
             next == Read(in.fields, w)[i + 1]
             f == in.fields[i + 1]
             Ahead(j) == {in.fields[l].name : l \in j + 1..N}
  <2>1. i \in 0..N /\ i + 1 \in 1..N /\ Ahead(i + 1) \subseteq Ahead(i) /\ f.name \in Ahead(i)
    BY <1>1
  <2>2. ReadsOn(in, w, i) /\ Reads(in, w, i)
    BY <2>1, ReadAll
  <2>3. f.name \notin DOMAIN r.context
    <3>1. DOMAIN r.context \subseteq {in.fields[j].name : j \in 1..i}
      BY <2>2 DEF Reads
    <3>2. \A j \in 1..i : in.fields[j].name # f.name
      <4>1. \A j \in 1..i : j \in 1..N /\ j # i + 1
        BY <1>1
      <4> QED BY <2>1, <4>1, DistinctNames
    <3> QED BY <3>1, <3>2
  <2>4. /\ DOMAIN next.context \subseteq DOMAIN last
        /\ \A n \in DOMAIN next.context : last[n] = next.context[n]
        /\ DOMAIN last \subseteq DOMAIN next.context \cup Ahead(i + 1)
    BY <1>3 DEF Settled
  <2> HIDE DEF last, r, next, f, Ahead
  <2>5. /\ DOMAIN r.context \subseteq DOMAIN next.context
        /\ \A n \in DOMAIN r.context : next.context[n] = r.context[n]
        /\ DOMAIN next.context \subseteq DOMAIN r.context \cup {f.name}
    <3>1. CASE ~ IsActive(f, r.context)
      BY <2>2, <3>1 DEF ReadsOn, r, next, f
    <3>2. CASE IsActive(f, r.context)
      <4>1. PICK k : next.context = ContextOf(f, r.context, k)
        BY <2>2, <3>2 DEF ReadsOn, r, next, f
      <4> QED BY <2>3, <4>1 DEF ContextOf, With
    <3> QED BY <3>1, <3>2
  <2>6. /\ DOMAIN r.context \subseteq DOMAIN last
        /\ \A n \in DOMAIN r.context : last[n] = r.context[n]
        /\ DOMAIN last \subseteq DOMAIN r.context \cup Ahead(i)
    BY <2>1, <2>4, <2>5
  <2>7. Settled(in, w, i)
    BY <2>6 DEF Settled, last, r, Ahead
  <2> QED BY <2>1, <2>7
<1> HIDE DEF S
<1>4. \A i \in 0..N : i \in S
  BY <1>1, <1>2, <1>3, Downwards
<1> QED BY <1>4 DEF S

\* A field is in the record that is read just when it is met, with the value
\* that its token names.
LEMMA ReadField ==
  ASSUME NEW in, WellFormed(in.fields), ValidSchema(in.fields), NEW w \in From(in, Root).words,
         NEW i \in 0..Len(in.fields) - 1
  PROVE  LET r == Read(in.fields, w)[i]
             f == in.fields[i + 1]
             next == Read(in.fields, w)[i + 1]
             last == ReadEnd(in, w).context
         IN  IF IsActive(f, r.context)
               THEN \E k : /\ Chosen(in.fixed, f, r.context, k)
                           /\ next.context = ContextOf(f, r.context, k)
                           /\ r.tokens = <<k - 1>> \o next.tokens
                           /\ f.name \in DOMAIN last /\ last[f.name] = Resolve(f, r.context)[k]
               ELSE next = r /\ f.name \notin DOMAIN last
<1> DEFINE N == Len(in.fields)
           r == Read(in.fields, w)[i]
           f == in.fields[i + 1]
           next == Read(in.fields, w)[i + 1]
           last == ReadEnd(in, w).context
<1>1. N \in Nat
  BY InputFacts
<1>2. i \in 0..N /\ i + 1 \in 0..N /\ i + 1 \in 1..N
  BY <1>1
<1>3. /\ ReadsOn(in, w, i) /\ Reads(in, w, i)
      /\ Settled(in, w, i) /\ Settled(in, w, i + 1)
  BY <1>2, ReadAll, ReadSettles
<1>4. \A j \in 1..N : j # i + 1 => in.fields[j].name # f.name
  BY <1>2, DistinctNames
<1>5. /\ DOMAIN r.context \subseteq {in.fields[j].name : j \in 1..i}
      /\ DOMAIN last \subseteq DOMAIN next.context \cup {in.fields[j].name : j \in i + 1 + 1..N}
      /\ DOMAIN next.context \subseteq DOMAIN last
      /\ \A n \in DOMAIN next.context : last[n] = next.context[n]
  BY <1>3 DEF Reads, Settled
<1>6. \A j \in 1..i : j \in 1..N /\ j # i + 1
  BY <1>1
<1>7. \A j \in i + 1 + 1..N : j \in 1..N /\ j # i + 1
  BY <1>1
<1>8. f.name \notin DOMAIN r.context /\ f.name \notin {in.fields[j].name : j \in i + 1 + 1..N}
  BY <1>4, <1>5, <1>6, <1>7
<1> HIDE DEF r, next, last, f
<1>9. CASE ~ IsActive(f, r.context)
  <2>1. next = r
    BY <1>3, <1>9 DEF ReadsOn, r, next, f
  <2>2. f.name \notin DOMAIN last
    BY <1>5, <1>8, <2>1
  <2> QED BY <1>9, <2>1, <2>2 DEF r, next, last, f
<1>10. CASE IsActive(f, r.context)
  <2>1. PICK k : /\ Chosen(in.fixed, f, r.context, k)
                 /\ next.context = ContextOf(f, r.context, k)
                 /\ r.tokens = <<k - 1>> \o next.tokens
    BY <1>3, <1>10 DEF ReadsOn, r, next, f
  <2>2. f.name \in DOMAIN next.context /\ next.context[f.name] = Resolve(f, r.context)[k]
    BY <2>1 DEF ContextOf, With
  <2>3. f.name \in DOMAIN last /\ last[f.name] = Resolve(f, r.context)[k]
    BY <1>5, <2>2
  <2> QED BY <1>10, <2>1, <2>3 DEF r, next, last, f
<1> QED BY <1>9, <1>10

-----------------------------------------------------------------------------
\* The record of a word has this word.
TakesTo(in, w, i) ==
  LET t == Taken(in.fields, in.fixed, ReadEnd(in, w).context)[i]
      r == Read(in.fields, w)[i]
  IN  /\ t = [ok |-> TRUE, context |-> r.context, tokens |-> t.tokens]
      /\ t.tokens \in Seq(Int) /\ w = t.tokens \o r.tokens

LEMMA AppendConcat ==
  ASSUME NEW s \in Seq(Int), NEW x \in Int, NEW v \in Seq(Int)
  PROVE  Append(s, x) \in Seq(Int) /\ Append(s, x) \o v = s \o (<<x>> \o v)
OBVIOUS

LEMMA TakesBack ==
  ASSUME NEW in, WellFormed(in.fields), ValidSchema(in.fields), NEW w \in From(in, Root).words
  PROVE  \A i \in 0..Len(in.fields) : TakesTo(in, w, i)
<1> DEFINE N == Len(in.fields)
           last == ReadEnd(in, w).context
           T(i) == Taken(in.fields, in.fixed, last)[i]
           S == {i \in 0..N : TakesTo(in, w, i)}
<1>1. N \in Nat /\ 0 \in 0..N
  BY InputFacts
<1>2. 0 \in S
  <2>1. Read(in.fields, w)[0] = Sofar(w) /\ T(0) = Sofar(<<>>)
    BY <1>1, ReadAll, TakenAt
  <2>2. w \in Seq(Int)
    <3>1. Root = Call(0 + 1, Nothing) /\ Nothing \in Contexts(in.fields)
      BY NothingType DEF Root
    <3> QED BY <1>1, <3>1, WordsType
  <2> HIDE DEF T, last
  <2>3. TakesTo(in, w, 0)
    BY <2>1, <2>2 DEF TakesTo, Sofar, T, last
  <2> QED BY <1>1, <2>3
<1>3. ASSUME NEW i \in 0..N - 1, i \in S PROVE i + 1 \in S
  <2> DEFINE r == Read(in.fields, w)[i]
             next == Read(in.fields, w)[i + 1]
             f == in.fields[i + 1]
             t == T(i)
  <2>1. i \in 0..N /\ i + 1 \in 1..N /\ i + 1 \in 0..N /\ i + 1 - 1 = i
    BY <1>1
  <2>2. /\ t = [ok |-> TRUE, context |-> r.context, tokens |-> t.tokens]
        /\ t.tokens \in Seq(Int) /\ w = t.tokens \o r.tokens
    BY <1>3 DEF TakesTo
  <2>3. T(i + 1) = TakeField(in.fixed, last, t, f)
    BY <1>1, <2>1, TakenAt
  <2>4. IF IsActive(f, r.context)
          THEN \E k : /\ Chosen(in.fixed, f, r.context, k)
                      /\ next.context = ContextOf(f, r.context, k)
                      /\ r.tokens = <<k - 1>> \o next.tokens
                      /\ f.name \in DOMAIN last /\ last[f.name] = Resolve(f, r.context)[k]
          ELSE next = r /\ f.name \notin DOMAIN last
    BY ReadField
  <2>5. r.context \in Contexts(in.fields) /\ next.context \in Contexts(in.fields)
        /\ next.tokens \in From(in, Call(i + 1 + 1, next.context)).words
    BY <2>1, ReadAll DEF Reads
  <2>6. next.tokens \in Seq(Int)
    BY <2>1, <2>5, WordsType
  <2> DEFINE u == T(i + 1)
  <2> HIDE DEF r, next, f, t, T, last
  <2>7. t.ok /\ t.context = r.context
    BY <2>2
  <2>8. /\ u = [ok |-> TRUE, context |-> next.context, tokens |-> u.tokens]
        /\ u.tokens \in Seq(Int) /\ w = u.tokens \o next.tokens
    <3>1. CASE ~ IsActive(f, r.context)
      <4>1. u = t /\ next = r
        BY <2>3, <2>4, <2>7, <3>1, TakeSkipped
      <4> QED BY <2>2, <4>1
    <3>2. CASE IsActive(f, r.context)
      <4>1. PICK k : /\ Chosen(in.fixed, f, r.context, k)
                     /\ next.context = ContextOf(f, r.context, k)
                     /\ r.tokens = <<k - 1>> \o next.tokens
                     /\ f.name \in DOMAIN last /\ last[f.name] = Resolve(f, r.context)[k]
        BY <2>4, <3>2
      <4>2. Distinct(Resolve(f, r.context)) /\ k \in Nat
        BY <2>1, <2>5, <4>1, ChosenType DEF f
      <4>3. u = [ok |-> TRUE, context |-> ContextOf(f, r.context, k), tokens |-> Append(t.tokens, k - 1)]
        <5>1. /\ Chosen(in.fixed, f, t.context, k) /\ Distinct(Resolve(f, t.context))
              /\ last[f.name] = Resolve(f, t.context)[k]
          BY <2>7, <4>1, <4>2
        <5>2. TakeField(in.fixed, last, t, f) =
                [ok |-> TRUE, context |-> ContextOf(f, t.context, k), tokens |-> Append(t.tokens, k - 1)]
          <6> DEFINE fixed == in.fixed
          <6> HIDE DEF fixed
          <6>1. Chosen(fixed, f, t.context, k)
            BY <5>1 DEF fixed
          <6>2. k \in Nat /\ t.ok /\ f.name \in DOMAIN last
            BY <2>7, <4>1, <4>2
          <6>3. TakeField(fixed, last, t, f) =
                  [ok |-> TRUE, context |-> ContextOf(f, t.context, k), tokens |-> Append(t.tokens, k - 1)]
            BY <5>1, <6>1, <6>2, TakeChosen
          <6> QED BY <6>3 DEF fixed
        <5> QED BY <2>3, <2>7, <5>2
      <4>4. /\ Append(t.tokens, k - 1) \in Seq(Int)
            /\ Append(t.tokens, k - 1) \o next.tokens = t.tokens \o (<<k - 1>> \o next.tokens)
        <5> DEFINE x == k - 1
        <5>1. x \in Int
          BY <4>2
        <5> HIDE DEF x
        <5>2. /\ Append(t.tokens, x) \in Seq(Int)
              /\ Append(t.tokens, x) \o next.tokens = t.tokens \o (<<x>> \o next.tokens)
          BY <2>2, <2>6, <5>1, AppendConcat
        <5> QED BY <5>2 DEF x
      <4>5. u.tokens = Append(t.tokens, k - 1)
        BY <4>3
      <4>6. w = t.tokens \o (<<k - 1>> \o next.tokens)
        BY <2>2, <4>1
      <4> QED BY <4>1, <4>3, <4>4, <4>5, <4>6
    <3> QED BY <3>1, <3>2
  <2>9. TakesTo(in, w, i + 1)
    BY <2>8 DEF TakesTo, u, next, T, last
  <2> QED BY <2>1, <2>9
<1> HIDE DEF S
<1>4. \A i \in 0..N : i \in S
  BY <1>1, <1>2, <1>3, Upwards
<1> QED BY <1>4 DEF S

LEMMA WordsAreRecords ==
  ASSUME NEW in, WellFormed(in.fields), ValidSchema(in.fields), NEW w \in From(in, Root).words
  PROVE  LET r == RecordFromTokens(in.fields, w)
         IN  r.ok /\ TokensFromRecord(in.fields, in.fixed, r.context) =
                       [ok |-> TRUE, context |-> r.context, tokens |-> w]
<1> DEFINE N == Len(in.fields)
           r == ReadEnd(in, w)
           t == Taken(in.fields, in.fixed, r.context)[N]
<1>1. N \in Nat /\ N \in 0..N
  BY InputFacts
<1>2. RecordFromTokens(in.fields, w) = r /\ r.tokens = <<>> /\ Reads(in, w, N) /\ TakesTo(in, w, N)
  BY <1>1, ReadAll, TakesBack DEF ReadEnd
<1>3. r.ok /\ r.context \in Contexts(in.fields)
  BY <1>2 DEF Reads, ReadEnd
<1>4. /\ t = [ok |-> TRUE, context |-> r.context, tokens |-> t.tokens]
      /\ t.tokens \in Seq(Int) /\ w = t.tokens \o r.tokens
  BY <1>2, Zenon DEF TakesTo, ReadEnd
<1>5. DOMAIN r.context \subseteq NamesOf(in.fields)
  BY <1>3 DEF Contexts
<1> HIDE DEF r
<1>6. TokensFromRecord(in.fields, in.fixed, r.context) = t
  BY <1>5 DEF TokensFromRecord
<1> HIDE DEF t
<1>7. w = t.tokens
  BY <1>2, <1>4
<1>8. TokensFromRecord(in.fields, in.fixed, r.context) =
        [ok |-> TRUE, context |-> r.context, tokens |-> w]
  BY <1>4, <1>6, <1>7
<1> QED BY <1>2, <1>3, <1>8 DEF r

-----------------------------------------------------------------------------
\* A record that is accepted is taken field by field to its end.
Takes(in, record, i) ==
  LET t == Taken(in.fields, in.fixed, record)[i] IN
    /\ t.ok /\ t.context \in Contexts(in.fields) /\ t.tokens \in Seq(Int)
    /\ \A n \in DOMAIN t.context : n \in DOMAIN record /\ t.context[n] = record[n]
    /\ \A j \in 1..i :
         in.fields[j].name \in DOMAIN record => in.fields[j].name \in DOMAIN t.context
TakesOn(in, record, i) ==
  LET t == Taken(in.fields, in.fixed, record)[i]
      f == in.fields[i + 1]
      next == Taken(in.fields, in.fixed, record)[i + 1]
  IN  IF IsActive(f, t.context)
        THEN \E k : /\ Chosen(in.fixed, f, t.context, k)
                    /\ next.context = ContextOf(f, t.context, k)
                    /\ next.tokens = Append(t.tokens, k - 1)
        ELSE next = t

LEMMA TakenOk ==
  ASSUME NEW in, WellFormed(in.fields), NEW record,
         Taken(in.fields, in.fixed, record)[Len(in.fields)].ok
  PROVE  \A i \in 0..Len(in.fields) : Taken(in.fields, in.fixed, record)[i].ok
<1> DEFINE N == Len(in.fields)
           T == Taken(in.fields, in.fixed, record)
           S == {i \in 0..N : T[i].ok}
<1>1. N \in Nat
  BY InputFacts
<1>2. N \in S
  BY <1>1
<1>3. ASSUME NEW i \in 0..N - 1, i + 1 \in S PROVE i \in S
  <2>1. i \in 0..N /\ i + 1 \in 1..N /\ i + 1 - 1 = i
    BY <1>1
  <2>2. T[i + 1] = TakeField(in.fixed, record, T[i], in.fields[i + 1])
    BY <1>1, <2>1, TakenAt
  <2>3. Distinct(Resolve(in.fields[i + 1], T[i].context))
    BY <2>1, ResolveDistinct
  <2>4. T[i + 1].ok
    BY <1>3
  <2> HIDE DEF T
  <2>5. TakeField(in.fixed, record, T[i], in.fields[i + 1]).ok
    BY <2>2, <2>4
  <2>6. T[i].ok
    BY <2>3, <2>5, TakeAccepted
  <2> QED BY <2>1, <2>6
<1> HIDE DEF S
<1>4. \A i \in 0..N : i \in S
  BY <1>1, <1>2, <1>3, Downwards
<1> QED BY <1>4 DEF S

LEMMA TakeStep ==
  ASSUME NEW in, WellFormed(in.fields), NEW record, NEW i \in 0..Len(in.fields) - 1,
         Takes(in, record, i), Taken(in.fields, in.fixed, record)[i + 1].ok
  PROVE  Takes(in, record, i + 1) /\ TakesOn(in, record, i)
<1> DEFINE N == Len(in.fields)
           t == Taken(in.fields, in.fixed, record)[i]
           f == in.fields[i + 1]
           next == Taken(in.fields, in.fixed, record)[i + 1]
           fixed == in.fixed
<1>1. N \in Nat /\ i + 1 \in 1..N /\ i + 1 - 1 = i
  BY InputFacts
<1>2. next = TakeField(fixed, record, t, f) /\ next.ok
  BY <1>1, TakenAt
<1>3. /\ t.ok /\ t.context \in Contexts(in.fields) /\ t.tokens \in Seq(Int)
      /\ \A n \in DOMAIN t.context : n \in DOMAIN record /\ t.context[n] = record[n]
      /\ \A j \in 1..i :
           in.fields[j].name \in DOMAIN record => in.fields[j].name \in DOMAIN t.context
  BY DEF Takes
<1>4. Distinct(Resolve(f, t.context))
  BY <1>1, ResolveDistinct
<1>5. \A j \in 1..i + 1 : j \in 1..i \/ in.fields[j] = f
  BY <1>1
<1> HIDE DEF t, f, next, fixed
<1>6. IF IsActive(f, t.context)
        THEN /\ f.name \in DOMAIN record
             /\ \E k : /\ Chosen(fixed, f, t.context, k)
                       /\ record[f.name] = Resolve(f, t.context)[k]
                       /\ TakeField(fixed, record, t, f) =
                            [ok |-> TRUE, context |-> ContextOf(f, t.context, k),
                             tokens |-> Append(t.tokens, k - 1)]
        ELSE /\ f.name \notin DOMAIN record
             /\ TakeField(fixed, record, t, f) = t
  BY <1>2, <1>4, TakeAccepted
<1>7. CASE ~ IsActive(f, t.context)
  <2>1. next = t /\ f.name \notin DOMAIN record
    BY <1>2, <1>6, <1>7
  <2>2. TakesOn(in, record, i)
    BY <1>7, <2>1 DEF TakesOn, t, f, next
  <2>3. Takes(in, record, i + 1)
    BY <1>3, <1>5, <2>1 DEF Takes, next
  <2> QED BY <2>2, <2>3
<1>8. CASE IsActive(f, t.context)
  <2>1. f.name \in DOMAIN record
    BY <1>6, <1>8
  <2>2. PICK k : /\ Chosen(fixed, f, t.context, k)
                 /\ record[f.name] = Resolve(f, t.context)[k]
                 /\ next = [ok |-> TRUE, context |-> ContextOf(f, t.context, k),
                            tokens |-> Append(t.tokens, k - 1)]
    BY <1>2, <1>6, <1>8
  <2>3. ContextOf(f, t.context, k) \in Contexts(in.fields) /\ k \in Nat
    BY <1>1, <1>3, <2>2, ChosenType DEF f
  <2>4. /\ next.ok /\ next.context = ContextOf(f, t.context, k)
        /\ next.tokens = Append(t.tokens, k - 1)
    BY <2>2
  <2>5. next.tokens \in Seq(Int)
    BY <1>3, <2>3, <2>4
  <2>6. /\ DOMAIN next.context = DOMAIN t.context \cup {f.name}
        /\ \A n \in DOMAIN next.context :
             next.context[n] = IF n = f.name THEN record[f.name] ELSE t.context[n]
    BY <2>2, <2>4 DEF ContextOf, With
  <2>7. TakesOn(in, record, i)
    BY <1>8, <2>2, <2>4 DEF TakesOn, t, f, next, fixed
  <2>8. \A n \in DOMAIN next.context : n \in DOMAIN record /\ next.context[n] = record[n]
    BY <1>3, <2>1, <2>6
  <2>9. \A j \in 1..i + 1 :
          in.fields[j].name \in DOMAIN record => in.fields[j].name \in DOMAIN next.context
    BY <1>3, <1>5, <2>6
  <2>10. Takes(in, record, i + 1)
    BY <2>3, <2>4, <2>5, <2>8, <2>9 DEF Takes, next
  <2> QED BY <2>7, <2>10
<1> QED BY <1>7, <1>8

LEMMA TakeAll ==
  ASSUME NEW in, WellFormed(in.fields), NEW record,
         Taken(in.fields, in.fixed, record)[Len(in.fields)].ok
  PROVE  /\ \A i \in 0..Len(in.fields) : Takes(in, record, i)
         /\ \A i \in 0..Len(in.fields) - 1 : TakesOn(in, record, i)
         /\ Taken(in.fields, in.fixed, record)[0] = Sofar(<<>>)
<1> DEFINE N == Len(in.fields)
           S == {i \in 0..N : Takes(in, record, i)}
<1>1. N \in Nat /\ 0 \in 0..N
  BY InputFacts
<1>2. Taken(in.fields, in.fixed, record)[0] = Sofar(<<>>)
  BY <1>1, TakenAt
<1>3. Takes(in, record, 0)
  <2>1. Nothing \in Contexts(in.fields) /\ DOMAIN Nothing = {}
    BY NothingType DEF Nothing
  <2>2. Sofar(<<>>).ok /\ Sofar(<<>>).context = Nothing /\ Sofar(<<>>).tokens = <<>>
    BY DEF Sofar, Nothing
  <2>3. <<>> \in Seq(Int) /\ \A j \in 1..0 : FALSE
    OBVIOUS
  <2> QED BY <1>2, <2>1, <2>2, <2>3 DEF Takes
<1>4. ASSUME NEW i \in 0..N - 1, Takes(in, record, i)
      PROVE  Takes(in, record, i + 1) /\ TakesOn(in, record, i)
  <2>1. i + 1 \in 0..N
    BY <1>1
  <2>2. Taken(in.fields, in.fixed, record)[i + 1].ok
    BY <2>1, TakenOk
  <2> QED BY <1>4, <2>2, TakeStep
<1>5. \A i \in 0..N - 1 : i \in S => i + 1 \in S
  BY <1>1, <1>4
<1>6. 0 \in S
  BY <1>1, <1>3
<1> HIDE DEF S
<1>7. \A i \in 0..N : i \in S
  BY <1>1, <1>5, <1>6, Upwards
<1>8. \A i \in 0..N : Takes(in, record, i)
  BY <1>7 DEF S
<1>9. \A i \in 0..N - 1 : TakesOn(in, record, i)
  BY <1>1, <1>4, <1>8
<1> QED BY <1>2, <1>8, <1>9

\* What is taken from some field on is a word of what is left of the schema.
TakesWord(in, record, i) ==
  LET t == Taken(in.fields, in.fixed, record)[i]
      all == Taken(in.fields, in.fixed, record)[Len(in.fields)].tokens
  IN  \E v \in From(in, Call(i + 1, t.context)).words : all = t.tokens \o v

LEMMA TakenWords ==
  ASSUME NEW in, WellFormed(in.fields), NEW record,
         Taken(in.fields, in.fixed, record)[Len(in.fields)].ok
  PROVE  \A i \in 0..Len(in.fields) : TakesWord(in, record, i)
<1> DEFINE N == Len(in.fields)
           T == Taken(in.fields, in.fixed, record)
           all == T[N].tokens
           S == {i \in 0..N : TakesWord(in, record, i)}
<1>1. N \in Nat
  BY InputFacts
<1>2. N \in S
  <2>1. Takes(in, record, N)
    <3>1. N \in 0..N
      BY <1>1
    <3>2. \A i \in 0..N : Takes(in, record, i)
      BY TakeAll
    <3> QED BY <3>1, <3>2
  <2>2. T[N].context \in Contexts(in.fields) /\ all \in Seq(Int)
    BY <2>1 DEF Takes
  <2>3. <<>> \in From(in, Call(N + 1, T[N].context)).words
    BY <2>2, EndWords
  <2>4. all = T[N].tokens \o <<>>
    BY <2>2
  <2>5. TakesWord(in, record, N)
    BY <2>3, <2>4 DEF TakesWord
  <2> QED BY <1>1, <2>5
<1>3. ASSUME NEW i \in 0..N - 1, i + 1 \in S PROVE i \in S
  <2> DEFINE t == T[i]
             f == in.fields[i + 1]
             next == T[i + 1]
  <2>1. i \in 0..N /\ i + 1 \in 1..N /\ i + 1 \in 0..N
    BY <1>1
  <2>2. Takes(in, record, i) /\ TakesOn(in, record, i) /\ Takes(in, record, i + 1)
    BY <2>1, TakeAll
  <2>3. /\ t.context \in Contexts(in.fields) /\ t.tokens \in Seq(Int)
        /\ next.context \in Contexts(in.fields)
    BY <2>2 DEF Takes
  <2>4. PICK v \in From(in, Call(i + 1 + 1, next.context)).words : all = next.tokens \o v
    BY <1>3 DEF TakesWord
  <2>5. v \in Seq(Int)
    BY <2>1, <2>3, WordsType
  <2> HIDE DEF t, f, next, all
  <2>6. \E u \in From(in, Call(i + 1, t.context)).words : all = t.tokens \o u
    <3>1. CASE ~ IsActive(f, t.context)
      <4>1. next = t
        BY <2>2, <3>1 DEF TakesOn, t, f, next, T
      <4>2. v \in From(in, Call(i + 1, t.context)).words <=>
              v \in From(in, Call(i + 1 + 1, t.context)).words
        BY <2>1, <2>3, <3>1, WordCases DEF f
      <4> QED BY <2>4, <4>1, <4>2
    <3>2. CASE IsActive(f, t.context)
      <4>1. PICK k : /\ Chosen(in.fixed, f, t.context, k)
                     /\ next.context = ContextOf(f, t.context, k)
                     /\ next.tokens = Append(t.tokens, k - 1)
        BY <2>2, <3>2 DEF TakesOn, t, f, next, T
      <4>2. k \in Nat
        BY <2>1, <2>3, <4>1, ChosenType DEF f
      <4> DEFINE u == <<k - 1>> \o v
      <4>3. \E l : /\ Chosen(in.fixed, f, t.context, l)
                   /\ \E x \in From(in, Call(i + 1 + 1, ContextOf(f, t.context, l))).words :
                        u = <<l - 1>> \o x
        BY <2>4, <4>1
      <4>4. u \in From(in, Call(i + 1, t.context)).words
        <5> HIDE DEF u
        <5> QED BY <2>1, <2>3, <3>2, <4>3, WordCases DEF f
      <4>5. all = t.tokens \o u
        <5> DEFINE x == k - 1
        <5>1. x \in Int
          BY <4>2
        <5> HIDE DEF x
        <5>2. Append(t.tokens, x) \o v = t.tokens \o (<<x>> \o v)
          BY <2>3, <2>5, <5>1, AppendConcat
        <5> QED BY <2>4, <4>1, <5>2 DEF x
      <4> QED BY <4>4, <4>5
    <3> QED BY <3>1, <3>2
  <2>7. TakesWord(in, record, i)
    BY <2>6 DEF TakesWord, t, all, T
  <2> QED BY <2>1, <2>7
<1> HIDE DEF S
<1>4. \A i \in 0..N : i \in S
  BY <1>1, <1>2, <1>3, Downwards
<1> QED BY <1>4 DEF S

LEMMA RecordsHaveWords ==
  ASSUME NEW in, WellFormed(in.fields), NEW record, record = [n \in DOMAIN record |-> record[n]],
         TokensFromRecord(in.fields, in.fixed, record).ok
  PROVE  LET t == TokensFromRecord(in.fields, in.fixed, record)
         IN  t.tokens \in From(in, Root).words /\ t.context = record
<1> DEFINE N == Len(in.fields)
           T == Taken(in.fields, in.fixed, record)
<1>1. N \in Nat /\ 0 \in 0..N /\ N \in 0..N
  BY InputFacts
<1>2. /\ DOMAIN record \subseteq NamesOf(in.fields)
      /\ TokensFromRecord(in.fields, in.fixed, record) = T[N]
  <2>1. ~ Refused.ok
    BY DEF Refused
  <2> QED BY <2>1 DEF TokensFromRecord
<1>3. T[N].ok
  BY <1>2
<1>4. Takes(in, record, N) /\ Takes(in, record, 0) /\ TakesWord(in, record, 0) /\ T[0] = Sofar(<<>>)
  BY <1>1, <1>3, TakeAll, TakenWords
<1>5. T[N].tokens \in From(in, Root).words
  <2>1. T[0].context = Nothing /\ T[0].tokens = <<>> /\ Root = Call(0 + 1, Nothing)
    BY <1>4 DEF Sofar, Nothing, Root
  <2>2. PICK v \in From(in, Call(0 + 1, T[0].context)).words : T[N].tokens = T[0].tokens \o v
    BY <1>4 DEF TakesWord
  <2>3. v \in Seq(Int)
    BY <1>1, <2>1, <2>2, NothingType, WordsType
  <2> HIDE DEF T
  <2>4. T[N].tokens = v
    BY <2>1, <2>2, <2>3
  <2> QED BY <2>1, <2>2, <2>4
<1>6. T[N].context = record
  <2> DEFINE c == T[N].context
  <2>1. /\ c \in Contexts(in.fields)
        /\ \A n \in DOMAIN c : n \in DOMAIN record /\ c[n] = record[n]
        /\ \A j \in 1..N : in.fields[j].name \in DOMAIN record => in.fields[j].name \in DOMAIN c
    BY <1>4 DEF Takes
  <2>2. \A n \in DOMAIN record : \E j \in 1..N : n = in.fields[j].name
    BY <1>2, InputFacts DEF NamesOf
  <2> HIDE DEF c
  <2>3. DOMAIN c = DOMAIN record
    BY <2>1, <2>2
  <2>4. c = [n \in DOMAIN c |-> c[n]]
    BY <2>1 DEF Contexts
  <2>5. c = record
    BY <2>1, <2>3, <2>4
  <2> QED BY <2>5 DEF c
<1> QED BY <1>2, <1>5, <1>6

-----------------------------------------------------------------------------
\* What is fixed leaves those words whose records agree with it.
Unfixed(in) == [fields |-> in.fields, fixed |-> Nothing]
AgreesFrom(in, record, i) ==
  \A j \in i + 1..Len(in.fields) :
    in.fields[j].name \in DOMAIN in.fixed \cap DOMAIN record =>
      record[in.fields[j].name] = in.fixed[in.fields[j].name]

LEMMA ChosenUnfixed ==
  ASSUME NEW in, NEW f, NEW context, NEW k
  PROVE  Chosen(in.fixed, f, context, k) <=>
           /\ Chosen(Unfixed(in).fixed, f, context, k)
           /\ f.name \in DOMAIN in.fixed => in.fixed[f.name] = Resolve(f, context)[k]
<1>1. Unfixed(in).fixed = Nothing /\ DOMAIN Nothing = {}
  BY DEF Unfixed, Nothing
<1> QED BY <1>1 DEF Chosen, Allowed

LEMMA FewerWords ==
  ASSUME NEW in, WellFormed(in.fields)
  PROVE  From(in, Root).words \subseteq From(Unfixed(in), Root).words
<1> DEFINE N == Len(in.fields)
           all == Unfixed(in)
           Fewer(j) == \A c \in Contexts(in.fields) :
                         From(in, Call(j + 1, c)).words \subseteq From(all, Call(j + 1, c)).words
           S == {j \in 0..N : Fewer(j)}
<1>1. N \in Nat /\ 0 \in 0..N /\ N \in 0..N
  BY InputFacts
<1>2. all.fields = in.fields
  BY DEF Unfixed
<1>3. N \in S
  <2>1. ASSUME NEW c \in Contexts(in.fields)
        PROVE  From(in, Call(N + 1, c)).words = From(all, Call(N + 1, c)).words
    <3> HIDE DEF all
    <3>1. From(in, Call(N + 1, c)).words = {<<>>}
      BY EndWords
    <3>2. From(all, Call(Len(all.fields) + 1, c)).words = {<<>>}
      BY <1>2, EndWords
    <3> QED BY <1>2, <3>1, <3>2
  <2>2. Fewer(N)
    BY <2>1
  <2> QED BY <1>1, <2>2
<1>4. ASSUME NEW j \in 0..N - 1, j + 1 \in S PROVE j \in S
  <2> DEFINE f == in.fields[j + 1]
  <2>1. j \in 0..N /\ j + 1 \in 1..N
    BY <1>1
  <2>2. ASSUME NEW c \in Contexts(in.fields), NEW w \in From(in, Call(j + 1, c)).words
        PROVE  w \in From(all, Call(j + 1, c)).words
    <3> HIDE DEF all, f
    <3>1. IF IsActive(f, c)
            THEN \E k : /\ Chosen(in.fixed, f, c, k)
                        /\ \E v \in From(in, Call(j + 1 + 1, ContextOf(f, c, k))).words :
                             w = <<k - 1>> \o v
            ELSE w \in From(in, Call(j + 1 + 1, c)).words
      BY <2>1, WordCases DEF f
    <3>2. IF IsActive(f, c)
            THEN \E k : /\ Chosen(all.fixed, f, c, k)
                        /\ \E v \in From(all, Call(j + 1 + 1, ContextOf(f, c, k))).words :
                             w = <<k - 1>> \o v
            ELSE w \in From(all, Call(j + 1 + 1, c)).words
      <4>1. CASE ~ IsActive(f, c)
        BY <1>4, <3>1, <4>1
      <4>2. CASE IsActive(f, c)
        <5>1. PICK k : /\ Chosen(in.fixed, f, c, k)
                       /\ \E v \in From(in, Call(j + 1 + 1, ContextOf(f, c, k))).words :
                            w = <<k - 1>> \o v
          BY <3>1, <4>2
        <5>2. Chosen(all.fixed, f, c, k) /\ ContextOf(f, c, k) \in Contexts(in.fields)
          BY <2>1, <5>1, ChosenType, ChosenUnfixed DEF all, f
        <5>3. \A v \in From(in, Call(j + 1 + 1, ContextOf(f, c, k))).words :
                v \in From(all, Call(j + 1 + 1, ContextOf(f, c, k))).words
          BY <1>4, <5>2
        <5> QED BY <4>2, <5>1, <5>2, <5>3
      <4> QED BY <4>1, <4>2
    <3> QED BY <1>2, <2>1, <3>2, WordCases DEF f
  <2> QED BY <2>1, <2>2
<1> HIDE DEF S
<1>5. \A j \in 0..N : j \in S
  BY <1>1, <1>3, <1>4, Downwards
<1>6. Fewer(0)
  BY <1>1, <1>5 DEF S
<1>7. Root = Call(0 + 1, Nothing) /\ Nothing \in Contexts(in.fields)
  BY NothingType DEF Root
<1> QED BY <1>6, <1>7

LEMMA ConsParts ==
  ASSUME NEW x \in Int, NEW s \in Seq(Int)
  PROVE  Head(<<x>> \o s) = x /\ Tail(<<x>> \o s) = s
<1>1. Head(<<x>> \o s) = x
  OBVIOUS
<1>2. Tail(<<x>> \o s) = s
  OBVIOUS
<1> QED BY <1>1, <1>2

LEMMA ConsEqual ==
  ASSUME NEW x \in Int, NEW y \in Int, NEW s \in Seq(Int), NEW t \in Seq(Int),
         <<x>> \o s = <<y>> \o t
  PROVE  x = y /\ s = t
<1>1. Head(<<x>> \o s) = x /\ Tail(<<x>> \o s) = s
  BY ConsParts
<1>2. Head(<<y>> \o t) = y /\ Tail(<<y>> \o t) = t
  BY ConsParts
<1> QED BY <1>1, <1>2

\* What is left of a word is a word of the conditioned space just when what is
\* left of its record agrees with what is fixed.
WordAgrees(in, w, i) ==
  LET r == Read(in.fields, w)[i]
  IN  r.tokens \in From(in, Call(i + 1, r.context)).words <=>
        AgreesFrom(in, ReadEnd(in, w).context, i)

LEMMA WordAgreesStep ==
  ASSUME NEW in, WellFormed(in.fields), ValidSchema(in.fields),
         NEW w \in From(Unfixed(in), Root).words, NEW i \in 0..Len(in.fields) - 1,
         WordAgrees(in, w, i + 1)
  PROVE  WordAgrees(in, w, i)
<1> DEFINE N == Len(in.fields)
           all == Unfixed(in)
           r == Read(in.fields, w)[i]
           f == in.fields[i + 1]
           next == Read(in.fields, w)[i + 1]
           last == ReadEnd(in, w).context
           Same == f.name \in DOMAIN in.fixed \cap DOMAIN last => last[f.name] = in.fixed[f.name]
<1>1. N \in Nat /\ i \in 0..N /\ i + 1 \in 1..N /\ i + 1 \in 0..N
  BY InputFacts
<1>2. all.fields = in.fields /\ ReadEnd(all, w) = ReadEnd(in, w)
  BY DEF Unfixed, ReadEnd
<1>3. AgreesFrom(in, last, i) <=> Same /\ AgreesFrom(in, last, i + 1)
  <2>1. \A j \in i + 1..N : j = i + 1 \/ j \in i + 1 + 1..N
    BY <1>1
  <2>2. i + 1 \in i + 1..N /\ \A j \in i + 1 + 1..N : j \in i + 1..N
    BY <1>1
  <2> HIDE DEF last
  <2> QED BY <2>1, <2>2 DEF AgreesFrom
<1>4. next.tokens \in From(in, Call(i + 1 + 1, next.context)).words <=> AgreesFrom(in, last, i + 1)
  BY DEF WordAgrees
<1>5. /\ r.context \in Contexts(in.fields) /\ r.tokens \in Seq(Int)
      /\ next.context \in Contexts(in.fields) /\ next.tokens \in Seq(Int)
  <2>1. Reads(all, w, i) /\ Reads(all, w, i + 1)
    BY <1>1, <1>2, ReadAll
  <2>2. /\ r.context \in Contexts(in.fields)
        /\ r.tokens \in From(all, Call(i + 1, r.context)).words
        /\ next.context \in Contexts(in.fields)
        /\ next.tokens \in From(all, Call(i + 1 + 1, next.context)).words
    BY <1>2, <2>1 DEF Reads
  <2> HIDE DEF r, next, all
  <2>3. r.tokens \in Seq(Int)
    BY <1>1, <1>2, <2>2, WordsType
  <2>4. next.tokens \in Seq(Int)
    BY <1>1, <1>2, <2>2, WordsType
  <2> QED BY <2>2, <2>3, <2>4
<1>6. IF IsActive(f, r.context)
        THEN \E k : /\ Chosen(all.fixed, f, r.context, k)
                    /\ next.context = ContextOf(f, r.context, k)
                    /\ r.tokens = <<k - 1>> \o next.tokens
                    /\ f.name \in DOMAIN last /\ last[f.name] = Resolve(f, r.context)[k]
        ELSE next = r /\ f.name \notin DOMAIN last
  <2>1. /\ all.fields = in.fields /\ ReadEnd(all, w) = ReadEnd(in, w) /\ i \in 0..Len(all.fields) - 1
        /\ WellFormed(all.fields) /\ ValidSchema(all.fields) /\ w \in From(all, Root).words
    BY <1>2
  <2> HIDE DEF all
  <2>2. LET s == Read(all.fields, w)[i]
            g == all.fields[i + 1]
            after == Read(all.fields, w)[i + 1]
            end == ReadEnd(all, w).context
        IN  IF IsActive(g, s.context)
              THEN \E k : /\ Chosen(all.fixed, g, s.context, k)
                          /\ after.context = ContextOf(g, s.context, k)
                          /\ s.tokens = <<k - 1>> \o after.tokens
                          /\ g.name \in DOMAIN end /\ end[g.name] = Resolve(g, s.context)[k]
              ELSE after = s /\ g.name \notin DOMAIN end
    BY <2>1, ReadField
  <2> QED BY <2>1, <2>2, Zenon
<1> HIDE DEF all, r, f, next, last
<1>7. r.tokens \in From(in, Call(i + 1, r.context)).words <=>
        IF IsActive(f, r.context)
          THEN \E l : /\ Chosen(in.fixed, f, r.context, l)
                      /\ \E v \in From(in, Call(i + 1 + 1, ContextOf(f, r.context, l))).words :
                           r.tokens = <<l - 1>> \o v
          ELSE r.tokens \in From(in, Call(i + 1 + 1, r.context)).words
  BY <1>1, <1>5, WordCases DEF f
<1>8. r.tokens \in From(in, Call(i + 1, r.context)).words <=> AgreesFrom(in, last, i)
  <2>1. CASE ~ IsActive(f, r.context)
    <3>1. next = r /\ f.name \notin DOMAIN last
      BY <1>6, <2>1
    <3>2. Same
      BY <3>1
    <3> HIDE DEF Same
    <3> QED BY <1>3, <1>4, <1>7, <2>1, <3>1, <3>2
  <2>2. CASE IsActive(f, r.context)
    <3>1. PICK k : /\ Chosen(all.fixed, f, r.context, k)
                   /\ next.context = ContextOf(f, r.context, k)
                   /\ r.tokens = <<k - 1>> \o next.tokens
                   /\ f.name \in DOMAIN last /\ last[f.name] = Resolve(f, r.context)[k]
      BY <1>6, <2>2
    <3>2. k \in Nat
      BY <1>1, <1>5, <3>1, ChosenType DEF f
    <3>3. Chosen(in.fixed, f, r.context, k) <=> Same
      <4>1. Chosen(in.fixed, f, r.context, k) <=>
              /\ Chosen(all.fixed, f, r.context, k)
              /\ f.name \in DOMAIN in.fixed => in.fixed[f.name] = Resolve(f, r.context)[k]
        BY <3>2, ChosenUnfixed DEF all
      <4> QED BY <3>1, <4>1
    <3>4. ASSUME NEW l, Chosen(in.fixed, f, r.context, l),
                 NEW v \in From(in, Call(i + 1 + 1, ContextOf(f, r.context, l))).words,
                 r.tokens = <<l - 1>> \o v
          PROVE  l = k /\ v = next.tokens
      <4>1. l \in Nat /\ ContextOf(f, r.context, l) \in Contexts(in.fields)
        BY <1>1, <1>5, <3>4, ChosenType DEF f
      <4>2. v \in Seq(Int)
        BY <1>1, <4>1, WordsType
      <4>3. <<l - 1>> \o v = <<k - 1>> \o next.tokens
        BY <3>1, <3>4
      <4> DEFINE x == l - 1
                 y == k - 1
      <4>4. x \in Int /\ y \in Int /\ (x = y => l = k)
        BY <3>2, <4>1
      <4> HIDE DEF x, y
      <4>5. x = y /\ v = next.tokens
        <5>1. <<x>> \o v = <<y>> \o next.tokens
          BY <4>3 DEF x, y
        <5> QED BY <1>5, <4>2, <4>4, <5>1, ConsEqual
      <4> QED BY <4>4, <4>5
    <3> HIDE DEF Same
    <3>5. r.tokens \in From(in, Call(i + 1, r.context)).words =>
            Chosen(in.fixed, f, r.context, k)
              /\ next.tokens \in From(in, Call(i + 1 + 1, next.context)).words
      <4>1. SUFFICES ASSUME r.tokens \in From(in, Call(i + 1, r.context)).words
                     PROVE  Chosen(in.fixed, f, r.context, k)
                              /\ next.tokens \in From(in, Call(i + 1 + 1, next.context)).words
        OBVIOUS
      <4>2. PICK l : /\ Chosen(in.fixed, f, r.context, l)
                     /\ \E v \in From(in, Call(i + 1 + 1, ContextOf(f, r.context, l))).words :
                          r.tokens = <<l - 1>> \o v
        BY <1>7, <2>2, <4>1
      <4>3. PICK v \in From(in, Call(i + 1 + 1, ContextOf(f, r.context, l))).words :
              r.tokens = <<l - 1>> \o v
        BY <4>2
      <4>4. l = k /\ v = next.tokens
        BY <3>4, <4>2, <4>3
      <4> QED BY <3>1, <4>2, <4>3, <4>4
    <3>6. Chosen(in.fixed, f, r.context, k)
            /\ next.tokens \in From(in, Call(i + 1 + 1, next.context)).words =>
          r.tokens \in From(in, Call(i + 1, r.context)).words
      BY <1>7, <2>2, <3>1
    <3> QED BY <1>3, <1>4, <3>3, <3>5, <3>6
  <2> QED BY <2>1, <2>2
<1> QED BY <1>8 DEF WordAgrees, r, last

LEMMA AgreeingWords ==
  ASSUME NEW in, WellFormed(in.fields), ValidSchema(in.fields),
         NEW w \in From(Unfixed(in), Root).words
  PROVE  w \in From(in, Root).words <=>
           AgreesFrom(in, RecordFromTokens(in.fields, w).context, 0)
<1> DEFINE N == Len(in.fields)
           all == Unfixed(in)
           S == {i \in 0..N : WordAgrees(in, w, i)}
<1>1. N \in Nat /\ 0 \in 0..N /\ N \in 0..N
  BY InputFacts
<1>2. /\ Reads(all, w, N) /\ Read(in.fields, w)[0] = Sofar(w)
      /\ RecordFromTokens(in.fields, w) = ReadEnd(in, w) /\ ReadEnd(in, w).tokens = <<>>
  <2>1. all.fields = in.fields /\ ReadEnd(in, w) = Read(all.fields, w)[N]
    BY DEF Unfixed, ReadEnd
  <2> HIDE DEF all
  <2> QED BY <1>1, <2>1, ReadAll DEF all
<1>3. WordAgrees(in, w, N)
  <2> DEFINE last == ReadEnd(in, w)
  <2>1. last.context \in Contexts(in.fields)
    BY <1>2 DEF Reads, ReadEnd, Unfixed
  <2> HIDE DEF last
  <2>2. From(in, Call(N + 1, last.context)).words = {<<>>}
    BY <2>1, EndWords
  <2>3. \A j \in N + 1..N : FALSE
    BY <1>1
  <2>4. AgreesFrom(in, last.context, N)
    BY <2>3 DEF AgreesFrom
  <2>5. last.tokens = <<>> /\ last = Read(in.fields, w)[N]
    BY <1>2 DEF last, ReadEnd
  <2> QED BY <2>2, <2>4, <2>5 DEF WordAgrees, last
<1>4. \A i \in 0..N - 1 : i + 1 \in S => i \in S
  <2>1. \A i \in 0..N - 1 : i \in 0..N
    BY <1>1
  <2> QED BY <2>1, WordAgreesStep
<1>5. N \in S
  BY <1>1, <1>3
<1> HIDE DEF S
<1>6. \A i \in 0..N : i \in S
  BY <1>1, <1>4, <1>5, Downwards
<1>7. WordAgrees(in, w, 0)
  BY <1>1, <1>6 DEF S
<1>8. Sofar(w).tokens = w /\ Sofar(w).context = Nothing /\ Root = Call(0 + 1, Nothing)
  BY DEF Sofar, Nothing, Root
<1> QED BY <1>2, <1>7, <1>8 DEF WordAgrees

-----------------------------------------------------------------------------
\* Past its constructor the compiler works on a schema that was accepted.
Checked == phase \notin {"new", "invalid"} => ValidSchema(Fields)

LEMMA SchemaChecked == Spec => []Checked
<1>1. Init => Checked
  BY DEF Init, Checked
<1>2. Checked /\ [Next]_vars => Checked'
  <2>1. SUFFICES ASSUME Checked, [Next]_vars PROVE Checked'
    OBVIOUS
  <2>2. CASE Construct
    BY <2>2 DEF Construct, Checked, Fields
  <2>3. CASE Next /\ ~ Construct
    <3>1. phase \in {"call", "loop", "return"} /\ input' = input
      BY <2>3 DEF Next, CallEnd, CallKnown, CallInactive, CallUnresolved, CallDead, CallField,
                  Unknown, Resolvable, Calling, SkipValue, TryValue, TakeAnswer, PassAnswer,
                  CloseDead, CloseNode, Finish
    <3> QED BY <2>1, <3>1 DEF Checked, Fields
  <2>4. CASE UNCHANGED vars
    BY <2>1, <2>4 DEF vars, Checked, Fields
  <2> QED BY <2>1, <2>2, <2>3, <2>4
<1> QED BY <1>1, <1>2, PTL DEF Spec

LEMMA AnswerWords ==
  ASSUME IInv
  PROVE  phase \in {"done", "empty"} => WordsOf(answer) = From(input, Root).words
<1>1. AllWords(Fixed) = From(input, Root).words
  BY DEF AllWords, From, Root, Call, Fixed, Fields
<1>2. phase \in {"done", "empty"} => WordsOf(answer) = AllWords(Fixed)
  BY CompiledExactly, Zenon DEF CompilesExactly
<1> QED BY <1>1, <1>2

LEMMA RecordsMatch ==
  ASSUME IInv, Checked, input \in Inputs
  PROVE  RecordsAreWords
<1>1. SUFFICES ASSUME phase = "done" PROVE RecordsAreWords
  BY DEF RecordsAreWords
<1>2. WellFormed(Fields) /\ ValidSchema(Fields)
  BY <1>1, InputsAssumption DEF Checked, Fields
<1>3. WordsOf(answer) = From(input, Root).words
  BY <1>1, AnswerWords
<1>4. \A w \in WordsOf(answer) :
        LET r == RecordFromTokens(Fields, w)
        IN  r.ok /\ TokensFromRecord(Fields, Fixed, r.context) =
                      [ok |-> TRUE, context |-> r.context, tokens |-> w]
  BY <1>2, <1>3, WordsAreRecords DEF Fields, Fixed
<1>5. ASSUME NEW record \in Records, TokensFromRecord(Fields, Fixed, record).ok
      PROVE  /\ TokensFromRecord(Fields, Fixed, record).tokens \in WordsOf(answer)
             /\ TokensFromRecord(Fields, Fixed, record).context = record
  <2>1. record = [n \in DOMAIN record |-> record[n]]
    BY RecordsAssumption
  <2> QED BY <1>2, <1>3, <1>5, <2>1, RecordsHaveWords DEF Fields, Fixed
<1> QED BY <1>4, <1>5, Zenon DEF RecordsAreWords

LEMMA ConditionedWords ==
  ASSUME IInv, Checked, input \in Inputs
  PROVE  Conditioned
<1>1. SUFFICES ASSUME phase \in {"done", "empty"} PROVE Conditioned
  BY DEF Conditioned
<1>2. WellFormed(input.fields) /\ ValidSchema(input.fields)
  BY <1>1, InputsAssumption DEF Checked, Fields
<1>3. WordsOf(answer) = From(input, Root).words
  BY <1>1, AnswerWords
<1>4. AllWords(Nothing) = From(Unfixed(input), Root).words
  BY DEF AllWords, From, Root, Call, Fields, Unfixed
<1>5. ASSUME NEW w \in AllWords(Nothing)
      PROVE  w \in WordsOf(answer) <=> Agrees(RecordFromTokens(Fields, w).context)
  <2> DEFINE record == RecordFromTokens(Fields, w).context
             N == Len(input.fields)
  <2>1. w \in From(Unfixed(input), Root).words
    BY <1>4
  <2>2. N \in Nat /\ DOMAIN input.fields = 1..N
    BY <1>2, InputFacts
  <2>3. DOMAIN record \subseteq NamesOf(input.fields)
    <3>1. Unfixed(input).fields = input.fields
      BY DEF Unfixed
    <3>2. Reads(Unfixed(input), w, N) /\ RecordFromTokens(input.fields, w) = Read(input.fields, w)[N]
      BY <1>2, <2>1, <2>2, <3>1, ReadAll
    <3>3. record \in Contexts(input.fields)
      BY <3>1, <3>2 DEF Reads, Fields
    <3> QED BY <3>3 DEF Contexts
  <2>4. w \in WordsOf(answer) <=> AgreesFrom(input, record, 0)
    BY <1>2, <1>3, <2>1, AgreeingWords DEF Fields
  <2> HIDE DEF record
  <2>5. AgreesFrom(input, record, 0) <=> Agrees(record)
    <3>1. \A n : n \in NamesOf(input.fields) <=> \E j \in 0 + 1..N : n = input.fields[j].name
      BY <2>2 DEF NamesOf
    <3> QED BY <2>3, <3>1 DEF AgreesFrom, Agrees, Fixed
  <2> QED BY <2>4, <2>5 DEF record
<1>6. WordsOf(answer) \subseteq AllWords(Nothing)
  BY <1>2, <1>3, <1>4, FewerWords
<1>7. WordsOf(answer) = {w \in AllWords(Nothing) : Agrees(RecordFromTokens(Fields, w).context)}
  BY <1>5, <1>6
<1> QED BY <1>7 DEF Conditioned

\* For every schema and everything that can be fixed, unrank's record of each
\* word of the space is ranked to this word, and every record that rank accepts
\* is the record of a word of the space.
THEOREM RecordsMatchWords == Spec => []RecordsAreWords
<1>1. IInv /\ Checked /\ input \in Inputs => RecordsAreWords
  BY RecordsMatch
<1> QED BY CompilerInvariant, SchemaChecked, <1>1, PTL

\* For every schema, what condition fixes leaves exactly those words of the
\* parent space whose records agree with it.
THEOREM ConditionsExactly == Spec => []Conditioned
<1>1. IInv /\ Checked /\ input \in Inputs => Conditioned
  BY ConditionedWords
<1> QED BY CompilerInvariant, SchemaChecked, <1>1, PTL

-----------------------------------------------------------------------------
(* Schemas in files *)

Optional(S) == \A x, y \in S : x = y

\* What the dataclasses hold, and what a file may hold.
IsField(f) ==
  /\ f = Codec!Field(f.name, f.values, f.dependsOn, f.cases, f.default, f.when)
  /\ Optional(f.values) /\ Optional(f.dependsOn)
  /\ f.when = [i \in DOMAIN f.when |-> [field |-> f.when[i].field, values |-> f.when[i].values]]
IsSchema(s) == s = [i \in DOMAIN s |-> s[i]] /\ \A i \in DOMAIN s : IsField(s[i])
CodecAssumption ==
  /\ \A s \in Built : IsSchema(s)
  /\ \A raws \in Documents : \A i \in DOMAIN raws :
       Optional(raws[i].values) /\ Optional(raws[i].dependsOn) /\ DOMAIN raws[i].cases.items \subseteq Int

\* A field comes back from what to_dict writes of it.
LEMMA FieldReturns ==
  ASSUME NEW f, IsField(f), Codec!FieldAccepted(f)
  PROVE  Codec!FieldFromDict(Codec!FieldToDict(f)) = {f}
<1> DEFINE raw == Codec!FieldToDict(f)
<1>1. /\ raw.name = f.name /\ raw.values = f.values /\ raw.dependsOn = f.dependsOn
      /\ raw.cases.items = f.cases /\ raw.default = f.default
  BY DEF Codec!FieldToDict, Codec!Listed
<1>2. Codec!When(raw) = f.when
  <2> DEFINE items == [i \in DOMAIN f.when |->
                         [field |-> f.when[i].field, scalar |-> FALSE, values |-> f.when[i].values]]
  <2>1. raw.when.items = items
    BY DEF Codec!FieldToDict, Codec!Listed
  <2>2. DOMAIN items = DOMAIN f.when
    OBVIOUS
  <2>3. \A i \in DOMAIN f.when : /\ items[i].field = f.when[i].field /\ items[i].scalar = FALSE
                                 /\ items[i].values = f.when[i].values
    OBVIOUS
  <2> HIDE DEF items
  <2>4. Codec!When(raw) = [i \in DOMAIN f.when |->
                             [field |-> items[i].field,
                              values |-> IF items[i].scalar THEN <<items[i].values>> ELSE items[i].values]]
    BY <2>1, <2>2 DEF Codec!When
  <2>5. Codec!When(raw) = [i \in DOMAIN f.when |->
                             [field |-> f.when[i].field, values |-> f.when[i].values]]
    BY <2>3, <2>4
  <2> QED BY <2>5 DEF IsField
<1> HIDE DEF raw
<1>3. f = Codec!Field(f.name, f.values, f.dependsOn, f.cases, f.default, f.when)
  BY DEF IsField
<1>4. CASE f.dependsOn = {}
  <2>1. f.values # {} /\ f.cases = <<>> /\ f.default = {}
    BY <1>4 DEF Codec!FieldAccepted, Codec!Nothing
  <2>2. PICK v : f.values = {v}
    BY <2>1 DEF IsField, Optional
  <2>3. Codec!FieldFromDict(raw) = {Codec!Enum(f.name, w, f.when) : w \in {v}}
    BY <1>1, <1>2, <1>4, <2>2 DEF Codec!FieldFromDict, Codec!Nothing
  <2>4. Codec!Enum(f.name, v, f.when) = f
    BY <1>3, <1>4, <2>1, <2>2 DEF Codec!Enum, Codec!Some, Codec!Nothing
  <2> QED BY <2>3, <2>4 DEF raw
<1>5. CASE f.dependsOn # {}
  <2>1. f.values = {}
    BY <1>5 DEF Codec!FieldAccepted, Codec!Nothing
  <2>2. PICK d : f.dependsOn = {d}
    BY <1>5 DEF IsField, Optional
  <2>3. Codec!FieldFromDict(raw) = {Codec!Dependent(f.name, e, f.cases, f.default, f.when) : e \in {d}}
    BY <1>1, <1>2, <1>5, <2>2 DEF Codec!FieldFromDict, Codec!Nothing
  <2>4. Codec!Dependent(f.name, d, f.cases, f.default, f.when) = f
    BY <1>3, <2>1, <2>2 DEF Codec!Dependent, Codec!Some, Codec!Nothing
  <2> QED BY <2>3, <2>4 DEF raw
<1> QED BY <1>4, <1>5

\* So does a schema.
LEMMA SchemaReturns ==
  ASSUME NEW s, IsSchema(s), Codec!SchemaAccepted(s)
  PROVE  Codec!FromDict(Codec!Json(Codec!ToDict(s))) = {s}
<1> DEFINE raws == [i \in DOMAIN s |-> Codec!FieldToDict(s[i])]
<1>1. Codec!ToDict(s) = raws
  BY DEF Codec!ToDict
<1>2. DOMAIN raws = DOMAIN s /\ \A i \in DOMAIN s : raws[i] = Codec!FieldToDict(s[i])
  OBVIOUS
<1>3. \A f : Codec!FieldToDict(f).cases.form = "list"
  BY DEF Codec!FieldToDict, Codec!Listed
<1> HIDE DEF raws
<1>4. raws = [i \in DOMAIN s |-> raws[i]]
  BY <1>2 DEF raws
<1>5. \A i \in DOMAIN s : raws[i].cases.form # "map"
  BY <1>2, <1>3
<1>6. Codec!Json(raws) = raws
  <2>1. Codec!Json(raws) = [i \in DOMAIN s |-> raws[i]]
    BY <1>2, <1>5 DEF Codec!Json
  <2> QED BY <1>4, <2>1
<1>7. \A i \in DOMAIN s : Codec!FieldFromDict(raws[i]) = {s[i]}
  BY <1>2, FieldReturns DEF IsSchema, Codec!SchemaAccepted
<1>8. [i \in DOMAIN raws |-> CHOOSE f \in Codec!FieldFromDict(raws[i]) : TRUE] = s
  <2>1. [i \in DOMAIN raws |-> CHOOSE f \in Codec!FieldFromDict(raws[i]) : TRUE]
          = [i \in DOMAIN s |-> CHOOSE f \in {s[i]} : TRUE]
    BY <1>2, <1>7
  <2>2. \A i \in DOMAIN s : (CHOOSE f \in {s[i]} : TRUE) = s[i]
    OBVIOUS
  <2>3. [i \in DOMAIN s |-> CHOOSE f \in {s[i]} : TRUE] = [i \in DOMAIN s |-> s[i]]
    BY <2>2
  <2> QED BY <2>1, <2>3 DEF IsSchema
<1>9. Codec!FromDict(raws) = {fields \in {s} : Codec!SchemaAccepted(fields)}
  BY <1>2, <1>7, <1>8 DEF Codec!FromDict
<1> QED BY <1>1, <1>6, <1>9

\* What from_dict makes of a document is a schema, field by field.
LEMMA SchemaLoads ==
  ASSUME CodecAssumption, NEW raws \in Documents, NEW s \in Codec!FromDict(raws)
  PROVE  /\ IsSchema(s) /\ Codec!SchemaAccepted(s) /\ DOMAIN s = DOMAIN raws
         /\ \A i \in DOMAIN raws : s[i] \in Codec!FieldFromDict(raws[i])
<1> DEFINE made == [i \in DOMAIN raws |-> CHOOSE f \in Codec!FieldFromDict(raws[i]) : TRUE]
<1>1. s = made /\ Codec!SchemaAccepted(s) /\ \A i \in DOMAIN raws : Codec!FieldFromDict(raws[i]) # {}
  BY DEF Codec!FromDict
<1>2. DOMAIN s = DOMAIN raws /\ s = [i \in DOMAIN s |-> s[i]]
  BY <1>1
<1>3. \A i \in DOMAIN raws : s[i] \in Codec!FieldFromDict(raws[i])
  BY <1>1
<1> HIDE DEF made
<1>4. ASSUME NEW i \in DOMAIN raws PROVE IsField(s[i])
  <2>1. Optional(raws[i].values) /\ Optional(raws[i].dependsOn)
    BY DEF CodecAssumption
  <2>2. PICK when : when = Codec!When(raws[i])
    OBVIOUS
  <2>3. when = [j \in DOMAIN when |-> [field |-> when[j].field, values |-> when[j].values]]
    BY <2>2 DEF Codec!When
  <2>4. CASE raws[i].dependsOn = {}
    <3>1. PICK v \in raws[i].values : s[i] = Codec!Enum(raws[i].name, v, when)
      BY <1>3, <2>2, <2>4 DEF Codec!FieldFromDict, Codec!Nothing
    <3> QED BY <2>3, <3>1 DEF IsField, Optional, Codec!Enum, Codec!Field, Codec!Some, Codec!Nothing
  <2>5. CASE raws[i].dependsOn # {}
    <3>1. PICK d \in raws[i].dependsOn :
            s[i] = Codec!Dependent(raws[i].name, d, raws[i].cases.items, raws[i].default, when)
      BY <1>3, <2>2, <2>5 DEF Codec!FieldFromDict, Codec!Nothing
    <3> QED BY <2>3, <3>1 DEF IsField, Optional, Codec!Dependent, Codec!Field, Codec!Some, Codec!Nothing
  <2> QED BY <2>4, <2>5
<1> QED BY <1>1, <1>2, <1>3, <1>4 DEF IsSchema

\* A condition means the same in the document and in the field.
LEMMA SameConditions ==
  ASSUME NEW raw, NEW when, when = Codec!When(raw), NEW context
  PROVE  (\E i \in DOMAIN when : context[when[i].field] \notin Codec!ToSet(when[i].values))
           <=> \E i \in DOMAIN raw.when.items :
                 ~ (context[raw.when.items[i].field]
                      \in (IF raw.when.items[i].scalar THEN {raw.when.items[i].values}
                           ELSE Codec!ToSet(raw.when.items[i].values)))
<1>1. DOMAIN when = DOMAIN raw.when.items
  BY DEF Codec!When
<1>2. ASSUME NEW i \in DOMAIN raw.when.items
      PROVE  /\ when[i].field = raw.when.items[i].field
             /\ Codec!ToSet(when[i].values)
                  = IF raw.when.items[i].scalar THEN {raw.when.items[i].values}
                    ELSE Codec!ToSet(raw.when.items[i].values)
  <2>1. /\ when[i].field = raw.when.items[i].field
        /\ when[i].values = IF raw.when.items[i].scalar THEN <<raw.when.items[i].values>>
                            ELSE raw.when.items[i].values
    BY DEF Codec!When
  <2>2. \A x : Codec!ToSet(<<x>>) = {x}
    BY DEF Codec!ToSet
  <2> QED BY <2>1, <2>2
<1> QED BY <1>1, <1>2

\* A loaded field has in every context the values that its document means.
LEMMA FieldMeans ==
  ASSUME NEW raw, NEW f \in Codec!FieldFromDict(raw), Codec!FieldAccepted(f), NEW context,
         Optional(raw.values), Optional(raw.dependsOn), DOMAIN raw.cases.items \subseteq Int
  PROVE  Codec!Resolved(f, context) = Codec!Meant(raw, context)
<1>1. PICK when : when = Codec!When(raw)
  OBVIOUS
<1> DEFINE Off == \E i \in DOMAIN when : context[when[i].field] \notin Codec!ToSet(when[i].values)
           RawOff == \E i \in DOMAIN raw.when.items :
                       ~ (context[raw.when.items[i].field]
                            \in (IF raw.when.items[i].scalar THEN {raw.when.items[i].values}
                                 ELSE Codec!ToSet(raw.when.items[i].values)))
<1>2. Off <=> RawOff
  BY <1>1, SameConditions
<1>3. CASE raw.dependsOn = {}
  <2>1. PICK v \in raw.values : f = Codec!Enum(raw.name, v, when)
    BY <1>1, <1>3 DEF Codec!FieldFromDict, Codec!Nothing
  <2>2. f.dependsOn = {} /\ f.values = {v} /\ f.when = when
    BY <2>1 DEF Codec!Enum, Codec!Field, Codec!Some, Codec!Nothing
  <2>3. raw.values = {v}
    BY DEF Optional
  <2>4. Codec!Resolved(f, context) = IF Off THEN {} ELSE {v}
    BY <2>2 DEF Codec!Resolved, Codec!Nothing
  <2>5. Codec!Meant(raw, context) = IF RawOff THEN {} ELSE {v}
    BY <1>3, <2>3 DEF Codec!Meant, Codec!Nothing
  <2> QED BY <1>2, <2>4, <2>5
<1>4. CASE raw.dependsOn # {}
  <2>1. PICK d \in raw.dependsOn :
          f = Codec!Dependent(raw.name, d, raw.cases.items, raw.default, when)
    BY <1>1, <1>4 DEF Codec!FieldFromDict, Codec!Nothing
  <2>2. PICK cases : cases = raw.cases.items
    OBVIOUS
  <2>3. f.dependsOn = {d} /\ f.when = when /\ f.cases = cases /\ f.default = raw.default
    BY <2>1, <2>2 DEF Codec!Dependent, Codec!Field, Codec!Some
  <2>4. raw.dependsOn = {d}
    BY DEF Optional
  <2> DEFINE fitting == {i \in DOMAIN cases : cases[i].equals = context[d]}
  <2>5. fitting = {} \/ \E k : fitting = {k}
    <3>1. Codec!IsInjective([i \in DOMAIN cases |-> cases[i].equals])
      BY <2>3 DEF Codec!FieldAccepted, Codec!Nothing
    <3>2. \A i, j \in DOMAIN cases : cases[i].equals = cases[j].equals => i = j
      BY <3>1 DEF Codec!IsInjective
    <3> QED BY <3>2
  <2> DEFINE mine == IF fitting = {} THEN raw.default ELSE {cases[Codec!Min(fitting)].values}
             meant == IF fitting = {} THEN raw.default ELSE {cases[i].values : i \in fitting}
  <2>6. Codec!Resolved(f, context) = IF Off THEN {} ELSE UNION {mine}
    <3> DEFINE at(e) == {i \in DOMAIN cases : cases[i].equals = context[e]}
               values(e) == IF at(e) = {} THEN raw.default ELSE {cases[Codec!Min(at(e))].values}
    <3>1. Codec!Resolved(f, context) = IF Off THEN {} ELSE UNION {values(e) : e \in {d}}
      BY <2>3 DEF Codec!Resolved, Codec!Nothing
    <3>2. values(d) = mine
      OBVIOUS
    <3> HIDE DEF values, mine
    <3>3. {values(e) : e \in {d}} = {mine}
      BY <3>2
    <3> QED BY <3>1, <3>3
  <2>7. Codec!Meant(raw, context) = IF RawOff THEN {} ELSE UNION {meant}
    <3> DEFINE at(e) == {i \in DOMAIN raw.cases.items : raw.cases.items[i].equals = context[e]}
               values(e) == IF at(e) = {} THEN raw.default ELSE {raw.cases.items[i].values : i \in at(e)}
    <3>1. Codec!Meant(raw, context) = IF RawOff THEN {} ELSE UNION {values(e) : e \in raw.dependsOn}
      BY <2>4, Zenon DEF Codec!Meant, Codec!Nothing
    <3>2. values(d) = meant
      BY <2>2
    <3> HIDE DEF values, meant
    <3>3. {values(e) : e \in raw.dependsOn} = {meant}
      BY <2>4, <3>2
    <3> QED BY <3>1, <3>3
  <2>8. mine = meant
    <3>1. CASE fitting = {}
      BY <3>1
    <3>2. CASE fitting # {}
      <4>1. PICK k : fitting = {k}
        BY <2>5, <3>2
      <4>2. k \in fitting
        BY <4>1
      <4> HIDE DEF fitting
      <4>3. Codec!Min({k}) = k
        <5>1. Codec!Min({k}) = CHOOSE x \in {k} : \A y \in {k} : x =< y
          BY DEF Codec!Min
        <5>2. k \in Int /\ k =< k
          BY <2>2, <4>2 DEF fitting
        <5> QED BY <5>1, <5>2
      <4> QED BY <4>1, <4>3
    <3> QED BY <3>1, <3>2
  <2> HIDE DEF mine, meant
  <2> QED BY <1>2, <2>6, <2>7, <2>8
<1> QED BY <1>3, <1>4

\* The invariant of loading, saving and loading again.
CodecInv ==
  /\ document \in Documents \cup {<<>>}
  /\ pc \in {"empty", "refused", "ready", "saved", "again"}
  /\ pc \in {"ready", "saved", "again"} => IsSchema(schema) /\ Codec!SchemaAccepted(schema)
  /\ pc = "ready" /\ document # <<>> => schema \in Codec!FromDict(document)
  /\ pc = "saved" => file = Codec!Json(Codec!ToDict(schema))
  /\ pc = "again" => again = schema

\* Every schema comes back from its file as it was, and every document has the
\* meaning that the language gives it, whatever its fields, conditions and cases.
THEOREM FilesKeepSchemas ==
  ASSUME CodecAssumption
  PROVE  Codec!Spec => []Codec!SavedIsSame
<1>1. Codec!Init => CodecInv
  BY DEF Codec!Init, CodecInv
<1>2. CodecInv /\ [Codec!Next]_(Codec!vars) => CodecInv'
  <2>1. SUFFICES ASSUME CodecInv, [Codec!Next]_(Codec!vars) PROVE CodecInv'
    OBVIOUS
  <2>2. CASE Codec!Load
    <3>1. pc = "empty" /\ document # <<>> /\ document' = document
      BY <2>2 DEF Codec!Load
    <3>2. document \in Documents
      BY <2>1, <3>1 DEF CodecInv
    <3>3. CASE Codec!FromDict(document) = {}
      <4>1. pc' = "refused"
        BY <2>2, <3>3 DEF Codec!Load
      <4> QED BY <3>1, <3>2, <4>1 DEF CodecInv
    <3>4. CASE Codec!FromDict(document) # {}
      <4>1. pc' = "ready" /\ schema' \in Codec!FromDict(document)
        BY <2>2, <3>4 DEF Codec!Load
      <4>2. IsSchema(schema') /\ Codec!SchemaAccepted(schema')
        BY <3>2, <4>1, SchemaLoads
      <4> QED BY <3>1, <3>2, <4>1, <4>2 DEF CodecInv
    <3> QED BY <3>3, <3>4
  <2>3. CASE Codec!Build
    <3>1. PICK fields \in Built :
            IF Codec!SchemaAccepted(fields) THEN pc' = "ready" /\ schema' = fields
            ELSE pc' = "refused" /\ UNCHANGED schema
      BY <2>3 DEF Codec!Build
    <3>2. document = <<>> /\ document' = document
      BY <2>3 DEF Codec!Build
    <3>3. IsSchema(fields)
      BY DEF CodecAssumption
    <3> QED BY <3>1, <3>2, <3>3 DEF CodecInv
  <2>4. CASE Codec!Save
    BY <2>1, <2>4 DEF CodecInv, Codec!Save
  <2>5. CASE Codec!Reload
    <3>1. /\ pc = "saved" /\ file = Codec!Json(Codec!ToDict(schema))
          /\ IsSchema(schema) /\ Codec!SchemaAccepted(schema)
          /\ document \in Documents \cup {<<>>}
      BY <2>1, <2>5 DEF CodecInv, Codec!Reload
    <3>2. Codec!FromDict(file) = {schema}
      BY <3>1, SchemaReturns
    <3>3. pc' = "again" /\ again' = schema /\ UNCHANGED <<document, schema, file>>
      BY <2>5, <3>2 DEF Codec!Reload
    <3> QED BY <3>1, <3>3 DEF CodecInv
  <2>6. CASE UNCHANGED Codec!vars
    BY <2>1, <2>6 DEF CodecInv, Codec!vars
  <2> QED BY <2>1, <2>2, <2>3, <2>4, <2>5, <2>6 DEF Codec!Next
<1>3. CodecInv => Codec!SavedIsSame
  <2>1. SUFFICES ASSUME CodecInv PROVE Codec!SavedIsSame
    OBVIOUS
  <2>2. pc # "lost" /\ (pc = "again" => again = schema)
    BY <2>1 DEF CodecInv
  <2>3. ASSUME pc = "ready", document # <<>>, NEW context, NEW i \in DOMAIN schema
        PROVE  Codec!Resolved(schema[i], context) = Codec!Meant(document[i], context)
    <3>1. document \in Documents /\ schema \in Codec!FromDict(document)
      BY <2>1, <2>3 DEF CodecInv
    <3>2. i \in DOMAIN document /\ schema[i] \in Codec!FieldFromDict(document[i])
      BY <3>1, SchemaLoads
    <3>3. Codec!FieldAccepted(schema[i])
      BY <3>1, SchemaLoads DEF Codec!SchemaAccepted
    <3>4. /\ Optional(document[i].values) /\ Optional(document[i].dependsOn)
          /\ DOMAIN document[i].cases.items \subseteq Int
      BY <3>1, <3>2 DEF CodecAssumption
    <3> QED BY <3>2, <3>3, <3>4, FieldMeans
  <2> QED BY <2>2, <2>3 DEF Codec!SavedIsSame
<1> QED BY <1>1, <1>2, <1>3, PTL DEF Codec!Spec
-----------------------------------------------------------------------------
(* Stratified samples.  The records of a space are the contexts that its   *)
(* fields leave, one field after the other (Met); those of a stratum are   *)
(* the ones that agree with what is fixed for it (Narrowed).               *)

CONSTANTS Spaces, Splits, Amounts
VARIABLES space, split, amount, strata, shares, stratum, drawn

Strat == INSTANCE Stratified WITH
  Fields <- Splits, Sizes <- Amounts, field <- split, n <- amount, allocations <- shares, output <- drawn

\* Stratified reads schemas as the compiler does: the definitions of FinSchema
\* that it shares are the same.
LEMMA SameSchemas ==
  /\ \A f, c : Strat!IsActive(f, c) <=> IsActive(f, c)
  /\ \A f, c : Strat!Unresolved(f, c) <=> Unresolved(f, c)
  /\ \A f, c : Strat!Resolve(f, c) = Resolve(f, c)
  /\ \A c, name, v : Strat!With(c, name, v) = With(c, name, v)
  /\ \A fields : Strat!NamesOf(fields) = NamesOf(fields)
  /\ \A s : Strat!ToSet(s) = {s[i] : i \in DOMAIN s}
<1>1. \A f, c : Strat!IsActive(f, c) <=> IsActive(f, c)
  BY DEF Strat!IsActive, IsActive, Strat!Matches, Matches
<1>2. \A f, c : Strat!Unresolved(f, c) <=> Unresolved(f, c)
  BY <1>1 DEF Strat!Unresolved, Unresolved, Strat!None, None
<1>3. \A f, c : Strat!Resolve(f, c) = Resolve(f, c)
  BY <1>1 DEF Strat!Resolve, Resolve, Strat!None, None, Strat!NoValues, NoValues
<1>4. \A c, name, v : Strat!With(c, name, v) = With(c, name, v)
  BY DEF Strat!With, With
<1>5. \A fields : Strat!NamesOf(fields) = NamesOf(fields)
  BY DEF Strat!NamesOf, NamesOf
<1>6. \A s : Strat!ToSet(s) = {s[i] : i \in DOMAIN s}
  BY DEF Strat!ToSet
<1> QED BY <1>1, <1>2, <1>3, <1>4, <1>5, <1>6

\* So are the rounds of _tokens_from_record,
LEMMA SameRound ==
  ASSUME NEW fixed, NEW record, NEW sofar, NEW f
  PROVE  Strat!TakeField(fixed, record, sofar, f) = TakeField(fixed, record, sofar, f)
<1>1. /\ Strat!IsActive(f, sofar.context) <=> IsActive(f, sofar.context)
      /\ Strat!Unresolved(f, sofar.context) <=> Unresolved(f, sofar.context)
      /\ Strat!Resolve(f, sofar.context) = Resolve(f, sofar.context)
      /\ Strat!With(sofar.context, f.name, record[f.name]) = With(sofar.context, f.name, record[f.name])
      /\ Strat!Refused = Refused
  BY SameSchemas DEF Strat!Refused, Refused
<1>2. \A values, v : /\ Strat!Contains(values, v) <=> Contains(values, v)
                     /\ Strat!PositionIn(values, v) = PositionIn(values, v)
  BY DEF Strat!Contains, Contains, Strat!PositionIn, PositionIn, Strat!SelectInSeq, SelectInSeq, Strat!Min, Min
<1> QED BY <1>1, <1>2 DEF Strat!TakeField, TakeField

\* and all of them together.
LEMMA SameTaken ==
  ASSUME NEW fields, NEW fixed, NEW record, Len(fields) \in Nat
  PROVE  Strat!Taken(fields, fixed, record)[Len(fields)] = Taken(fields, fixed, record)[Len(fields)]
<1> DEFINE N == Len(fields)
           p == Strat!Taken(fields, fixed, record)
           q == Taken(fields, fixed, record)
           S == {i \in 0..N : p[i] = q[i]}
<1>1. \A x, i : Strat!TakeField(fixed, record, x, fields[i]) = TakeField(fixed, record, x, fields[i])
  BY SameRound
<1>2. Strat!Sofar(<<>>) = Sofar(<<>>)
  BY DEF Strat!Sofar, Sofar
<1>3. \A r : r = [i \in 0..N |-> IF i = 0 THEN Strat!Sofar(<<>>)
                                 ELSE Strat!TakeField(fixed, record, r[i - 1], fields[i])]
             <=> TakenUpTo(fields, fixed, record, N, r)
  BY <1>1, <1>2 DEF TakenUpTo
<1>4. \E r : r = [i \in 0..N |-> IF i = 0 THEN Strat!Sofar(<<>>)
                                 ELSE Strat!TakeField(fixed, record, r[i - 1], fields[i])]
  BY <1>3, TakenExists
<1>5. p = [i \in 0..N |-> IF i = 0 THEN Strat!Sofar(<<>>)
                          ELSE Strat!TakeField(fixed, record, p[i - 1], fields[i])]
  BY <1>4 DEF Strat!Taken
<1>6. TakenUpTo(fields, fixed, record, N, p)
  BY <1>3, <1>5
<1>7. /\ q[0] = Sofar(<<>>)
      /\ \A i \in 1..N : q[i] = TakeField(fixed, record, q[i - 1], fields[i])
  BY TakenAt
<1> HIDE DEF p, q
<1>8. /\ p[0] = Sofar(<<>>)
      /\ \A i \in 1..N : p[i] = TakeField(fixed, record, p[i - 1], fields[i])
  <2>1. p = [i \in 0..N |-> IF i = 0 THEN Sofar(<<>>)
                            ELSE TakeField(fixed, record, p[i - 1], fields[i])]
    BY <1>6, Zenon DEF TakenUpTo
  <2> QED BY <2>1
<1>9. 0 \in S
  BY <1>7, <1>8
<1>10. ASSUME NEW i \in 0..N - 1, i \in S PROVE i + 1 \in S
  <2>1. i + 1 \in 1..N /\ i + 1 - 1 = i /\ p[i] = q[i]
    BY <1>10
  <2>2. p[i + 1] = q[i + 1]
    BY <1>7, <1>8, <2>1
  <2> QED BY <2>1, <2>2
<1> HIDE DEF S
<1>11. \A i \in 0..N : i \in S
  BY <1>9, <1>10, Upwards
<1>12. N \in S
  BY <1>11
<1> QED BY <1>12 DEF S, p, q

-----------------------------------------------------------------------------
\* The contexts that the fields up to the i-th leave, and how a field extends one.
Met(fields, fixed, i) == Strat!Extended(fields, fixed)[i].contexts
StuckBy(fields, fixed, i) == Strat!Extended(fields, fixed)[i].stuck
Extends(fixed, f, c, d) == \/ ~ IsActive(f, c) /\ d = c
                          \/ \E k : Chosen(fixed, f, c, k) /\ d = ContextOf(f, c, k)

\* What one field makes of the contexts.
LEMMA ExtendedField ==
  ASSUME NEW fixed, NEW sofar, NEW f
  PROVE  /\ \A d : d \in Strat!ExtendContexts(fixed, sofar, f).contexts <=>
                     \E c \in sofar.contexts : Extends(fixed, f, c, d)
         /\ Strat!ExtendContexts(fixed, sofar, f).stuck <=>
              sofar.stuck \/ \E c \in sofar.contexts : Unresolved(f, c)
<1> DEFINE active == {c \in sofar.contexts : IsActive(f, c)}
           Given(c) == {With(c, f.name, v) : v \in {w \in Strat!ToSet(Resolve(f, c)) : Strat!Accepts(fixed, f, w)}}
           new == UNION {Given(c) : c \in {d \in active : ~ Unresolved(f, d)}}
<1>1. /\ Strat!ExtendContexts(fixed, sofar, f).contexts = (sofar.contexts \ active) \cup new
      /\ Strat!ExtendContexts(fixed, sofar, f).stuck = (sofar.stuck \/ \E c \in active : Unresolved(f, c))
  BY SameSchemas DEF Strat!ExtendContexts
<1>2. \A c : Unresolved(f, c) => IsActive(f, c)
  BY DEF Unresolved
<1>3. ASSUME NEW c, IsActive(f, c), ~ Unresolved(f, c), NEW d
      PROVE  d \in Given(c) <=> \E k : Chosen(fixed, f, c, k) /\ d = ContextOf(f, c, k)
  <2>1. \A w : w \in Strat!ToSet(Resolve(f, c)) <=> \E k \in DOMAIN Resolve(f, c) : w = Resolve(f, c)[k]
    BY SameSchemas
  <2>2. \A k : Chosen(fixed, f, c, k) <=> k \in DOMAIN Resolve(f, c) /\ Strat!Accepts(fixed, f, Resolve(f, c)[k])
    BY <1>3 DEF Chosen, Allowed, Strat!Accepts
  <2> QED BY <2>1, <2>2 DEF ContextOf
<1>4. \A c, k : Chosen(fixed, f, c, k) => IsActive(f, c) /\ ~ Unresolved(f, c)
  BY DEF Chosen
<1> HIDE DEF Given
<1>5. ASSUME NEW d
      PROVE  d \in Strat!ExtendContexts(fixed, sofar, f).contexts <=>
               \E c \in sofar.contexts : Extends(fixed, f, c, d)
  <2>1. d \in Strat!ExtendContexts(fixed, sofar, f).contexts <=>
          \/ d \in sofar.contexts /\ ~ IsActive(f, d)
          \/ \E c \in sofar.contexts : IsActive(f, c) /\ ~ Unresolved(f, c) /\ d \in Given(c)
    BY <1>1
  <2> QED BY <1>3, <1>4, <2>1 DEF Extends
<1>6. Strat!ExtendContexts(fixed, sofar, f).stuck <=> sofar.stuck \/ \E c \in sofar.contexts : Unresolved(f, c)
  BY <1>1, <1>2
<1> QED BY <1>5, <1>6

\* The contexts are made field by field, from the empty one.
LEMMA ExtendedAt ==
  ASSUME NEW fields, NEW fixed, Len(fields) \in Nat
  PROVE  /\ Met(fields, fixed, 0) = {Nothing} /\ ~ StuckBy(fields, fixed, 0)
         /\ \A i \in 0..Len(fields) - 1 :
              /\ \A d : d \in Met(fields, fixed, i + 1) <=>
                          \E c \in Met(fields, fixed, i) : Extends(fixed, fields[i + 1], c, d)
              /\ StuckBy(fields, fixed, i + 1) <=>
                   \/ StuckBy(fields, fixed, i)
                   \/ \E c \in Met(fields, fixed, i) : Unresolved(fields[i + 1], c)
<1> DEFINE N == Len(fields)
           Step(x, i) == Strat!ExtendContexts(fixed, x, fields[i])
           start == [contexts |-> {<<>>}, stuck |-> FALSE]
           UpTo(n, p) == p = [i \in 0..n |-> IF i = 0 THEN start ELSE Step(p[i - 1], i)]
           S == {n \in 0..N : \E p : UpTo(n, p)}
           e == Strat!Extended(fields, fixed)
<1>0. (\E p : UpTo(N, p)) => UpTo(N, e)
  BY DEF Strat!Extended
<1> HIDE DEF Step, start, e
<1>1. 0 \in S
  <2> DEFINE p == [i \in 0..0 |-> start]
  <2>1. UpTo(0, p)
    OBVIOUS
  <2> HIDE DEF UpTo
  <2> QED BY <2>1
<1>2. ASSUME NEW n \in 0..N - 1, n \in S PROVE n + 1 \in S
  <2>1. PICK p : UpTo(n, p)
    BY <1>2
  <2> DEFINE q == [i \in 0..n + 1 |-> IF i = n + 1 THEN Step(p[n], n + 1) ELSE p[i]]
  <2>2. ASSUME NEW i \in 0..n + 1
        PROVE  q[i] = IF i = 0 THEN start ELSE Step(q[i - 1], i)
    <3>1. CASE i = n + 1
      <4>1. q[i] = Step(p[n], i) /\ q[i - 1] = p[n] /\ i # 0
        BY <3>1
      <4> QED BY <4>1
    <3>2. CASE i # n + 1
      <4>1. i \in 0..n /\ q[i] = p[i] /\ (i # 0 => q[i - 1] = p[i - 1])
        BY <3>2
      <4>2. p[i] = IF i = 0 THEN start ELSE Step(p[i - 1], i)
        BY <2>1, <4>1
      <4> QED BY <4>1, <4>2
    <3> QED BY <3>1, <3>2
  <2>3. DOMAIN q = 0..n + 1 /\ q = [i \in 0..n + 1 |-> q[i]]
    OBVIOUS
  <2> HIDE DEF q
  <2>4. UpTo(n + 1, q)
    BY <2>2, <2>3
  <2> HIDE DEF UpTo
  <2> QED BY <2>4
<1> HIDE DEF S, UpTo
<1>3. \A n \in 0..N : n \in S
  BY <1>1, <1>2, Upwards
<1>4. UpTo(N, e)
  BY <1>0, <1>3 DEF S
<1>5. e[0] = start /\ \A i \in 0..N - 1 : e[i + 1] = Step(e[i], i + 1)
  <2>1. e = [i \in 0..N |-> IF i = 0 THEN start ELSE Step(e[i - 1], i)]
    BY <1>4 DEF UpTo
  <2> QED BY <2>1
<1>6. Met(fields, fixed, 0) = {Nothing} /\ ~ StuckBy(fields, fixed, 0)
  BY <1>5 DEF Met, StuckBy, e, start, Nothing
<1>7. ASSUME NEW i \in 0..N - 1
      PROVE  /\ \A d : d \in Met(fields, fixed, i + 1) <=>
                         \E c \in Met(fields, fixed, i) : Extends(fixed, fields[i + 1], c, d)
             /\ StuckBy(fields, fixed, i + 1) <=>
                  \/ StuckBy(fields, fixed, i)
                  \/ \E c \in Met(fields, fixed, i) : Unresolved(fields[i + 1], c)
  <2>1. e[i + 1] = Strat!ExtendContexts(fixed, e[i], fields[i + 1])
    BY <1>5 DEF Step
  <2> QED BY <2>1, ExtendedField DEF Met, StuckBy, e
<1> QED BY <1>6, <1>7

\* A finite function has finitely many values.
LEMMA ImageFinite ==
  ASSUME NEW g, IsFiniteSet(DOMAIN g)
  PROVE  IsFiniteSet({g[x] : x \in DOMAIN g})
<1> DEFINE T == {g[x] : x \in DOMAIN g}
           h == [x \in DOMAIN g |-> g[x]]
<1>1. h \in Surjection(DOMAIN g, T)
  BY DEF Surjection
<1> HIDE DEF T, h
<1> QED BY <1>1, FS_Surjection DEF T

\* A context is a function of names that have been met.
Seen(fields, i) == {fields[j].name : j \in 1..i}

\* There are finitely many contexts, of names met so far.
LEMMA MetType ==
  ASSUME NEW in, WellFormed(in.fields)
  PROVE  \A i \in 0..Len(in.fields) :
           /\ \A c \in Met(in.fields, in.fixed, i) :
                c \in Contexts(in.fields) /\ DOMAIN c \subseteq Seen(in.fields, i)
           /\ IsFiniteSet(Met(in.fields, in.fixed, i))
<1> DEFINE N == Len(in.fields)
           M(i) == Met(in.fields, in.fixed, i)
           Typed(i) == /\ \A c \in M(i) : c \in Contexts(in.fields) /\ DOMAIN c \subseteq Seen(in.fields, i)
                      /\ IsFiniteSet(M(i))
           S == {i \in 0..N : Typed(i)}
<1>1. N \in Nat /\ 0 \in 0..N
  BY InputFacts
<1>2. Typed(0)
  <2>1. M(0) = {Nothing}
    BY <1>1, ExtendedAt
  <2>2. Nothing \in Contexts(in.fields) /\ DOMAIN Nothing = {}
    BY NothingType DEF Nothing
  <2>3. IsFiniteSet({Nothing})
    BY FS_Singleton
  <2> QED BY <2>1, <2>2, <2>3
<1>3. ASSUME NEW i \in 0..N - 1, Typed(i) PROVE Typed(i + 1)
  <2> DEFINE f == in.fields[i + 1]
             Out(c) == {c} \cup {ContextOf(f, c, k) : k \in 1..Len(Resolve(f, c))}
  <2>1. i + 1 \in 1..N /\ f.name \in Seen(in.fields, i + 1) /\ Seen(in.fields, i) \subseteq Seen(in.fields, i + 1)
    BY <1>1 DEF Seen
  <2>2. \A d : d \in M(i + 1) <=> \E c \in M(i) : Extends(in.fixed, f, c, d)
    BY <1>1, ExtendedAt
  <2>3. ASSUME NEW c \in M(i), NEW k, Chosen(in.fixed, f, c, k)
        PROVE  /\ ContextOf(f, c, k) \in Contexts(in.fields)
               /\ DOMAIN ContextOf(f, c, k) \subseteq Seen(in.fields, i + 1)
               /\ ContextOf(f, c, k) \in Out(c)
    <3>1. c \in Contexts(in.fields) /\ DOMAIN c \subseteq Seen(in.fields, i)
      BY <1>3
    <3>2. ContextOf(f, c, k) \in Contexts(in.fields) /\ k \in 1..Len(Resolve(f, c))
      BY <2>1, <2>3, <3>1, ChosenType
    <3>3. DOMAIN ContextOf(f, c, k) = DOMAIN c \cup {f.name}
      BY DEF ContextOf, With
    <3> QED BY <2>1, <3>1, <3>2, <3>3
  <2>4. ASSUME NEW d \in M(i + 1)
        PROVE  d \in Contexts(in.fields) /\ DOMAIN d \subseteq Seen(in.fields, i + 1)
    <3>1. PICK c \in M(i) : Extends(in.fixed, f, c, d)
      BY <2>2
    <3>2. c \in Contexts(in.fields) /\ DOMAIN c \subseteq Seen(in.fields, i)
      BY <1>3
    <3> QED BY <2>1, <2>3, <3>1, <3>2 DEF Extends
  <2>5. M(i + 1) \subseteq UNION {Out(c) : c \in M(i)}
    <3>1. ASSUME NEW d \in M(i + 1) PROVE \E c \in M(i) : d \in Out(c)
      <4>1. PICK c \in M(i) : Extends(in.fixed, f, c, d)
        BY <2>2
      <4>2. c \in Out(c)
        OBVIOUS
      <4> HIDE DEF Out
      <4> QED BY <2>3, <4>1, <4>2 DEF Extends
    <3> HIDE DEF Out
    <3> QED BY <3>1
  <2>6. ASSUME NEW c \in M(i) PROVE IsFiniteSet(Out(c))
    <3>1. PICK m \in Nat : m = Len(Resolve(f, c))
      <4>1. Distinct(Resolve(f, c))
        BY <2>1, ResolveDistinct
      <4> QED BY <4>1 DEF Distinct, IsList
    <3>2. IsFiniteSet(1..m)
      BY FS_Interval
    <3>3. IsFiniteSet({ContextOf(f, c, k) : k \in 1..m})
      <4> DEFINE g == [k \in 1..m |-> ContextOf(f, c, k)]
      <4>1. IsFiniteSet({g[k] : k \in DOMAIN g})
        BY <3>2, ImageFinite
      <4> QED BY <4>1
    <3>4. IsFiniteSet({c})
      BY FS_Singleton
    <3> QED BY <3>1, <3>3, <3>4, FS_Union
  <2>7. IsFiniteSet(UNION {Out(c) : c \in M(i)})
    <3> HIDE DEF Out, M
    <3>1. IsFiniteSet(M(i))
      BY <1>3
    <3>2. IsFiniteSet({Out(c) : c \in M(i)})
      <4> DEFINE g == [c \in M(i) |-> Out(c)]
      <4>1. IsFiniteSet({g[c] : c \in DOMAIN g})
        BY <3>1, ImageFinite
      <4> QED BY <4>1
    <3>3. \A T \in {Out(c) : c \in M(i)} : IsFiniteSet(T)
      BY <2>6
    <3> QED BY <3>2, <3>3, FS_UNION
  <2>8. IsFiniteSet(M(i + 1))
    BY <2>5, <2>7, FS_Subset
  <2> QED BY <2>4, <2>8
<1> HIDE DEF Typed
<1>4. 0 \in S
  BY <1>1, <1>2
<1>5. \A i \in 0..N - 1 : i \in S => i + 1 \in S
  BY <1>1, <1>3
<1> HIDE DEF S
<1>6. \A i \in 0..N : i \in S
  BY <1>1, <1>4, <1>5, Upwards
<1> QED BY <1>6 DEF S, Typed

\* A field that comes next has not been met.
LEMMA NotSeen ==
  ASSUME NEW in, WellFormed(in.fields), ValidSchema(in.fields), NEW i \in 0..Len(in.fields) - 1,
         NEW c \in Met(in.fields, in.fixed, i)
  PROVE  in.fields[i + 1].name \notin DOMAIN c
<1>1. Len(in.fields) \in Nat /\ i + 1 \in 1..Len(in.fields) /\ i \in 0..Len(in.fields)
  BY InputFacts
<1>2. in.fields[i + 1].name \notin Seen(in.fields, i)
  <2>1. ASSUME NEW j \in 1..i PROVE in.fields[j].name # in.fields[i + 1].name
    <3>1. j \in 1..Len(in.fields) /\ j # i + 1
      BY <1>1
    <3> QED BY <1>1, <3>1, DistinctNames
  <2> QED BY <2>1 DEF Seen
<1> QED BY <1>1, <1>2, MetType

\* A field changes nothing but its own name.
LEMMA ExtendsFacts ==
  ASSUME NEW fixed, NEW f, NEW c, NEW d, Extends(fixed, f, c, d)
  PROVE  /\ \A m : m # f.name => (m \in DOMAIN d <=> m \in DOMAIN c)
         /\ \A m \in DOMAIN c : m # f.name => d[m] = c[m]
<1>1. CASE d = c
  BY <1>1
<1>2. CASE \E k : d = ContextOf(f, c, k)
  BY <1>2 DEF ContextOf, With
<1> QED BY <1>1, <1>2 DEF Extends

\* An unconditional field has one of its values in every record, and the fixed one.
Unasked(f) == f.dependsOn = None /\ f.when = {}
Settles(fixed, f, c) ==
  /\ f.name \in DOMAIN c
  /\ \E k \in DOMAIN f.values : c[f.name] = f.values[k]
  /\ f.name \in DOMAIN fixed => fixed[f.name] = c[f.name]

\* It does so because names differ: no later field takes the value back.
LEMMA MetSettles ==
  ASSUME NEW in, WellFormed(in.fields), ValidSchema(in.fields),
         NEW m \in 1..Len(in.fields), Unasked(in.fields[m])
  PROVE  \A c \in Met(in.fields, in.fixed, Len(in.fields)) : Settles(in.fixed, in.fields[m], c)
<1> DEFINE N == Len(in.fields)
           f == in.fields[m]
           S == {i \in 0..N : i < m \/ \A c \in Met(in.fields, in.fixed, i) : Settles(in.fixed, f, c)}
<1>1. N \in Nat /\ 0 \in S
  BY InputFacts
<1>2. ASSUME NEW i \in 0..N - 1, i \in S PROVE i + 1 \in S
  <2> DEFINE g == in.fields[i + 1]
  <2>1. i + 1 \in 1..N
    BY <1>1
  <2>2. \A d : d \in Met(in.fields, in.fixed, i + 1) <=>
                 \E c \in Met(in.fields, in.fixed, i) : Extends(in.fixed, g, c, d)
    BY <1>1, ExtendedAt
  <2>3. CASE i + 1 < m
    BY <2>1, <2>3
  <2>4. CASE i + 1 = m
    <3>1. g = f
      BY <2>4
    <3>2. ASSUME NEW c, NEW d, Extends(in.fixed, f, c, d) PROVE Settles(in.fixed, f, d)
      <4>1. IsActive(f, c) /\ Resolve(f, c) = f.values
        BY DEF IsActive, Resolve, Unasked
      <4>2. PICK k : Chosen(in.fixed, f, c, k) /\ d = ContextOf(f, c, k)
        BY <3>2, <4>1 DEF Extends
      <4>3. k \in DOMAIN f.values /\ (f.name \in DOMAIN in.fixed => in.fixed[f.name] = f.values[k])
        BY <4>1, <4>2 DEF Chosen, Allowed
      <4>4. f.name \in DOMAIN d /\ d[f.name] = f.values[k]
        BY <4>1, <4>2 DEF ContextOf, With
      <4> QED BY <4>3, <4>4 DEF Settles
    <3> HIDE DEF f, g
    <3> QED BY <2>1, <2>2, <3>1, <3>2
  <2>5. CASE i + 1 > m
    <3>1. \A c \in Met(in.fields, in.fixed, i) : Settles(in.fixed, f, c)
      BY <1>2, <2>1, <2>5
    <3>2. f.name # g.name
      BY <1>1, <2>1, <2>5, DistinctNames
    <3>3. ASSUME NEW d \in Met(in.fields, in.fixed, i + 1) PROVE Settles(in.fixed, f, d)
      <4>1. PICK c \in Met(in.fields, in.fixed, i) : Extends(in.fixed, g, c, d)
        BY <2>2
      <4>2. f.name \in DOMAIN d /\ d[f.name] = c[f.name]
        BY <3>1, <3>2, <4>1, ExtendsFacts DEF Settles
      <4> QED BY <3>1, <4>2 DEF Settles
    <3> QED BY <2>1, <3>3
  <2> QED BY <1>1, <2>1, <2>3, <2>4, <2>5
<1> HIDE DEF S
<1>3. \A i \in 0..N : i \in S
  BY <1>1, <1>2, Upwards
<1>4. N \in S /\ ~ (N < m)
  BY <1>1, <1>3
<1> QED BY <1>4 DEF S

\* Fixing one more field leaves the contexts that have its value.
AgreesOn(name, v, c) == name \in DOMAIN c => c[name] = v

\* One field, with one more name fixed and without it.
LEMMA NarrowStep ==
  ASSUME NEW fixed, NEW name, NEW v, name \notin DOMAIN fixed, NEW f, NEW c, f.name \notin DOMAIN c, NEW d
  PROVE  Extends(With(fixed, name, v), f, c, d) /\ AgreesOn(name, v, c)
           <=> Extends(fixed, f, c, d) /\ AgreesOn(name, v, d)
<1> DEFINE more == With(fixed, name, v)
<1>1. DOMAIN more = DOMAIN fixed \cup {name} /\ more[name] = v /\ \A m \in DOMAIN fixed : more[m] = fixed[m]
  BY DEF With
<1> HIDE DEF more
<1>2. ASSUME NEW k
      PROVE  Chosen(more, f, c, k) <=> Chosen(fixed, f, c, k) /\ (f.name = name => Resolve(f, c)[k] = v)
  BY <1>1 DEF Chosen, Allowed
<1>3. ASSUME NEW k, d = ContextOf(f, c, k)
      PROVE  AgreesOn(name, v, d) <=> AgreesOn(name, v, c) /\ (f.name = name => Resolve(f, c)[k] = v)
  <2>1. /\ DOMAIN d = DOMAIN c \cup {f.name} /\ d[f.name] = Resolve(f, c)[k]
        /\ \A m \in DOMAIN c : d[m] = c[m]
    BY <1>3 DEF ContextOf, With
  <2> QED BY <2>1 DEF AgreesOn
<1> QED BY <1>2, <1>3 DEF Extends, more

\* A space conditioned on a name that was free has the records with its value,
\* and is stuck only where the space itself is.
LEMMA Narrowed ==
  ASSUME NEW in, WellFormed(in.fields), ValidSchema(in.fields), NEW name, name \notin DOMAIN in.fixed, NEW v
  PROVE  /\ \A d : d \in Met(in.fields, With(in.fixed, name, v), Len(in.fields)) <=>
                     d \in Met(in.fields, in.fixed, Len(in.fields)) /\ AgreesOn(name, v, d)
         /\ StuckBy(in.fields, With(in.fixed, name, v), Len(in.fields))
              => StuckBy(in.fields, in.fixed, Len(in.fields))
<1> DEFINE N == Len(in.fields)
           more == With(in.fixed, name, v)
           M(i) == Met(in.fields, in.fixed, i)
           L(i) == Met(in.fields, more, i)
           Half(i) == /\ \A d : d \in L(i) <=> d \in M(i) /\ AgreesOn(name, v, d)
                      /\ StuckBy(in.fields, more, i) => StuckBy(in.fields, in.fixed, i)
           S == {i \in 0..N : Half(i)}
<1>1. N \in Nat
  BY InputFacts
<1>2. Half(0)
  <2>1. M(0) = {Nothing} /\ L(0) = {Nothing} /\ ~ StuckBy(in.fields, more, 0)
    BY <1>1, ExtendedAt
  <2>2. AgreesOn(name, v, Nothing)
    BY DEF AgreesOn, Nothing
  <2> HIDE DEF M, L
  <2> QED BY <2>1, <2>2
<1>3. ASSUME NEW i \in 0..N - 1, Half(i) PROVE Half(i + 1)
  <2> DEFINE f == in.fields[i + 1]
  <2>1. /\ \A d : d \in M(i + 1) <=> \E c \in M(i) : Extends(in.fixed, f, c, d)
        /\ StuckBy(in.fields, in.fixed, i + 1) <=>
             StuckBy(in.fields, in.fixed, i) \/ \E c \in M(i) : Unresolved(f, c)
    BY <1>1, ExtendedAt
  <2>2. /\ \A d : d \in L(i + 1) <=> \E c \in L(i) : Extends(more, f, c, d)
        /\ StuckBy(in.fields, more, i + 1) <=>
             StuckBy(in.fields, more, i) \/ \E c \in L(i) : Unresolved(f, c)
    BY <1>1, ExtendedAt
  <2>3. \A c \in M(i) : \A d : Extends(more, f, c, d) /\ AgreesOn(name, v, c)
                             <=> Extends(in.fixed, f, c, d) /\ AgreesOn(name, v, d)
    <3>1. \A c \in M(i) : f.name \notin DOMAIN c
      BY NotSeen
    <3>2. \A fixed : name \notin DOMAIN fixed =>
            \A g, c : g.name \notin DOMAIN c =>
              \A d : Extends(With(fixed, name, v), g, c, d) /\ AgreesOn(name, v, c)
                       <=> Extends(fixed, g, c, d) /\ AgreesOn(name, v, d)
      BY NarrowStep
    <3> HIDE DEF M, f
    <3> QED BY <3>1, <3>2
  <2> HIDE DEF M, L, more, f
  <2>4. StuckBy(in.fields, more, i + 1) => StuckBy(in.fields, in.fixed, i + 1)
    BY <1>3, <2>1, <2>2
  <2>5. \A d : d \in L(i + 1) <=> d \in M(i + 1) /\ AgreesOn(name, v, d)
    BY <1>3, <2>1, <2>2, <2>3
  <2> QED BY <2>4, <2>5
<1> HIDE DEF Half
<1>4. 0 \in S /\ \A i \in 0..N - 1 : i \in S => i + 1 \in S
  BY <1>1, <1>2, <1>3
<1> HIDE DEF S
<1>5. \A i \in 0..N : i \in S
  BY <1>1, <1>4, Upwards
<1>6. Half(N)
  BY <1>1, <1>5 DEF S
<1> QED BY <1>6 DEF Half

\* A record that agrees with a context in the fields so far, and a context that
\* the loop of _tokens_from_record passes through with each such record.
Alike(in, record, c, i) ==
  \A j \in 1..i :
    LET name == in.fields[j].name IN
      /\ name \in DOMAIN record <=> name \in DOMAIN c
      /\ name \in DOMAIN c => record[name] = c[name]
Follows(in, c, i) ==
  \A record : Alike(in, record, c, i) =>
    LET t == Taken(in.fields, in.fixed, record)[i] IN t.ok /\ t.context = c

\* The loop follows each context that the fields leave.
LEMMA MetFollows ==
  ASSUME NEW in, WellFormed(in.fields), ValidSchema(in.fields)
  PROVE  \A c \in Met(in.fields, in.fixed, Len(in.fields)) : Follows(in, c, Len(in.fields))
<1> DEFINE N == Len(in.fields)
           M(i) == Met(in.fields, in.fixed, i)
           S == {i \in 0..N : \A c \in M(i) : Follows(in, c, i)}
<1>1. N \in Nat
  BY InputFacts
<1>2. 0 \in S
  <2>1. M(0) = {Nothing}
    BY <1>1, ExtendedAt
  <2>2. \A record : Taken(in.fields, in.fixed, record)[0] = Sofar(<<>>)
    BY <1>1, TakenAt
  <2>3. Sofar(<<>>).ok /\ Sofar(<<>>).context = Nothing
    BY DEF Sofar, Nothing
  <2> HIDE DEF M
  <2> QED BY <1>1, <2>1, <2>2, <2>3 DEF Follows
<1>3. ASSUME NEW i \in 0..N - 1, i \in S PROVE i + 1 \in S
  <2> DEFINE f == in.fields[i + 1]
  <2>1. i + 1 \in 1..N /\ i + 1 - 1 = i /\ i + 1 \in 0..N
    BY <1>1
  <2>2. ASSUME NEW d \in M(i + 1), NEW record, Alike(in, record, d, i + 1)
        PROVE  Taken(in.fields, in.fixed, record)[i + 1].ok /\ Taken(in.fields, in.fixed, record)[i + 1].context = d
    <3> DEFINE t == Taken(in.fields, in.fixed, record)[i]
    <3>1. PICK c \in M(i) : Extends(in.fixed, f, c, d)
      BY <1>1, ExtendedAt
    <3>2. f.name \notin DOMAIN c
      BY NotSeen
    <3>3. Alike(in, record, c, i)
      <4>1. ASSUME NEW j \in 1..i
            PROVE  /\ in.fields[j].name \in DOMAIN record <=> in.fields[j].name \in DOMAIN c
                   /\ in.fields[j].name \in DOMAIN c => record[in.fields[j].name] = c[in.fields[j].name]
        <5>1. j \in 1..N /\ j \in 1..i + 1 /\ j # i + 1
          BY <1>1
        <5>2. in.fields[j].name # f.name
          BY <2>1, <5>1, DistinctNames
        <5> QED BY <2>2, <3>1, <5>1, <5>2, ExtendsFacts DEF Alike
      <4> QED BY <4>1 DEF Alike
    <3>4. t.ok /\ t.context = c
      BY <1>3, <3>3 DEF Follows
    <3>5. Taken(in.fields, in.fixed, record)[i + 1] = TakeField(in.fixed, record, t, f)
      BY <1>1, <2>1, TakenAt
    <3>6. /\ f.name \in DOMAIN record <=> f.name \in DOMAIN d
          /\ f.name \in DOMAIN d => record[f.name] = d[f.name]
      <4>1. i + 1 \in 1..i + 1
        BY <1>1
      <4> QED BY <2>2, <4>1 DEF Alike
    <3>7. Distinct(Resolve(f, c))
      BY <2>1, ResolveDistinct
    <3> HIDE DEF t, f
    <3>8. CASE ~ IsActive(f, c) /\ d = c
      <4>1. f.name \notin DOMAIN record
        BY <3>2, <3>6, <3>8
      <4>2. TakeField(in.fixed, record, t, f) = t
        BY <3>4, <3>8, <4>1, TakeSkipped
      <4> QED BY <3>4, <3>5, <3>8, <4>2
    <3>9. ASSUME NEW k, Chosen(in.fixed, f, c, k), d = ContextOf(f, c, k)
          PROVE  Taken(in.fields, in.fixed, record)[i + 1].ok /\ Taken(in.fields, in.fixed, record)[i + 1].context = d
      <4>1. k \in Nat
        BY <3>7, <3>9 DEF Chosen, Allowed, Distinct, IsList
      <4>2. f.name \in DOMAIN d /\ d[f.name] = Resolve(f, c)[k]
        BY <3>9 DEF ContextOf, With
      <4>3. TakeField(in.fixed, record, t, f) =
              [ok |-> TRUE, context |-> ContextOf(f, t.context, k), tokens |-> Append(t.tokens, k - 1)]
        <5>1. /\ t.ok /\ Chosen(in.fixed, f, t.context, k) /\ Distinct(Resolve(f, t.context))
              /\ f.name \in DOMAIN record /\ record[f.name] = Resolve(f, t.context)[k]
          BY <3>4, <3>6, <3>7, <3>9, <4>2
        <5>2. \A fixed, x, g : x.ok /\ Chosen(fixed, g, x.context, k) /\ Distinct(Resolve(g, x.context))
                /\ g.name \in DOMAIN record /\ record[g.name] = Resolve(g, x.context)[k] =>
                  TakeField(fixed, record, x, g) =
                    [ok |-> TRUE, context |-> ContextOf(g, x.context, k), tokens |-> Append(x.tokens, k - 1)]
          BY <4>1, TakeChosen
        <5> QED BY <5>1, <5>2
      <4> QED BY <3>4, <3>5, <3>9, <4>3
    <3> QED BY <3>1, <3>8, <3>9 DEF Extends
  <2> QED BY <2>1, <2>2 DEF Follows
<1> HIDE DEF S
<1>4. \A i \in 0..N : i \in S
  BY <1>1, <1>2, <1>3, Upwards
<1>5. N \in S
  BY <1>1, <1>4
<1> QED BY <1>5 DEF S

\* rank accepts the records of its space,
LEMMA MetAccepted ==
  ASSUME NEW in, WellFormed(in.fields), ValidSchema(in.fields),
         NEW record \in Met(in.fields, in.fixed, Len(in.fields))
  PROVE  Strat!TokensFromRecord(in.fields, in.fixed, record).ok
<1>1. Len(in.fields) \in Nat
  BY InputFacts
<1>2. record \in Contexts(in.fields)
  BY <1>1, MetType
<1>3. DOMAIN record \subseteq NamesOf(in.fields)
  BY <1>2 DEF Contexts
<1>4. Alike(in, record, record, Len(in.fields))
  BY DEF Alike
<1>5. Taken(in.fields, in.fixed, record)[Len(in.fields)].ok
  BY <1>4, MetFollows DEF Follows
<1>6. Strat!Taken(in.fields, in.fixed, record)[Len(in.fields)].ok
  BY <1>1, <1>5, SameTaken
<1> QED BY <1>3, <1>6, SameSchemas DEF Strat!TokensFromRecord

\* and what it accepts is one of them.
LEMMA AcceptedMet ==
  ASSUME NEW in, WellFormed(in.fields), ValidSchema(in.fields), NEW record \in Contexts(in.fields),
         Strat!TokensFromRecord(in.fields, in.fixed, record).ok
  PROVE  record \in Met(in.fields, in.fixed, Len(in.fields))
<1> DEFINE N == Len(in.fields)
           T == Taken(in.fields, in.fixed, record)
           S == {i \in 0..N : T[i].context \in Met(in.fields, in.fixed, i)}
<1>1. N \in Nat
  BY InputFacts
<1>2. T[N].ok
  <2>1. ~ Strat!Refused.ok
    BY DEF Strat!Refused
  <2>2. DOMAIN record \subseteq Strat!NamesOf(in.fields)
    BY <2>1 DEF Strat!TokensFromRecord
  <2>3. Strat!Taken(in.fields, in.fixed, record)[Len(in.fields)].ok
    BY <2>2 DEF Strat!TokensFromRecord
  <2> QED BY <1>1, <2>3, SameTaken
<1>3. /\ \A i \in 0..N : Takes(in, record, i)
      /\ \A i \in 0..N - 1 : TakesOn(in, record, i)
      /\ T[0] = Sofar(<<>>)
  BY <1>2, TakeAll
<1>4. 0 \in S
  <2>1. Sofar(<<>>).context = Nothing
    BY DEF Sofar, Nothing
  <2>2. Met(in.fields, in.fixed, 0) = {Nothing}
    BY <1>1, ExtendedAt
  <2> QED BY <1>1, <1>3, <2>1, <2>2
<1>5. ASSUME NEW i \in 0..N - 1, i \in S PROVE i + 1 \in S
  <2> DEFINE f == in.fields[i + 1]
             c == T[i].context
             d == T[i + 1].context
  <2>1. c \in Met(in.fields, in.fixed, i) /\ i + 1 \in 0..N
    BY <1>1, <1>5
  <2>2. IF IsActive(f, c) THEN \E k : Chosen(in.fixed, f, c, k) /\ d = ContextOf(f, c, k)
        ELSE d = c
    BY <1>3 DEF TakesOn
  <2>3. Extends(in.fixed, f, c, d)
    <3> HIDE DEF f, c, d
    <3> QED BY <2>2 DEF Extends
  <2>4. d \in Met(in.fields, in.fixed, i + 1)
    BY <1>1, <2>1, <2>3, ExtendedAt
  <2> QED BY <2>1, <2>4
<1> HIDE DEF S
<1>6. \A i \in 0..N : i \in S
  BY <1>1, <1>4, <1>5, Upwards
<1>7. T[N].context \in Met(in.fields, in.fixed, N)
  BY <1>1, <1>6 DEF S
<1>8. T[N].context = record
  <2>1. record = [n \in DOMAIN record |-> record[n]] /\ DOMAIN record \subseteq NamesOf(in.fields)
    BY DEF Contexts
  <2>2. TokensFromRecord(in.fields, in.fixed, record) = T[N]
    BY <2>1 DEF TokensFromRecord
  <2> QED BY <1>2, <2>1, <2>2, RecordsHaveWords
<1> QED BY <1>7, <1>8

\* The share of the i-th of L values in b records; together they are b.
Portion(i, L, b) == IF i <= b % L THEN (b \div L) + 1 ELSE b \div L

\* Shares differ by one at most; one of them is negative if the number is.
LEMMA PortionFacts ==
  ASSUME NEW L \in Nat, L > 0, NEW b \in Int
  PROVE  /\ b \div L \in Int /\ b % L \in Int /\ 0 <= b % L /\ b % L < L
         /\ b = L * (b \div L) + (b % L)
         /\ \A i \in 1..L : /\ Portion(i, L, b) \in Int
                           /\ Portion(i, L, b) <= IF b % L = 0 THEN b \div L ELSE (b \div L) + 1
         /\ \A i, j \in 1..L : Portion(i, L, b) <= Portion(j, L, b) + 1
         /\ b < 0 => Portion(L, L, b) < 0
         /\ b >= 0 => \A i \in 1..L : Portion(i, L, b) >= 0
<1>1. b \div L \in Int /\ b % L \in 0..L - 1 /\ b = L * (b \div L) + (b % L)
  OBVIOUS
<1>2. PICK q, e \in Int : q = b \div L /\ e = b % L /\ 0 <= e /\ e < L /\ b = L * q + e
  BY <1>1
<1>3. \A i \in 1..L : Portion(i, L, b) = IF i <= e THEN q + 1 ELSE q
  BY <1>2 DEF Portion
<1>4. b < 0 => q < 0
  <2>1. q >= 0 => L * q >= 0
    BY <1>2
  <2> QED BY <1>2, <2>1
<1>5. b >= 0 => q >= 0
  <2>1. ASSUME q <= -1 PROVE b < 0
    <3>1. PICK m \in Nat : q = -1 - m
      <4>1. -1 - q \in Nat /\ q = -1 - (-1 - q)
        BY <2>1
      <4> QED BY <4>1
    <3>2. L * q = -L - L * m /\ L * m >= 0
      BY <3>1
    <3> QED BY <1>2, <3>2
  <2> QED BY <2>1
<1> QED BY <1>2, <1>3, <1>4, <1>5

\* Disjoint sets of these sizes have the number of records that was asked for.
LEMMA PortionsMakeAll ==
  ASSUME NEW L \in Nat, L > 0, NEW b \in Int, NEW P, IsFiniteSet(P), NEW A, A \in [1..L -> SUBSET P],
         \A i, j \in 1..L : i # j => A[i] \cap A[j] = {},
         \A i \in 1..L : Cardinality(A[i]) = Portion(i, L, b)
  PROVE  Cardinality(UNION {A[i] : i \in 1..L}) = b
<1>1. PICK q, e \in Int : q = b \div L /\ e = b % L /\ 0 <= e /\ e < L /\ b = L * q + e
  <2>1. /\ b \div L \in Int /\ b % L \in Int /\ 0 <= b % L /\ b % L < L
        /\ b = L * (b \div L) + (b % L)
    BY PortionFacts
  <2> QED BY <2>1
<1> DEFINE U(k) == UNION {A[i] : i \in 1..k}
           Sum(k) == k * q + (IF k <= e THEN k ELSE e)
           T == {k \in 0..L : Cardinality(U(k)) = Sum(k)}
<1>2. \A S \in SUBSET P : IsFiniteSet(S) /\ Cardinality(S) \in Nat
  BY FS_Subset, FS_CardinalityType
<1>3. 0 \in T
  <2>1. U(0) = {} /\ Sum(0) = 0 /\ 0 \in 0..L
    BY <1>1
  <2> HIDE DEF U, Sum
  <2> QED BY <2>1, FS_EmptySet
<1>4. ASSUME NEW k \in 0..L - 1, k \in T PROVE k + 1 \in T
  <2> DEFINE V == U(k)
             B == A[k + 1]
  <2>1. k + 1 \in 1..L /\ k \in 0..L /\ Cardinality(V) = Sum(k)
    BY <1>4
  <2>2. U(k + 1) = V \cup B
    <3>1. \A i \in 1..k + 1 : i \in 1..k \/ i = k + 1
      OBVIOUS
    <3>2. (\A i \in 1..k : i \in 1..k + 1) /\ k + 1 \in 1..k + 1
      OBVIOUS
    <3> QED BY <3>1, <3>2
  <2>3. V \cap B = {} /\ V \in SUBSET P /\ B \in SUBSET P
    <3>1. ASSUME NEW i \in 1..k PROVE A[i] \cap A[k + 1] = {} /\ A[i] \subseteq P
      BY <2>1
    <3> QED BY <2>1, <3>1
  <2>4. Cardinality(V \cup B) = Cardinality(V) + Cardinality(B)
    <3>1. Cardinality(V \cup B) = Cardinality(V) + Cardinality(B) - Cardinality(V \cap B)
      BY <1>2, <2>3, FS_Union
    <3>2. Cardinality(V \cap B) = 0
      BY <2>3, FS_EmptySet
    <3> QED BY <1>2, <2>3, <3>1, <3>2
  <2>5. Cardinality(B) = q + (IF k < e THEN 1 ELSE 0)
    <3>1. Cardinality(B) = Portion(k + 1, L, b)
      BY <2>1
    <3>2. Portion(k + 1, L, b) = IF k + 1 <= e THEN q + 1 ELSE q
      BY <1>1 DEF Portion
    <3> QED BY <1>1, <3>1, <3>2
  <2> HIDE DEF V, B
  <2>6. Sum(k) + (q + (IF k < e THEN 1 ELSE 0)) = Sum(k + 1) /\ Sum(k) \in Int
    <3>1. (k + 1) * q = k * q + q /\ k * q \in Int
      BY <1>1
    <3> QED BY <1>1, <3>1
  <2>7. Cardinality(U(k + 1)) = Sum(k + 1)
    <3> HIDE DEF Sum, U
    <3> QED BY <2>1, <2>2, <2>4, <2>5, <2>6
  <2>8. k + 1 \in 0..L
    BY <2>1
  <2> HIDE DEF U, Sum
  <2> QED BY <2>7, <2>8
<1> HIDE DEF T
<1>5. \A k \in 0..L : k \in T
  BY <1>3, <1>4, Upwards
<1>6. L \in T /\ Sum(L) = b
  BY <1>1, <1>5
<1> HIDE DEF Sum
<1> QED BY <1>6 DEF T

-----------------------------------------------------------------------------
\* The records of a space, those with a value, and those of a stratum.
Own(s) == Met(s.fields, s.fixed, Len(s.fields))
Has(s, name, v) == {r \in Own(s) : r[name] = v}
Under(s, name, v) == Met(s.fields, With(s.fixed, name, v), Len(s.fields))

\* The field of the strata.
Asked(s, name, f) ==
  /\ \E m \in DOMAIN s.fields : f = s.fields[m]
  /\ f.name = name /\ f.dependsOn = None /\ f.when = {}

\* The operators of Stratified in these terms.
LEMMA SameStrata ==
  /\ Strat!Mine = Own(space)
  /\ \A v : Strat!Having(v) = Has(space, split, v)
  /\ \A v : Strat!RecordsOf(space.fields, Strat!Combined(space.fixed, split, v)) = Under(space, split, v)
  /\ \A v : Strat!Constructible(space.fields, Strat!Combined(space.fixed, split, v)) <=>
        /\ DOMAIN space.fixed \cup {split} \subseteq NamesOf(space.fields)
        /\ ~ StuckBy(space.fields, With(space.fixed, split, v), Len(space.fields)) /\ Under(space, split, v) # {}
  /\ \A s : Strat!Constructible(s.fields, s.fixed) <=>
        /\ DOMAIN s.fixed \subseteq NamesOf(s.fields)
        /\ ~ StuckBy(s.fields, s.fixed, Len(s.fields)) /\ Own(s) # {}
  /\ \A f : f \in Strat!Unconditional <=> Asked(space, split, f)
  /\ \A S : Strat!Cardinality(S) = Cardinality(S)
  /\ Strat!Subspace = Strat!Combined(space.fixed, split, Head(strata))
<1>1. Strat!Mine = Own(space) /\ \A v : Strat!Having(v) = Has(space, split, v)
  BY DEF Strat!Mine, Strat!Having, Has, Own, Met, Strat!RecordsOf, Strat!Compiled
<1>2. \A name, v : Strat!Combined(space.fixed, name, v) = With(space.fixed, name, v)
  BY SameSchemas DEF Strat!Combined
<1>3. \A v : Strat!RecordsOf(space.fields, Strat!Combined(space.fixed, split, v)) = Under(space, split, v)
  BY <1>2 DEF Under, Met, Strat!RecordsOf, Strat!Compiled
<1>4. \A fields, fixed : Strat!Constructible(fields, fixed) <=>
        /\ DOMAIN fixed \subseteq NamesOf(fields)
        /\ ~ StuckBy(fields, fixed, Len(fields)) /\ Met(fields, fixed, Len(fields)) # {}
  BY SameSchemas DEF Strat!Constructible, StuckBy, Met, Strat!Compiled
<1>5. \A v : DOMAIN With(space.fixed, split, v) = DOMAIN space.fixed \cup {split}
  BY DEF With
<1>6. \A f : f \in Strat!Unconditional <=> Asked(space, split, f)
  BY SameSchemas DEF Strat!Unconditional, Asked, Strat!None, None
<1>7. \A S : Strat!Cardinality(S) = Cardinality(S)
  BY DEF Strat!Cardinality, Cardinality
<1>8. Strat!Subspace = Strat!Combined(space.fixed, split, Head(strata))
  BY DEF Strat!Subspace
<1> QED BY <1>1, <1>2, <1>3, <1>4, <1>5, <1>6, <1>7, <1>8 DEF Own, Under

\* What the strata of a space are.
LEMMA StratumFacts ==
  ASSUME NEW s, WellFormed(s.fields), ValidSchema(s.fields), NEW name, NEW f, Asked(s, name, f)
  PROVE  /\ IsFiniteSet(Own(s)) /\ Own(s) \subseteq Contexts(s.fields)
         /\ \A r \in Own(s) : /\ Strat!TokensFromRecord(s.fields, s.fixed, r).ok
                              /\ \E k \in DOMAIN f.values : r[name] = f.values[k]
         /\ \A g : Asked(s, name, g) => g = f
         /\ name \in NamesOf(s.fields) /\ Distinct(f.values)
         /\ \A v : /\ IsFiniteSet(Under(s, name, v))
                   /\ \A r \in Under(s, name, v) :
                        Strat!TokensFromRecord(s.fields, s.fixed, r).ok => r \in Has(s, name, v)
                   /\ name \notin DOMAIN s.fixed => Under(s, name, v) = Has(s, name, v)
                   /\ name \notin DOMAIN s.fixed /\ StuckBy(s.fields, With(s.fixed, name, v), Len(s.fields))
                        => StuckBy(s.fields, s.fixed, Len(s.fields))
<1> DEFINE N == Len(s.fields)
<1>1. N \in Nat /\ DOMAIN s.fields = 1..N /\ N \in 0..N
  BY InputFacts
<1>2. PICK m \in 1..N : f = s.fields[m] /\ f.name = name /\ Unasked(s.fields[m])
  BY <1>1 DEF Asked, Unasked
<1>3. IsFiniteSet(Own(s)) /\ Own(s) \subseteq Contexts(s.fields)
  BY <1>1, MetType DEF Own
<1>4. \A r \in Own(s) : Settles(s.fixed, f, r)
  BY <1>2, MetSettles DEF Own
<1>5. \A r \in Own(s) : Strat!TokensFromRecord(s.fields, s.fixed, r).ok
  BY MetAccepted DEF Own
<1>6. ASSUME NEW g, Asked(s, name, g) PROVE g = f
  <2>1. PICK l \in 1..N : g = s.fields[l] /\ g.name = name
    BY <1>1, <1>6 DEF Asked
  <2> QED BY <1>2, <2>1, DistinctNames
<1>7. name \in NamesOf(s.fields) /\ Distinct(f.values)
  <2>1. f \in Range(s.fields)
    BY <1>1, <1>2 DEF Range
  <2> QED BY <1>1, <1>2, <2>1, InputFacts DEF WellFormed
<1>8. ASSUME NEW v
      PROVE  /\ IsFiniteSet(Under(s, name, v))
             /\ \A r \in Under(s, name, v) :
                  Strat!TokensFromRecord(s.fields, s.fixed, r).ok => r \in Has(s, name, v)
             /\ name \notin DOMAIN s.fixed => Under(s, name, v) = Has(s, name, v)
             /\ name \notin DOMAIN s.fixed /\ StuckBy(s.fields, With(s.fixed, name, v), Len(s.fields))
                  => StuckBy(s.fields, s.fixed, Len(s.fields))
  <2>1. PICK t : t = [fields |-> s.fields, fixed |-> With(s.fixed, name, v)]
    OBVIOUS
  <2>2. /\ t.fields = s.fields /\ t.fixed = With(s.fixed, name, v)
        /\ WellFormed(t.fields) /\ ValidSchema(t.fields)
    BY <2>1
  <2>3. /\ IsFiniteSet(Under(s, name, v)) /\ Under(s, name, v) \subseteq Contexts(s.fields)
    BY <1>1, <2>2, MetType DEF Under
  <2>4. \A r \in Under(s, name, v) : Settles(t.fixed, f, r)
    BY <1>2, <2>2, MetSettles DEF Under
  <2>5. \A r \in Under(s, name, v) : r[name] = v
    <3>1. name \in DOMAIN t.fixed /\ t.fixed[name] = v
      BY <2>2 DEF With
    <3> QED BY <1>2, <2>4, <3>1 DEF Settles
  <2>6. ASSUME NEW r \in Under(s, name, v), Strat!TokensFromRecord(s.fields, s.fixed, r).ok
        PROVE  r \in Has(s, name, v)
    <3>1. r \in Own(s)
      BY <2>3, <2>6, AcceptedMet DEF Own
    <3> QED BY <2>5, <3>1 DEF Has
  <2>7. ASSUME name \notin DOMAIN s.fixed
        PROVE  /\ Under(s, name, v) = Has(s, name, v)
               /\ StuckBy(s.fields, With(s.fixed, name, v), Len(s.fields))
                    => StuckBy(s.fields, s.fixed, Len(s.fields))
    <3>1. /\ \A d : d \in Under(s, name, v) <=> d \in Own(s) /\ AgreesOn(name, v, d)
          /\ StuckBy(s.fields, With(s.fixed, name, v), Len(s.fields))
               => StuckBy(s.fields, s.fixed, Len(s.fields))
      BY <2>7, Narrowed DEF Under, Own
    <3>2. \A d \in Own(s) : name \in DOMAIN d
      BY <1>2, <1>4 DEF Settles
    <3> QED BY <3>1, <3>2 DEF Has, AgreesOn
  <2> QED BY <2>3, <2>6, <2>7
<1>9. \A r \in Own(s) : \E k \in DOMAIN f.values : r[name] = f.values[k]
  BY <1>2, <1>4 DEF Settles
<1> QED BY <1>3, <1>5, <1>6, <1>7, <1>8, <1>9

\* Schemas that their constructors accept, and any number of records.
SampledAssumption ==
  /\ \A s \in Spaces : WellFormed(s.fields) /\ ValidSchema(s.fields)
  /\ Amounts \subseteq Int

\* The strata in the order in which they are shuffled, and k of them done with.
Shuffle(f, order) ==
  /\ order \in [1..Len(f.values) -> {f.values[i] : i \in DOMAIN f.values}]
  /\ \A i, j \in 1..Len(f.values) : order[i] = order[j] => i = j
  /\ \A i \in DOMAIN f.values : \E j \in 1..Len(f.values) : order[j] = f.values[i]
\* What is left of the shuffled values and of the allocations.
Waiting(b, L, order, k, rest, due) ==
  /\ rest \in Seq({order[i] : i \in 1..L}) /\ Len(rest) = L - k
  /\ due \in Seq(Int) /\ Len(due) = L - k
  /\ \A i \in 1..L - k : rest[i] = order[k + i] /\ due[i] = Portion(k + i, L, b)
\* What has been drawn: of each stratum done with, its share.
Given(s, b, name, L, order, k, out) ==
  /\ out \in Seq(SUBSET Own(s)) /\ Len(out) = k
  /\ \A i \in 1..k : out[i] \subseteq Has(s, name, order[i]) /\ Cardinality(out[i]) = Portion(i, L, b)
\* The campaign between two strata.
Halfway(s, b, name, f, order, k, rest, due, out) ==
  /\ Asked(s, name, f) /\ Shuffle(f, order) /\ k \in 0..Len(f.values)
  /\ Waiting(b, Len(f.values), order, k, rest, due)
  /\ Given(s, b, name, Len(f.values), order, k, out)

\* The largest share, and the reasons to refuse a campaign.
Most(L, b) == IF b % L = 0 THEN b \div L ELSE (b \div L) + 1
Reason(s, b, name) ==
  \/ b < 0
  \/ name \in DOMAIN s.fixed
  \/ \A f : Asked(s, name, f) =>
       \E i \in DOMAIN f.values :
         \/ Has(s, name, f.values[i]) = {}
         \/ Cardinality(Has(s, name, f.values[i])) < Most(Len(f.values), b)

\* A space that was constructed has records.
Usable(s) ==
  /\ DOMAIN s.fixed \subseteq NamesOf(s.fields)
  /\ ~ StuckBy(s.fields, s.fixed, Len(s.fields)) /\ Own(s) # {}

\* The inductive invariant: between strata the campaign is halfway, at a stratum
\* its records are those of the next value, and it is refused for a reason.
StratInv ==
  /\ space \in Spaces /\ amount \in Int /\ Usable(space)
  /\ pc \in {"start", "condition", "sample", "done", "refused"}
  /\ pc = "start" => drawn = <<>>
  /\ pc \in {"condition", "sample", "done"} =>
       \E f, order, k :
         /\ Halfway(space, amount, split, f, order, k, strata, shares, drawn)
         /\ pc = "sample" => k < Len(f.values) /\ stratum = Under(space, split, order[k + 1])
         /\ pc = "done" => k = Len(f.values)
  /\ pc = "refused" => Reason(space, amount, split)

\* It holds of a space that was constructed, before the call.
LEMMA StratInit == SampledAssumption /\ Strat!Init => StratInv
<1> SUFFICES ASSUME SampledAssumption, Strat!Init PROVE StratInv
  OBVIOUS
<1>1. space \in Spaces /\ amount \in Int /\ pc = "start" /\ drawn = <<>>
  BY DEF SampledAssumption, Strat!Init
<1>2. Usable(space)
  <2>1. Strat!Constructible(space.fields, space.fixed)
    BY DEF Strat!Init
  <2> QED BY <2>1, SameStrata DEF Usable
<1> QED BY <1>1, <1>2 DEF StratInv

\* The shuffle lists each value once, because values are distinct.
LEMMA StratBegin == SampledAssumption /\ StratInv /\ Strat!Begin => StratInv'
<1> SUFFICES ASSUME SampledAssumption, StratInv, Strat!Begin PROVE StratInv'
  OBVIOUS
<1>1. /\ space \in Spaces /\ amount \in Int /\ Usable(space) /\ pc = "start" /\ drawn = <<>>
      /\ space' = space /\ amount' = amount /\ split' = split /\ drawn' = drawn /\ stratum' = stratum
  BY DEF StratInv, Strat!Begin
<1>2. WellFormed(space.fields) /\ ValidSchema(space.fields)
  BY <1>1 DEF SampledAssumption
<1>3. CASE Strat!Unconditional = {}
  <2>1. pc' = "refused"
    BY <1>3 DEF Strat!Begin
  <2>2. Reason(space, amount, split)
    BY <1>3, SameStrata DEF Reason
  <2> QED BY <1>1, <2>1, <2>2 DEF StratInv
<1>4. CASE Strat!Unconditional # {}
  <2>1. PICK f \in Strat!Unconditional : strata' \in Strat!Shuffled(f.values)
    BY <1>4 DEF Strat!Begin
  <2>2. shares' = Strat!Allocate(Len(strata')) /\ pc' = "condition"
    BY <1>4 DEF Strat!Begin
  <2>3. Asked(space, split, f) /\ Distinct(f.values)
    BY <1>2, <2>1, SameStrata, StratumFacts
  <2>4. PICK L \in Nat : L = Len(f.values) /\ DOMAIN f.values = 1..L
    BY <2>3 DEF Distinct, IsList
  <2> DEFINE V == {f.values[i] : i \in DOMAIN f.values}
             order == strata'
  <2>5. order \in [1..L -> V] /\ \A i, j \in 1..L : order[i] = order[j] => i = j
    BY <2>1, <2>4, SameSchemas DEF Strat!Shuffled, Strat!IsInjective
  <2>6. \A i \in DOMAIN f.values : \E j \in 1..L : order[j] = f.values[i]
    <3>1. IsFiniteSet(1..L) /\ Cardinality(1..L) = L
      BY FS_Interval
    <3>2. IsFiniteSet(V) /\ Cardinality(V) \in Nat /\ Cardinality(V) <= L
      <4> DEFINE h == [i \in 1..L |-> f.values[i]]
      <4>1. h \in Surjection(1..L, V)
        BY <2>4 DEF Surjection
      <4> HIDE DEF h, V
      <4>2. IsFiniteSet(V) /\ Cardinality(V) <= L
        BY <3>1, <4>1, FS_Surjection
      <4> QED BY <4>2, FS_CardinalityType
    <3> DEFINE W == {order[j] : j \in 1..L}
    <3>3. order \in Injection(1..L, W) /\ order \in Surjection(1..L, W) /\ W \subseteq V
      BY <2>5 DEF Injection, Surjection, IsInjective
    <3> HIDE DEF V, W, order
    <3>4. IsFiniteSet(W) /\ Cardinality(W) = L
      BY <3>1, <3>3, FS_Surjection
    <3>5. W = V
      BY <3>2, <3>3, <3>4, FS_Subset
    <3> QED BY <3>5 DEF W, V
  <2> HIDE DEF V
  <2>7. Shuffle(f, order)
    BY <2>4, <2>5, <2>6 DEF Shuffle, V
  <2>8. Len(order) = L /\ order \in Seq({order[i] : i \in 1..L})
    BY <2>5
  <2>9. /\ shares' \in Seq(Int) /\ Len(shares') = L
        /\ \A i \in 1..L : shares'[i] = Portion(i, L, amount)
    <3>1. shares' = [i \in 1..L |-> Portion(i, L, amount)]
      BY <2>2, <2>8 DEF Strat!Allocate, Portion
    <3>2. ASSUME NEW i \in 1..L PROVE Portion(i, L, amount) \in Int
      BY <1>1, PortionFacts
    <3> QED BY <3>1, <3>2
  <2>10. Waiting(amount, L, order, 0, strata', shares')
    <3>1. L - 0 = L /\ \A i \in 1..L : 0 + i = i
      OBVIOUS
    <3> HIDE DEF order
    <3>2. strata' = order
      BY DEF order
    <3> QED BY <2>8, <2>9, <3>1, <3>2 DEF Waiting
  <2>11. Given(space, amount, split, L, order, 0, drawn')
    BY <1>1 DEF Given
  <2> HIDE DEF order
  <2>12. Halfway(space, amount, split, f, order, 0, strata', shares', drawn')
    BY <2>3, <2>4, <2>7, <2>10, <2>11 DEF Halfway
  <2>13. /\ Halfway(space, amount, split, f, order, 0, strata', shares', drawn')
         /\ pc' # "sample" /\ pc' # "done" /\ pc' # "refused" /\ pc' # "start" /\ pc' = "condition"
    BY <2>2, <2>12
  <2> QED BY <1>1, <2>13 DEF StratInv
<1> QED BY <1>3, <1>4

\* What the invariant says where there is a stratum to come.
AtStratum(f, order, L, k) ==
  /\ L \in Nat /\ k \in 0..L /\ L = Len(f.values) /\ DOMAIN f.values = 1..L
  /\ Halfway(space, amount, split, f, order, k, strata, shares, drawn)
  /\ \A i \in 1..L : \E j \in DOMAIN f.values : order[i] = f.values[j]
  /\ pc = "sample" => k < L /\ stratum = Under(space, split, order[k + 1])
  /\ pc = "done" => k = L
  /\ strata # <<>> <=> k < L
  /\ k < L => Head(strata) = order[k + 1] /\ Head(shares) = Portion(k + 1, L, amount)

\* The invariant says this in each of these phases.
LEMMA Underway ==
  ASSUME SampledAssumption, StratInv, pc \in {"condition", "sample", "done"}
  PROVE  /\ space \in Spaces /\ amount \in Int /\ Usable(space)
         /\ WellFormed(space.fields) /\ ValidSchema(space.fields)
         /\ \E f, order, L, k : AtStratum(f, order, L, k)
<1>1. /\ space \in Spaces /\ amount \in Int /\ Usable(space)
      /\ WellFormed(space.fields) /\ ValidSchema(space.fields)
  BY DEF StratInv, SampledAssumption
<1>2. PICK f, order, k :
         /\ Halfway(space, amount, split, f, order, k, strata, shares, drawn)
         /\ pc = "sample" => k < Len(f.values) /\ stratum = Under(space, split, order[k + 1])
         /\ pc = "done" => k = Len(f.values)
  BY DEF StratInv
<1>3. Distinct(f.values)
  BY <1>1, <1>2, StratumFacts DEF Halfway
<1>4. PICK L \in Nat : L = Len(f.values) /\ DOMAIN f.values = 1..L
  BY <1>3 DEF Distinct, IsList
<1>5. k \in 0..L /\ Shuffle(f, order) /\ Waiting(amount, L, order, k, strata, shares)
  BY <1>2, <1>4 DEF Halfway
<1>6. \A i \in 1..L : \E j \in DOMAIN f.values : order[i] = f.values[j]
  <2>1. order \in [1..L -> {f.values[i] : i \in DOMAIN f.values}]
    BY <1>4, <1>5 DEF Shuffle
  <2>2. ASSUME NEW i \in 1..L PROVE order[i] \in {f.values[j] : j \in DOMAIN f.values}
    BY <2>1
  <2> QED BY <2>2
<1>7. strata # <<>> <=> k < L
  <2>1. Len(strata) = L - k /\ strata \in Seq({order[i] : i \in 1..L})
    BY <1>5 DEF Waiting
  <2> QED BY <1>4, <1>5, <2>1
<1>8. k < L => Head(strata) = order[k + 1] /\ Head(shares) = Portion(k + 1, L, amount)
  <2>1. k < L => 1 \in 1..L - k
    BY <1>5
  <2>2. k < L => Head(strata) = strata[1] /\ Head(shares) = shares[1]
    BY <1>5 DEF Waiting
  <2> QED BY <1>5, <2>1, <2>2 DEF Waiting
<1>9. AtStratum(f, order, L, k)
  BY <1>2, <1>4, <1>5, <1>6, <1>7, <1>8 DEF AtStratum
<1> QED BY <1>1, <1>9

\* A subspace that does not compile is a value without records.
LEMMA StratCondition == SampledAssumption /\ StratInv /\ Strat!Condition => StratInv'
<1> SUFFICES ASSUME SampledAssumption, StratInv, Strat!Condition PROVE StratInv'
  OBVIOUS
<1>1. /\ pc = "condition" /\ strata # <<>>
      /\ space' = space /\ amount' = amount /\ split' = split /\ drawn' = drawn
      /\ strata' = strata /\ shares' = shares
  BY DEF Strat!Condition
<1>2. /\ space \in Spaces /\ amount \in Int /\ Usable(space)
      /\ WellFormed(space.fields) /\ ValidSchema(space.fields)
  BY <1>1, Underway
<1>3. PICK f, order, L, k : AtStratum(f, order, L, k)
  BY <1>1, Underway
<1>4. /\ k \in Nat /\ k + 1 \in 1..Len(f.values) /\ k < Len(f.values)
      /\ Halfway(space, amount, split, f, order, k, strata, shares, drawn)
      /\ \E j \in DOMAIN f.values : order[k + 1] = f.values[j]
      /\ Head(strata) = order[k + 1]
  BY <1>1, <1>3 DEF AtStratum
<1>5. CASE Strat!Constructible(space.fields, Strat!Subspace)
  <2>1. pc' = "sample" /\ stratum' = Under(space, split, order[k + 1])
    BY <1>4, <1>5, SameStrata DEF Strat!Condition
  <2> QED BY <1>1, <1>2, <1>4, <2>1 DEF StratInv
<1>6. CASE ~ Strat!Constructible(space.fields, Strat!Subspace)
  <2>1. pc' = "refused"
    BY <1>6 DEF Strat!Condition
  <2>2. Asked(space, split, f)
    BY <1>4 DEF Halfway
  <2>3. CASE split \in DOMAIN space.fixed
    BY <1>1, <1>2, <2>1, <2>3 DEF StratInv, Reason
  <2>4. CASE split \notin DOMAIN space.fixed
    <3>1. PICK j \in DOMAIN f.values : order[k + 1] = f.values[j]
      BY <1>4
    <3>2. DOMAIN space.fixed \cup {split} \subseteq NamesOf(space.fields)
      BY <1>2, <2>2, StratumFacts DEF Usable
    <3>3. ~ StuckBy(space.fields, With(space.fixed, split, f.values[j]), Len(space.fields))
      BY <1>2, <2>2, <2>4, StratumFacts DEF Usable
    <3>4. Under(space, split, f.values[j]) = {}
      BY <1>4, <1>6, <3>1, <3>2, <3>3, SameStrata
    <3>5. Has(space, split, f.values[j]) = {}
      BY <1>2, <2>2, <2>4, <3>4, StratumFacts
    <3>6. \A g : Asked(space, split, g) => g = f
      BY <1>2, <2>2, StratumFacts
    <3>7. Reason(space, amount, split)
      BY <3>5, <3>6 DEF Reason
    <3> QED BY <1>1, <1>2, <2>1, <3>7 DEF StratInv
  <2> QED BY <2>3, <2>4
<1> QED BY <1>5, <1>6

\* What is left of a sequence.
LEMMA TailFacts ==
  ASSUME NEW S, NEW s \in Seq(S), Len(s) > 0
  PROVE  /\ Tail(s) \in Seq(S) /\ Len(Tail(s)) = Len(s) - 1
         /\ \A i \in 1..Len(s) - 1 : Tail(s)[i] = s[i + 1]
OBVIOUS

\* A share that is not drawn is negative or larger than its stratum; one that is
\* drawn consists of records of the space unless the field was fixed already.
LEMMA StratSample == SampledAssumption /\ StratInv /\ Strat!Sample => StratInv'
<1> SUFFICES ASSUME SampledAssumption, StratInv, Strat!Sample PROVE StratInv'
  OBVIOUS
<1>1. pc = "sample" /\ space' = space /\ amount' = amount /\ split' = split
  BY DEF Strat!Sample
<1>2. /\ space \in Spaces /\ amount \in Int /\ Usable(space)
      /\ WellFormed(space.fields) /\ ValidSchema(space.fields)
  BY <1>1, Underway
<1>3. PICK f, order, L, k : AtStratum(f, order, L, k)
  BY <1>1, Underway
<1>4. /\ L \in Nat /\ L = Len(f.values) /\ k \in Nat /\ k + 1 \in 1..L /\ k < L
      /\ Halfway(space, amount, split, f, order, k, strata, shares, drawn)
      /\ stratum = Under(space, split, order[k + 1])
      /\ Head(shares) = Portion(k + 1, L, amount)
  BY <1>1, <1>3 DEF AtStratum
<1>5. PICK j \in DOMAIN f.values : order[k + 1] = f.values[j]
  BY <1>3, <1>4 DEF AtStratum
<1>6. Asked(space, split, f)
  BY <1>4 DEF Halfway
<1>7. \A g : Asked(space, split, g) => g = f
  BY <1>2, <1>6, StratumFacts
<1> DEFINE v == order[k + 1]
<1>8. /\ IsFiniteSet(stratum) /\ Cardinality(stratum) \in Nat
      /\ \A r \in stratum :
           Strat!TokensFromRecord(space.fields, space.fixed, r).ok => r \in Has(space, split, v)
      /\ split \notin DOMAIN space.fixed => stratum = Has(space, split, v)
  <2>1. \A w : /\ IsFiniteSet(Under(space, split, w))
               /\ \A r \in Under(space, split, w) :
                    Strat!TokensFromRecord(space.fields, space.fixed, r).ok => r \in Has(space, split, w)
               /\ split \notin DOMAIN space.fixed => Under(space, split, w) = Has(space, split, w)
    BY <1>2, <1>6, StratumFacts
  <2> QED BY <1>4, <2>1, FS_CardinalityType
<1>9. /\ Portion(k + 1, L, amount) \in Int /\ Portion(k + 1, L, amount) <= Most(L, amount)
      /\ Most(L, amount) \in Int
      /\ amount >= 0 => Portion(k + 1, L, amount) >= 0
  <2>1. L > 0 /\ k + 1 \in 1..L
    BY <1>4
  <2>2. /\ amount \div L \in Int
        /\ \A i \in 1..L : /\ Portion(i, L, amount) \in Int
                          /\ Portion(i, L, amount) <= IF amount % L = 0 THEN amount \div L
                                                      ELSE (amount \div L) + 1
        /\ amount >= 0 => \A i \in 1..L : Portion(i, L, amount) >= 0
    BY <1>2, <1>4, <2>1, PortionFacts
  <2> QED BY <2>1, <2>2 DEF Most
<1> HIDE DEF v
<1>10. CASE Head(shares) \notin 0..Strat!Cardinality(stratum)
  <2>1. pc' = "refused"
    BY <1>10 DEF Strat!Sample
  <2>2. CASE amount < 0 \/ split \in DOMAIN space.fixed
    BY <1>1, <1>2, <2>1, <2>2 DEF StratInv, Reason
  <2>3. CASE amount >= 0 /\ split \notin DOMAIN space.fixed
    <3>1. Head(shares) \notin 0..Cardinality(stratum)
      BY <1>10, SameStrata
    <3>2. Cardinality(stratum) < Most(L, amount)
      BY <1>4, <1>8, <1>9, <2>3, <3>1
    <3>3. Cardinality(Has(space, split, f.values[j])) < Most(Len(f.values), amount)
      BY <1>4, <1>5, <1>8, <2>3, <3>2 DEF v
    <3>4. Reason(space, amount, split)
      BY <1>7, <3>3 DEF Reason
    <3> QED BY <1>1, <1>2, <2>1, <3>4 DEF StratInv
  <2> QED BY <1>2, <2>2, <2>3
<1>11. CASE Head(shares) \in 0..Strat!Cardinality(stratum)
  <2>1. PICK chosen \in SUBSET stratum :
          /\ Strat!Cardinality(chosen) = Head(shares)
          /\ IF \E r \in chosen : ~ Strat!Rankable(r)
               THEN pc' = "refused" /\ UNCHANGED <<strata, shares, stratum, drawn>>
               ELSE /\ drawn' = Append(drawn, chosen)
                    /\ strata' = Tail(strata)
                    /\ shares' = Tail(shares)
                    /\ stratum' = {}
                    /\ pc' = "condition"
    BY <1>11 DEF Strat!Sample
  <2>2. \A r : Strat!Rankable(r) <=> Strat!TokensFromRecord(space.fields, space.fixed, r).ok
    BY DEF Strat!Rankable
  <2>3. CASE \E r \in chosen : ~ Strat!Rankable(r)
    <3>1. pc' = "refused"
      BY <2>1, <2>3
    <3>2. split \in DOMAIN space.fixed
      <4>1. SUFFICES ASSUME split \notin DOMAIN space.fixed PROVE FALSE
        OBVIOUS
      <4>2. PICK r \in chosen : ~ Strat!Rankable(r)
        BY <2>3
      <4>3. r \in Own(space)
        BY <1>8, <2>1, <4>1 DEF Has
      <4>4. \A o \in Own(space) : Strat!TokensFromRecord(space.fields, space.fixed, o).ok
        BY <1>2, <1>6, StratumFacts
      <4> QED BY <2>2, <4>2, <4>3, <4>4
    <3> QED BY <1>1, <1>2, <3>1, <3>2 DEF StratInv, Reason
  <2>4. CASE \A r \in chosen : Strat!Rankable(r)
    <3>1. /\ drawn' = Append(drawn, chosen) /\ strata' = Tail(strata) /\ shares' = Tail(shares)
          /\ pc' = "condition"
      BY <2>1, <2>4
    <3>2. chosen \subseteq Has(space, split, v) /\ Cardinality(chosen) = Portion(k + 1, L, amount)
      BY <1>4, <1>8, <2>1, <2>2, <2>4, SameStrata
    <3>3. /\ Shuffle(f, order) /\ Waiting(amount, L, order, k, strata, shares)
          /\ Given(space, amount, split, L, order, k, drawn)
      BY <1>4 DEF Halfway
    <3>4. Waiting(amount, L, order, k + 1, strata', shares')
      <4> DEFINE X == {order[i] : i \in 1..L}
      <4>1. /\ strata \in Seq(X) /\ Len(strata) = L - k /\ shares \in Seq(Int) /\ Len(shares) = L - k
            /\ \A i \in 1..L - k : strata[i] = order[k + i] /\ shares[i] = Portion(k + i, L, amount)
        BY <3>3 DEF Waiting
      <4> HIDE DEF X
      <4>2. /\ strata' \in Seq(X) /\ Len(strata') = L - (k + 1)
            /\ shares' \in Seq(Int) /\ Len(shares') = L - (k + 1)
            /\ \A i \in 1..L - (k + 1) : strata'[i] = strata[i + 1] /\ shares'[i] = shares[i + 1]
        <5>1. L - k > 0 /\ (L - k) - 1 = L - (k + 1)
          BY <1>4
        <5> QED BY <3>1, <4>1, <5>1, TailFacts
      <4>3. ASSUME NEW i \in 1..L - (k + 1)
            PROVE  strata'[i] = order[(k + 1) + i] /\ shares'[i] = Portion((k + 1) + i, L, amount)
        <5>1. i + 1 \in 1..L - k /\ k + (i + 1) = (k + 1) + i
          BY <1>4
        <5> QED BY <4>1, <4>2, <5>1
      <4> QED BY <4>2, <4>3 DEF Waiting, X
    <3>5. Given(space, amount, split, L, order, k + 1, drawn')
      <4>1. /\ drawn \in Seq(SUBSET Own(space)) /\ Len(drawn) = k
            /\ \A i \in 1..k : /\ drawn[i] \subseteq Has(space, split, order[i])
                               /\ Cardinality(drawn[i]) = Portion(i, L, amount)
        BY <3>3 DEF Given
      <4>2. chosen \in SUBSET Own(space)
        BY <3>2 DEF Has
      <4>3. /\ drawn' \in Seq(SUBSET Own(space)) /\ Len(drawn') = k + 1
            /\ drawn'[k + 1] = chosen /\ \A i \in 1..k : drawn'[i] = drawn[i]
        BY <1>4, <3>1, <4>1, <4>2
      <4>4. \A i \in 1..k + 1 : i \in 1..k \/ i = k + 1
        BY <1>4
      <4> QED BY <3>2, <4>1, <4>3, <4>4 DEF Given, v
    <3>6. Halfway(space, amount, split, f, order, k + 1, strata', shares', drawn')
      BY <1>4, <1>6, <3>3, <3>4, <3>5 DEF Halfway
    <3>7. /\ Halfway(space, amount, split, f, order, k + 1, strata', shares', drawn')
          /\ pc' # "sample" /\ pc' # "done" /\ pc' # "refused" /\ pc' # "start" /\ pc' = "condition"
      BY <3>1, <3>6
    <3> QED BY <1>1, <1>2, <3>7 DEF StratInv
  <2> QED BY <2>3, <2>4
<1> QED BY <1>10, <1>11

\* No value is left: all shares have been drawn.
LEMMA StratFinish == SampledAssumption /\ StratInv /\ Strat!Finish => StratInv'
<1> SUFFICES ASSUME SampledAssumption, StratInv, Strat!Finish PROVE StratInv'
  OBVIOUS
<1>1. /\ pc = "condition" /\ strata = <<>> /\ pc' = "done"
      /\ space' = space /\ amount' = amount /\ split' = split /\ drawn' = drawn
      /\ strata' = strata /\ shares' = shares
  BY DEF Strat!Finish
<1>2. space \in Spaces /\ amount \in Int /\ Usable(space)
  BY <1>1, Underway
<1>3. PICK f, order, L, k : AtStratum(f, order, L, k)
  BY <1>1, Underway
<1>4. /\ k = Len(f.values)
      /\ Halfway(space, amount, split, f, order, k, strata, shares, drawn)
  BY <1>1, <1>3 DEF AtStratum
<1> QED BY <1>1, <1>2, <1>4 DEF StratInv

\* Every step keeps the invariant.
LEMMA StratNext == SampledAssumption /\ StratInv /\ [Strat!Next]_(Strat!vars) => StratInv'
<1> SUFFICES ASSUME SampledAssumption, StratInv, [Strat!Next]_(Strat!vars) PROVE StratInv'
  OBVIOUS
<1>1. CASE UNCHANGED Strat!vars
  BY <1>1 DEF Strat!vars, StratInv
<1>2. CASE Strat!Next
  BY <1>2, StratBegin, StratCondition, StratSample, StratFinish DEF Strat!Next
<1> QED BY <1>1, <1>2

\* When all shares have been drawn the sample is complete and balanced.
LEMMA SampledInFull ==
  ASSUME SampledAssumption, StratInv, pc = "done", NEW g, g \in Strat!Unconditional
  PROVE  /\ Strat!All \subseteq Strat!Mine /\ Strat!Cardinality(Strat!All) = amount
         /\ \A i, j \in DOMAIN drawn : i # j => drawn[i] \cap drawn[j] = {}
         /\ \A v, w \in Strat!ToSet(g.values) :
              Strat!Cardinality(Strat!All \cap Strat!Having(v))
                <= Strat!Cardinality(Strat!All \cap Strat!Having(w)) + 1
<1>2. /\ space \in Spaces /\ amount \in Int /\ Usable(space)
      /\ WellFormed(space.fields) /\ ValidSchema(space.fields)
  BY Underway
<1>3. PICK f, order, L, k : AtStratum(f, order, L, k)
  BY Underway
<1>4. /\ L \in Nat /\ k = L /\ L = Len(f.values) /\ DOMAIN f.values = 1..L
      /\ Halfway(space, amount, split, f, order, L, strata, shares, drawn)
  BY <1>3 DEF AtStratum
<1>5. Asked(space, split, f) /\ Shuffle(f, order) /\ Given(space, amount, split, L, order, L, drawn)
  BY <1>4 DEF Halfway
<1>6. g = f
  <2>1. Asked(space, split, g)
    BY SameStrata
  <2> QED BY <1>2, <1>5, <2>1, StratumFacts
<1>7. L > 0
  <2>1. PICK r \in Own(space) : TRUE
    BY <1>2 DEF Usable
  <2>2. \E i \in DOMAIN f.values : r[split] = f.values[i]
    BY <1>2, <1>5, StratumFacts
  <2> QED BY <1>4, <2>2
<1>8. /\ drawn \in Seq(SUBSET Own(space)) /\ Len(drawn) = L
      /\ \A i \in 1..L : /\ drawn[i] \subseteq Has(space, split, order[i])
                         /\ Cardinality(drawn[i]) = Portion(i, L, amount)
  BY <1>5 DEF Given
<1>9. drawn \in [1..L -> SUBSET Own(space)] /\ DOMAIN drawn = 1..L
  BY <1>8
<1>10. \A i, j \in 1..L : order[i] = order[j] => i = j
  BY <1>4, <1>5 DEF Shuffle
<1>11. ASSUME NEW i \in 1..L, NEW j \in 1..L, i # j PROVE drawn[i] \cap drawn[j] = {}
  BY <1>8, <1>10, <1>11 DEF Has
<1>12. Strat!All = UNION {drawn[i] : i \in 1..L}
  BY <1>9, SameSchemas DEF Strat!All
<1>13. IsFiniteSet(Own(space))
  BY <1>2, <1>5, StratumFacts
<1>14. Cardinality(Strat!All) = amount
  <2>1. PICK P : P = Own(space)
    OBVIOUS
  <2>2. PICK A : A = drawn
    OBVIOUS
  <2>3. /\ IsFiniteSet(P) /\ A \in [1..L -> SUBSET P]
        /\ \A i, j \in 1..L : i # j => A[i] \cap A[j] = {}
        /\ \A i \in 1..L : Cardinality(A[i]) = Portion(i, L, amount)
    BY <1>8, <1>9, <1>11, <1>13, <2>1, <2>2
  <2>4. Cardinality(UNION {A[i] : i \in 1..L}) = amount
    BY <1>2, <1>4, <1>7, <2>3, PortionsMakeAll
  <2> QED BY <1>12, <2>2, <2>4
<1>15. Strat!All \subseteq Own(space)
  BY <1>9, <1>12
<1>16. ASSUME NEW i \in 1..L PROVE Strat!All \cap Has(space, split, order[i]) = drawn[i]
  <2>1. ASSUME NEW r \in Strat!All, r \in Has(space, split, order[i]) PROVE r \in drawn[i]
    <3>1. PICK j \in 1..L : r \in drawn[j]
      BY <1>12
    <3>2. r[split] = order[j] /\ r[split] = order[i]
      BY <1>8, <2>1, <3>1 DEF Has
    <3> QED BY <1>10, <3>1, <3>2
  <2>2. drawn[i] \subseteq Strat!All
    BY <1>12
  <2> QED BY <1>8, <2>1, <2>2
<1>17. \A v \in Strat!ToSet(f.values) : \E i \in 1..L : v = order[i]
  <2>1. \A v \in Strat!ToSet(f.values) : \E i \in DOMAIN f.values : v = f.values[i]
    BY SameSchemas
  <2>2. \A i \in DOMAIN f.values : \E j \in 1..L : order[j] = f.values[i]
    BY <1>4, <1>5 DEF Shuffle
  <2> QED BY <2>1, <2>2
<1>18. ASSUME NEW v \in Strat!ToSet(f.values), NEW w \in Strat!ToSet(f.values)
       PROVE  Strat!Cardinality(Strat!All \cap Strat!Having(v))
                <= Strat!Cardinality(Strat!All \cap Strat!Having(w)) + 1
  <2>1. PICK i \in 1..L : v = order[i]
    BY <1>17
  <2>2. PICK j \in 1..L : w = order[j]
    BY <1>17
  <2>3. Strat!All \cap Strat!Having(v) = drawn[i] /\ Strat!All \cap Strat!Having(w) = drawn[j]
    BY <1>16, <2>1, <2>2, SameStrata
  <2>4. Portion(i, L, amount) <= Portion(j, L, amount) + 1
    BY <1>2, <1>4, <1>7, PortionFacts
  <2> QED BY <1>8, <2>3, <2>4, SameStrata
<1> QED BY <1>6, <1>9, <1>11, <1>14, <1>15, <1>18, SameStrata

\* A campaign is refused only for a reason.
LEMMA RefusedForAReason ==
  ASSUME SampledAssumption, StratInv, pc = "refused"
  PROVE  \/ amount < 0
         \/ split \in DOMAIN space.fixed
         \/ \A f \in Strat!Unconditional :
              \E v \in Strat!ToSet(f.values) :
                \/ Strat!Having(v) = {}
                \/ Strat!Cardinality(Strat!Having(v)) < Strat!Largest(Len(f.values))
<1>1. Reason(space, amount, split)
  BY DEF StratInv
<1>2. \A L : Strat!Largest(L) = Most(L, amount)
  BY DEF Strat!Largest, Most
<1>3. ASSUME NEW f \in Strat!Unconditional, NEW i \in DOMAIN f.values,
             \/ Has(space, split, f.values[i]) = {}
             \/ Cardinality(Has(space, split, f.values[i])) < Most(Len(f.values), amount)
      PROVE  \E v \in Strat!ToSet(f.values) :
                \/ Strat!Having(v) = {}
                \/ Strat!Cardinality(Strat!Having(v)) < Strat!Largest(Len(f.values))
  <2>1. f.values[i] \in Strat!ToSet(f.values)
    BY SameSchemas
  <2> QED BY <1>2, <1>3, <2>1, SameStrata
<1>4. \A f \in Strat!Unconditional : Asked(space, split, f)
  BY SameStrata
<1> QED BY <1>1, <1>3, <1>4 DEF Reason

\* For all schemas, fixed values, fields and numbers of records, whatever is
\* drawn: a stratified sample that is returned has as many records as asked for,
\* all of the space and no two the same, and two values of the field differ by
\* one record at most; it is refused only for a reason (space.py 180-198).
THEOREM StratifiedCampaignsAreBalanced ==
  ASSUME SampledAssumption
  PROVE  Strat!Spec => []Strat!StratifiedIsBalanced
<1>1. Strat!Init => StratInv
  BY StratInit
<1>2. StratInv /\ [Strat!Next]_(Strat!vars) => StratInv'
  BY StratNext
<1>3. StratInv => Strat!StratifiedIsBalanced
  BY SampledInFull, RefusedForAReason DEF Strat!StratifiedIsBalanced
<1> QED BY <1>1, <1>2, <1>3, PTL DEF Strat!Spec

\* For all schemas and fixed values: the records that a sample is drawn from are
\* exactly those that rank accepts (space.py 91-116, compiler.py 49-85).
THEOREM SampledRecordsAreRanked ==
  ASSUME SampledAssumption, NEW s \in Spaces, NEW record \in Contexts(s.fields)
  PROVE  record \in Strat!RecordsOf(s.fields, s.fixed)
           <=> Strat!TokensFromRecord(s.fields, s.fixed, record).ok
<1>1. WellFormed(s.fields) /\ ValidSchema(s.fields)
  BY DEF SampledAssumption
<1>2. record \in Strat!RecordsOf(s.fields, s.fixed) <=> record \in Met(s.fields, s.fixed, Len(s.fields))
  BY DEF Strat!RecordsOf, Strat!Compiled, Met
<1> QED BY <1>1, <1>2, MetAccepted, AcceptedMet
=============================================================================
