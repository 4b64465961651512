----------------------------- MODULE MCEvidence -----------------------------
(***************************************************************************)
(* The parts of PDRS around the compiled schema, on small instances: the   *)
(* samplers and partitions (Allocation), the fuzzing experiment (Fuzzing), *)
(* the generators of schemas (Generators), the encodings ranks are         *)
(* compared with (Baselines, Payload), edited schemas (Evolution), the     *)
(* audits of the scripts (Audits) and the C engine with its conformance    *)
(* report (NativeEngine).  A behaviour is one of the part that is chosen   *)
(* at the start; the variables of the parts are laid over each other, s[k] *)
(* being the k-th variable of the one that runs.                           *)
(***************************************************************************)
EXTENDS Integers, Sequences

CONSTANTS Parts  \* the parts to be checked

VARIABLES part, s1, s2, s3, s4, s5, s6, s7, s8, s9, s10, s11, s12
vars == <<part, s1, s2, s3, s4, s5, s6, s7, s8, s9, s10, s11, s12>>

Names == {"r", "a", "b", "t", "n"}
Labels == {"x", "y", "z", "w"}
ChoiceOf(labels, targets) ==
  [type |-> "choice",
   branches |-> [i \in DOMAIN labels |-> [value |-> labels[i], target |-> targets[i]]]]
RangeOf(a, b, t) == [type |-> "range", start |-> a, stop |-> b, target |-> t]
Leaf == [type |-> "terminal"]
SchemaOf(r, a, b) == [root |-> "r", nodes |-> [n \in {"r", "a", "b", "t"} |->
                        CASE n = "r" -> r [] n = "a" -> a [] n = "b" -> b [] OTHER -> Leaf]]

-----------------------------------------------------------------------------
(* Allocation: the size of a schema, the intervals of the root's branches, *)
(* the ranks at a boundary and the features of each rank.                  *)

MeasuredSchemas ==
  {[count |-> 1, intervals |-> <<{0}>>, boundary |-> {0}, features |-> [r \in {0} |-> {"k"}]],
   [count |-> 4, intervals |-> <<0..0, 1..3>>, boundary |-> {1, 3},
    features |-> [r \in 0..3 |-> {"x", IF r > 1 THEN "hi" ELSE "lo"}]],
   [count |-> 6, intervals |-> <<0..2, 3..5>>, boundary |-> {0, 4},
    features |-> [r \in 0..5 |-> IF r = 5 THEN {"x", "y", "z"} ELSE {"x"}]],
   [count |-> 5, intervals |-> <<0..4>>, boundary |-> {},
    features |-> [r \in 0..4 |-> {}]]}

Alloc == INSTANCE Allocation WITH
  Schemas <- MeasuredSchemas, Budgets <- 0..4, Workers <- 1..3, Window <- 2,
  schema <- s1, budget <- s2, workers <- s3, job <- s4, pc <- s5, left <- s6, selected <- s7,
  candidates <- s8, output <- s9, multiplier <- s10, parts <- s11

-----------------------------------------------------------------------------
(* Fuzzing: shared nodes, words of different lengths, a range wider than   *)
(* ModestWidth, a root that is a terminal.                                 *)

FuzzedSchemas ==
  {SchemaOf(ChoiceOf(<<"x", "y">>, <<"a", "b">>), ChoiceOf(<<"x", "z">>, <<"t", "t">>), RangeOf(0, 1, "t")),
   SchemaOf(ChoiceOf(<<"x", "y">>, <<"a", "t">>), RangeOf(-1, 0, "b"), ChoiceOf(<<"x">>, <<"t">>)),
   SchemaOf(RangeOf(0, 5, "a"), ChoiceOf(<<"x">>, <<"b">>), ChoiceOf(<<"y">>, <<"t">>)),
   [root |-> "t", nodes |-> [n \in {"t"} |-> Leaf]]}

Fuzz == INSTANCE Fuzzing WITH
  Schemas <- FuzzedSchemas, Budgets <- {0, 1, 3, 6}, BugSets <- {{}, {1, 3}},
  Workers <- 1..3, ModestWidth <- 4, LoopBound <- 3,
  schema <- s1, budget <- s2, bugs <- s3, source <- s4, pc <- s5, attempts <- s6, candidates <- s7,
  planned <- s8, current <- s9, proposals <- s10, report <- s11, parts <- s12

-----------------------------------------------------------------------------
(* Generators: good parameters, and those each of them refuses. *)

Gen == INSTANCE Generators WITH
  Radices <- {<<>>, <<2>>, <<2, 0>>, <<3, 1, 2>>, <<24, 60, 60>>},
  YearSpans <- {<<2001, 2000>>, <<1899, 1901>>, <<1999, 2001>>, <<2024, 2025>>},
  Layers <- {<<1, 1, 1>>, <<2, 2, 1>>, <<3, 2, 3>>, <<2, 0, 1>>, <<6, 2, 2>>},
  BranchSizes <- {<<>>, <<1>>, <<1024, 1>>, <<3, 0>>, <<2, 3, 4>>},
  MaxDepth <- 3, MaxBranches <- 2, MaxRange <- 2, NodeLimit <- 3,
  kind <- s1, given <- s2, pc <- s3, nodes <- s4, root <- s5, counter <- s6, stack <- s7, value <- s8

-----------------------------------------------------------------------------
(* Baselines: a root choice or range above choices, ranges and terminals   *)
(* at different depths.                                                    *)

ComparedSchemas ==
  LET roots == {ChoiceOf(<<"x", "y">>, ts) : ts \in {<<"a", "a">>, <<"a", "t">>, <<"b", "a">>, <<"t", "a">>}}
               \cup {ChoiceOf(<<"x", "y", "z">>, <<t, "a", "a">>) : t \in {"b", "t"}}
               \cup {RangeOf(0, 4, "a")}
      as == {ChoiceOf(<<"x", "y">>, <<"b", t>>) : t \in {"b", "t"}}
            \cup {RangeOf(-1, w, "b") : w \in {-1, 0, 2}}
      bs == {ChoiceOf(<<"x">>, <<"t">>), RangeOf(0, 3, "t"), RangeOf(5, 9, "t"), Leaf}
  IN  {SchemaOf(r, a, b) : r \in roots, a \in as, b \in bs}

Base == INSTANCE Baselines WITH
  Schemas <- ComparedSchemas, GroupSize <- 4, SampleLimits <- {1, 3, 7},
  schema <- s1, current <- s2, total <- s3, pc <- s4

\* Payload: bytes of two bits, sizes on and around the powers of the radix 4.
Pay == INSTANCE Payload WITH
  ByteBits <- 2, Counts <- 1..18 \cup {63, 64, 65}, MaxBytes <- 4,
  count <- s1, phase <- s2, given <- s3, wire <- s4, rank <- s5, second <- s6

-----------------------------------------------------------------------------
(* Evolution: one to three branches at the root, nodes that branches       *)
(* share, ranges of different widths at either level.                      *)

EditedSchemas ==
  LET roots ==
        {ChoiceOf(<<"x">>, <<"a">>)}
        \cup {ChoiceOf(<<"x", "y">>, ts) : ts \in {<<"a", "b">>, <<"b", "a">>, <<"a", "a">>, <<"t", "a">>}}
        \cup {ChoiceOf(<<"x", "y", "z">>, ts) : ts \in {<<"a", "b", "t">>, <<"b", "t", "a">>, <<"b", "a", "b">>}}
      as == {RangeOf(0, w, "b") : w \in {0, 1, 2}}
            \cup {ChoiceOf(<<"x", "y">>, ts) : ts \in {<<"b", "t">>, <<"t", "b">>}}
      bs == {RangeOf(-1, w, "t") : w \in {-1, 0, 2}} \cup {ChoiceOf(<<"x", "y">>, <<"t", "t">>)}
  IN  {SchemaOf(r, a, b) : r \in roots, a \in as, b \in bs}

Evol == INSTANCE Evolution WITH
  Schemas <- EditedSchemas, NewName <- "n", NewLabel <- "w", NewWidth <- 2,
  base <- s1, kind <- s2, changed <- s3, pc <- s4, index <- s5, common <- s6, moves <- s7

\* Audits: all pairs of functions over up to three ranks and four values.
Audit == INSTANCE Audits WITH
  Counts <- 1..3, Values <- {"u", "v", "w", "x"},
  Reference <- [n \in 1..3 |-> SubSeq(<<"u", "v", "w">>, 1, n)], AllUpTo <- 2, SampleSize <- 2,
  audit <- s1, count <- s2, forth <- s3, back <- s4, pc <- s5, left <- s6, checked <- s7,
  failures <- s8, seen <- s9

-----------------------------------------------------------------------------
(* NativeEngine: files of up to five lines for words of four bits: choices *)
(* of up to four branches, the longest with more parts than a line may     *)
(* have, some with a repeated label, ranges of every width up to all       *)
(* sixteen integers, shared and missing targets, cycles, lines out of      *)
(* range, two nodes of one name.                                           *)

Fork(name, branches) == [type |-> "C", name |-> name, branches |-> branches]
Edge(value, target) == [value |-> value, target |-> target]
Numbers(name, start, stop, target) ==
  [type |-> "R", name |-> name, start |-> start, stop |-> stop, target |-> target]
End(name) == [type |-> "T", name |-> name]

LineBounds == {<<-8, 7>>, <<-8, 6>>, <<-8, -8>>, <<-1, 1>>, <<0, 4>>, <<6, 7>>, <<2, 1>>, <<0, 8>>}
Nexts(names) == {Fork("b", <<>>)} \cup
  {Fork("b", <<Edge("x", s), Edge(l, t)>>) : s \in names, l \in {"x", "y"}, t \in names}
FirstLines ==
  {Fork("a", <<Edge("x", s), Edge("y", t), Edge("z", u)>>) : s, t, u \in {"b", "c", "e"}}
  \cup {Fork("a", <<Edge("x", "b"), Edge("y", "c"), Edge("z", "e"), Edge("w", "e")>>)}
  \cup {Numbers("a", r[1], r[2], t) : r \in LineBounds, t \in {"b", "c", "q"}}
SecondLines == Nexts({"a", "c", "e"}) \cup {Numbers("b", r[1], r[2], t) : r \in LineBounds, t \in {"c", "e"}}
ThirdLines ==
  {Fork("c", <<Edge("y", "e"), Edge("x", "e")>>), Fork("c", <<Edge("x", "b")>>),
   End("c"), End("b")}
  \cup {Numbers("c", r[1], r[2], "e") : r \in LineBounds}

Files ==
  {[root |-> "a", nodes |-> <<a, b, c, End("e")>>] : a \in FirstLines, b \in SecondLines, c \in ThirdLines}
  \cup {[root |-> "a", nodes |-> <<>>], [root |-> "e", nodes |-> <<End("e")>>],
        [root |-> "q", nodes |-> <<End("e")>>],
        [root |-> "a", nodes |-> <<Numbers("a", 0, 0, "b"), Numbers("b", 0, 0, "c"), Numbers("c", 0, 0, "d"),
                                   Numbers("d", 0, 0, "e"), End("e")>>]}

Native == INSTANCE NativeEngine WITH
  Files <- Files, Bits <- 4, MaxDepth <- 3, MaxTokens <- 12, Target <- 8,
  file <- s1, pc <- s2, states <- s3, counts <- s4, stack <- s5, arg <- s6, answer <- s7,
  index <- s8, failures <- s9, ranks <- s10

-----------------------------------------------------------------------------

Init ==
  /\ part \in Parts
  /\ \/ part = "fuzz" /\ Fuzz!Init
     \/ part = "allocation" /\ Alloc!Init
          /\ s12 = 0
     \/ part = "generators" /\ Gen!Init
          /\ s9 = 0 /\ s10 = 0 /\ s11 = 0 /\ s12 = 0
     \/ part = "baselines" /\ Base!Init
          /\ s5 = 0 /\ s6 = 0 /\ s7 = 0 /\ s8 = 0 /\ s9 = 0 /\ s10 = 0 /\ s11 = 0 /\ s12 = 0
     \/ part = "payload" /\ Pay!Init
          /\ s7 = 0 /\ s8 = 0 /\ s9 = 0 /\ s10 = 0 /\ s11 = 0 /\ s12 = 0
     \/ part = "evolution" /\ Evol!Init
          /\ s8 = 0 /\ s9 = 0 /\ s10 = 0 /\ s11 = 0 /\ s12 = 0
     \/ part = "audits" /\ Audit!Init
          /\ s10 = 0 /\ s11 = 0 /\ s12 = 0
     \/ part = "native" /\ Native!Init
          /\ s11 = 0 /\ s12 = 0

OfFuzz(A) == part = "fuzz" /\ A /\ UNCHANGED part
OfAlloc(A) == part = "allocation" /\ A /\ UNCHANGED <<part, s12>>
OfGen(A) == part = "generators" /\ A /\ UNCHANGED <<part, s9, s10, s11, s12>>
OfBase(A) == part = "baselines" /\ A /\ UNCHANGED <<part, s5, s6, s7, s8, s9, s10, s11, s12>>
OfPay(A) == part = "payload" /\ A /\ UNCHANGED <<part, s7, s8, s9, s10, s11, s12>>
OfEvol(A) == part = "evolution" /\ A /\ UNCHANGED <<part, s8, s9, s10, s11, s12>>
OfAudit(A) == part = "audits" /\ A /\ UNCHANGED <<part, s10, s11, s12>>
OfNative(A) == part = "native" /\ A /\ UNCHANGED <<part, s11, s12>>
OfCount(A) == OfNative(A /\ UNCHANGED <<s8, s9, s10>>)

Next ==
  \/ OfFuzz(Fuzz!Start) \/ OfFuzz(Fuzz!Drawn) \/ OfFuzz(Fuzz!Grammar) \/ OfFuzz(Fuzz!Naive)
  \/ OfFuzz(Fuzz!NaiveRaises) \/ OfFuzz(Fuzz!Mutate) \/ OfFuzz(Fuzz!Account)
  \/ OfFuzz(Fuzz!Finish) \/ OfFuzz(Fuzz!Overlap)
  \/ OfAlloc(Alloc!Start) \/ OfAlloc(Alloc!Draw) \/ OfAlloc(Alloc!Shuffle)
  \/ OfAlloc(Alloc!Merge) \/ OfAlloc(Alloc!PickBest) \/ OfAlloc(Alloc!PickDone)
  \/ OfAlloc(Alloc!Replace) \/ OfAlloc(Alloc!BranchUniform) \/ OfAlloc(Alloc!Affine)
  \/ OfAlloc(Alloc!Assign) \/ OfAlloc(Alloc!Hash)
  \/ OfGen(Gen!Refuse) \/ OfGen(Gen!Generate) \/ OfGen(Gen!Begin) \/ OfGen(Gen!Leaf)
  \/ OfGen(Gen!SharedLeaf) \/ OfGen(Gen!OpenRange) \/ OfGen(Gen!OpenChoice)
  \/ OfGen(Gen!Recurse) \/ OfGen(Gen!Receive) \/ OfGen(Gen!StoreRange)
  \/ OfGen(Gen!StoreChoice) \/ OfGen(Gen!FinishTree)
  \/ OfBase(Base!Level) \/ OfBase(Base!Finish)
  \/ \E n \in 0..64 : OfPay(Pay!Encode(n))
  \/ \E p \in Pay!Payloads : OfPay(Pay!Receive(p))
  \/ OfPay(Pay!Decode) \/ OfPay(Pay!Again)
  \/ OfEvol(Evol!Edit) \/ OfEvol(Evol!Compare) \/ OfEvol(Evol!Report)
  \/ OfAudit(Audit!Start) \/ OfAudit(Audit!Check) \/ OfAudit(Audit!Finish)
  \/ OfCount(Native!Load) \/ OfCount(Native!Call) \/ OfCount(Native!Descend)
  \/ OfCount(Native!Take) \/ OfCount(Native!Close) \/ OfCount(Native!Loaded)
  \/ OfNative(Native!Verify) \/ OfNative(Native!EndVerify) \/ OfNative(Native!Compare)

Spec == Init /\ [][Next]_vars

-----------------------------------------------------------------------------
\* Floyd's sample is uniform: each set of the size asked for comes from the same
\* number of equally likely draws (Allocation, pdrs_v2.py).
UniformSample == part = "allocation" => Alloc!UniformSample

\* No method but drawing with replacement names a rank twice, and each policy
\* assigns every rank exactly once (Allocation, run_phase1_9.py).
RanksOnce == part = "allocation" => Alloc!RanksOnce

\* What a source reports is true of the values that were proposed (Fuzzing,
\* pdrs/fuzzing.py).
ReportIsTrue == part = "fuzz" => Fuzz!ReportIsTrue

\* Grammar walks and candidates reach every word, ranks drawn without replacement
\* give distinct words, mutations start from a word, and workers do not overlap
\* (Fuzzing, pdrs/fuzzing.py).
SourcesAreFair == part = "fuzz" => Fuzz!SourcesAreFair

\* A generated document compiles and has the paths and the count that its name
\* promises (Generators, pdrs/generators.py).
GeneratedIsSound == part = "generators" => Gen!GeneratedIsSound

\* The encodings that ranks are compared with tell the words apart, and a rank is
\* never wider than the fixed-field allocation (Baselines, pdrs/baselines.py).
BaselinesAreFair == part = "baselines" => Base!BaselinesAreFair

\* Every rank has one payload and every payload at most one rank (Payload,
\* pdrs/core.py).
OnePayloadEach == part = "payload" => Pay!OnePayloadEach

\* Each edit of a schema moves the ranks of the words that stay as the theory says
\* (Evolution, run_full_experiments.py).
RanksMoveAsProved == part = "evolution" => Evol!RanksMoveAsProved

\* The verdict of an audit says what it has been able to see (Audits).
VerdictsAreTrue == part = "audits" => Audit!VerdictsAreTrue

\* The C engine counts exactly or refuses (NativeEngine, pdrs_native.c).
CountsNeverWrap == part = "native" => Native!CountsNeverWrap

\* The conformance report is about the engine (NativeEngine,
\* native_evidence.py).
ConformanceIsTrue == part = "native" => Native!ConformanceIsTrue
=============================================================================
