----------------------------- MODULE MCFinSpace -----------------------------
(***************************************************************************)
(* The parts of FinSpace that meet only in files and in calls, on small    *)
(* instances: documents (SchemaCodec), stratified samples (Stratified),    *)
(* export (Export) and a checkpoint that processes share                   *)
(* (SharedCheckpoint).  A behaviour is one of the part that is chosen at   *)
(* the start; the variables of the parts are laid over each other, s[k]    *)
(* being the k-th variable of the one that runs.                           *)
(***************************************************************************)
EXTENDS Integers, Sequences, TLC

CONSTANTS Parts,        \* the parts to be checked
          SampleSizes,  \* of Stratified
          NullValue, EmptyText, NumberOne, Blank  \* of Export

VARIABLES part, s1, s2, s3, s4, s5, s6, s7, s8, s9, s10
vars == <<part, s1, s2, s3, s4, s5, s6, s7, s8, s9, s10>>

-----------------------------------------------------------------------------
(* SchemaCodec: documents and programs of two fields, the second of them   *)
(* in every form, right and wrong.  1, true and "1" are three values.      *)

LOCAL INSTANCE FieldForms

One == <<"int", 1>>
True == <<"bool", TRUE>>
Text == <<"str", "1">>

Values == {<<One>>, <<One, True>>, <<True, Text>>, <<One, One>>, <<>>}
Raw(name, values, dependsOn, cases, default, when) ==
  [name |-> name, values |-> values, dependsOn |-> dependsOn, cases |-> cases,
   default |-> default, when |-> when]
NoCases == [form |-> "none", items |-> <<>>]
First == Raw("a", {<<One, True>>}, {}, NoCases, {}, NoCases)

CaseLists ==
  {NoCases} \cup
  {[form |-> f, items |-> i] : f \in {"list", "map"}, i \in
     {<<[equals |-> One, values |-> v], [equals |-> e, values |-> <<One>>]>> : v \in Values, e \in {One, True}}}
Whens ==
  {NoCases,
   Listed(<<[field |-> "a", scalar |-> FALSE, values |-> <<One>>]>>),
   Listed(<<[field |-> "a", scalar |-> FALSE, values |-> <<One, True>>],
                  [field |-> "a", scalar |-> FALSE, values |-> <<True>>]>>),
   Listed(<<[field |-> "b", scalar |-> FALSE, values |-> <<One>>]>>),
   [form |-> "map", items |-> <<[field |-> "a", scalar |-> TRUE, values |-> True]>>],
   [form |-> "map", items |-> <<[field |-> "a", scalar |-> FALSE, values |-> <<>>]>>]}

Seconds ==
  {Raw("b", {v}, {}, NoCases, {}, w) : v \in Values, w \in Whens}
  \cup {Raw("b", v, d, c, e, w) : v \in {{}, {<<One>>}}, d \in {{}, {"a"}, {"b"}},
                                  c \in CaseLists, e \in {{}, {<<Text>>}}, w \in Whens}

SavedDocuments == {<<First, s>> : s \in Seconds} \cup {<<s>> : s \in Seconds} \cup {<<First, First>>}

OneCase == <<[equals |-> One, values |-> <<Text>>]>>
BuiltSchemas ==
  {<<a, b>> :
     a \in {Enum("a", <<One, True>>, <<>>)} \cup IntegerField("a", 1, 4, 2, <<>>)
             \cup IntegerField("a", 1, 0, 1, <<>>),
     b \in {Dependent("b", "a", c, d, <<>>) : c \in {<<>>, OneCase}, d \in {{}, {<<>>}, {<<True>>}}}
             \cup {Field("b", {<<One>>}, d, c, {}, <<>>) : d \in {{}, {"a"}}, c \in {<<>>, OneCase}}}

Codec == INSTANCE SchemaCodec WITH
  Documents <- SavedDocuments, Built <- BuiltSchemas,
  pc <- s1, document <- s2, schema <- s3, file <- s4, again <- s5

-----------------------------------------------------------------------------
(* Stratified: schemas of three fields over two and three values, strata   *)
(* of one size and of several, strata that are empty, fields fixed.        *)

LOCAL INSTANCE FinSchema

FieldOf(name, values, on, cases, default, when) ==
  [name |-> name, values |-> values, dependsOn |-> on, cases |-> cases,
   default |-> default, when |-> when]
If(name, values) == [field |-> name, values |-> values]

Kinds == FieldOf("kind", <<"x", "y", "z">>, None, <<>>, NoValues, {})
Sides == FieldOf("side", <<"x", "y">>, None, <<>>, NoValues, {})
Prices ==
  {FieldOf("price", <<"x", "y">>, None, <<>>, NoValues, {If("kind", {"x", "y"})}),
   FieldOf("price", NoValues, "kind", "x" :> <<"x", "y">> @@ "y" :> <<"x">>, NoValues, {}),
   FieldOf("price", NoValues, "kind", "x" :> <<"y">>, <<"x", "y", "z">>, {})}
Stops ==
  {FieldOf("stop", NoValues, "price", "x" :> <<"x", "y">>, <<"y">>, {}),
   FieldOf("stop", NoValues, "price", "x" :> <<"x">>, NoValues, {If("kind", {"x"})})}

SampledSpaces ==
  [fields : {<<Kinds, p, Sides>> : p \in Prices} \cup {<<Kinds, p, s>> : p \in Prices, s \in Stops},
   fixed : {<<>>, "kind" :> "y", "price" :> "x", "side" :> "y", "kind" :> "x" @@ "price" :> "y"}]

MCSampleSizes == {-1, 0, 1, 2, 4, 5, 7}

Sample == INSTANCE Stratified WITH
  Spaces <- SampledSpaces, Fields <- {"kind", "side", "price", "q"}, Sizes <- SampleSizes,
  space <- s1, field <- s2, n <- s3, pc <- s4, strata <- s5, allocations <- s6, stratum <- s7,
  output <- s8

-----------------------------------------------------------------------------
(* Export: up to four records whose optional fields come and go, with null *)
(* and empty values and values that print alike, and intervals inside,     *)
(* across and outside of the space.                                        *)

Short == "kind" :> "x"
Long == "kind" :> "y" @@ "price" :> "x"
Other == "kind" :> "z" @@ "stop" :> "x"

Null == "kind" :> "y" @@ "price" :> NullValue
Empty == "kind" :> EmptyText @@ "price" :> NumberOne
Texts == "kind" :> NumberOne @@ "price" :> "1"

\* The cell of a value: null and empty text are empty, 1 and "1" are "1".
CellText(value) ==
  IF value \in {NullValue, EmptyText} THEN Blank ELSE IF value = NumberOne THEN "1" ELSE value

ExportedSpaces ==
  {<<Short>>, <<Long, Long>>, <<Short, Long>>, <<Long, Short, Short>>, <<Other, Long>>,
   <<Long, Short, Long, Other>>, <<Null, Short, Empty>>, <<Empty, Texts, Null>>}

File == INSTANCE Export WITH
  Spaces <- ExportedSpaces, Starts <- {-1, 0, 1, 2, 3, 5},
  Stops <- {{}} \cup {{i} : i \in {-1, 0, 1, 2, 3, 4, 6}}, Limits <- {{}, {-1}, {0}, {1}, {3}},
  RankColumn <- "rank", Text <- CellText,
  space <- s1, format <- s2, start <- s3, stop <- s4, pc <- s5, next <- s6, header <- s7,
  file <- s8, status <- s9, printed <- s10

-----------------------------------------------------------------------------
(* SharedCheckpoint: two processes and two ranks. *)

Shared == INSTANCE SharedCheckpoint WITH
  Spaces <- {"A", "B"}, Ranks <- {0, 1}, Processes <- {"p", "q"}, MaxStarts <- 3,
  commits <- s1, pc <- s2, opened <- s3, before <- s4, rank <- s5, executed <- s6, starts <- s7

-----------------------------------------------------------------------------

Init ==
  /\ part \in Parts
  /\ \/ part = "codec" /\ Codec!Init /\ s6 = 0 /\ s7 = 0 /\ s8 = 0 /\ s9 = 0 /\ s10 = 0
     \/ part = "sample" /\ Sample!Init /\ s9 = 0 /\ s10 = 0
     \/ part = "file" /\ File!Init
     \/ part = "shared" /\ Shared!Init /\ s8 = 0 /\ s9 = 0 /\ s10 = 0

OfCodec(A) == part = "codec" /\ A /\ UNCHANGED <<part, s6, s7, s8, s9, s10>>
OfSample(A) == part = "sample" /\ A /\ UNCHANGED <<part, s9, s10>>
OfFile(A) == part = "file" /\ A /\ UNCHANGED part
OfShared(A) == part = "shared" /\ A /\ UNCHANGED <<part, s8, s9, s10>>

Next ==
  \/ OfCodec(Codec!Load) \/ OfCodec(Codec!Build) \/ OfCodec(Codec!Save) \/ OfCodec(Codec!Reload)
  \/ OfSample(Sample!Begin) \/ OfSample(Sample!Condition) \/ OfSample(Sample!Sample)
  \/ OfSample(Sample!Finish)
  \/ OfFile(File!OpenLines) \/ OfFile(File!OpenColumns) \/ OfFile(File!WriteRow)
  \/ OfFile(File!Close) \/ OfFile(File!Report)
  \/ \E p \in {"p", "q"} :
       \/ OfShared(Shared!Start(p)) \/ OfShared(Shared!Select(p)) \/ OfShared(Shared!Insert(p))
       \/ OfShared(Shared!ReadCompleted(p)) \/ OfShared(Shared!Execute(p))
       \/ OfShared(Shared!Record(p)) \/ OfShared(Shared!Return(p)) \/ OfShared(Shared!Stop(p))

Spec == Init /\ [][Next]_vars

-----------------------------------------------------------------------------
\* A document keeps its meaning when it is loaded, saved and loaded again
\* (SchemaCodec, finspace/schema.py).
SavedIsSame == part = "codec" => Codec!SavedIsSame

\* A stratified sample has the records asked for, evenly over the values, and
\* is refused only for a reason (Stratified, finspace/space.py).
StratifiedIsBalanced == part = "sample" => Sample!StratifiedIsBalanced

\* An export that succeeds is complete, one that fails leaves a beginning of it
\* (Export, finspace/cli.py).
ExportIsComplete == part = "file" => File!ExportIsComplete

\* Rows of one run id are of one space, whatever processes share the file
\* (SharedCheckpoint, finspace/runner.py).
RunHasOneSpace == part = "shared" => Shared!RunHasOneSpace

\* "Records remain rankable in the parent space": docs/sampling-and-partitioning.md
\* of conditioned spaces (Stratified, finspace/space.py).
RankableInParent == part = "sample" => Sample!RankableInParent
=============================================================================
