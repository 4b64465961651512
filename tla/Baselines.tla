----------------------------- MODULE Baselines -----------------------------
(***************************************************************************)
(* The encodings that ranks are measured against (src/pdrs/baselines.py):  *)
(* the local codes of a word, their width in a packed encoding, their      *)
(* bytes on a protobuf wire, and the fixed-field allocation, whose loop    *)
(* over the depths of the graph is the state machine of this module.       *)
(***************************************************************************)
EXTENDS SchemaWords

CONSTANTS Schemas,
          GroupSize,    \* values of one varint byte without its high bit: 128
          SampleLimits  \* sample_limit of average_metric

VARIABLES schema,
          current,  \* the nodes at this depth
          total,    \* bits allocated so far
          pc

vars == <<schema, current, total, pc>>

\* (cardinality - 1).bit_length(): the least width that tells them apart.
BitsFor(cardinality) == CHOOSE b \in 0..cardinality : 2 ^ b >= cardinality /\ \A k \in 0..b - 1 : 2 ^ k < cardinality

Init ==
  /\ schema \in Schemas
  /\ current = {schema.root}
  /\ total = 0
  /\ pc = "depths"

Inner == {n \in current : schema.nodes[n].type # "terminal"}

Alphabet(node) == IF node.type = "choice" THEN Len(node.branches) ELSE Width(node)

\* Variation: the alphabet of any node stands for those of its depth.
SmallestAlphabet == Min({Alphabet(schema.nodes[n]) : n \in Inner})

LargestAlphabet == Max({Alphabet(schema.nodes[n]) : n \in Inner})

Level ==
  /\ pc = "depths"
  /\ current # {}
  /\ LET sentinel == IF Inner # current THEN 1 ELSE 0
     IN  total' = total + (IF Inner = {} THEN 0 ELSE BitsFor(LargestAlphabet + sentinel))
  /\ current' = UNION {ToSet(Targets(schema.nodes[n])) : n \in Inner}
  /\ UNCHANGED <<schema, pc>>

Finish ==
  /\ pc = "depths"
  /\ current = {}
  /\ pc' = "done"
  /\ UNCHANGED <<schema, current, total>>

Next == Level \/ Finish

Spec == Init /\ [][Next]_vars

-----------------------------------------------------------------------------

Code(node, token) ==
  IF node.type = "choice"
    THEN Min({i \in DOMAIN node.branches : <<"str", node.branches[i].value>> = token}) - 1
    ELSE token[2] - node.start

\* token_codes: each token of a word as its code and the local alphabet.
TokenCodes(word) ==
  LET path == CHOOSE t \in Trace(schema, word) : TRUE
  IN  [i \in DOMAIN word |-> <<Code(schema.nodes[path[i]], word[i]), Alphabet(schema.nodes[path[i]])>>]

UperBits(word) == FoldSeq(LAMBDA c, sum : BitsFor(c[2]) + sum, 0, TokenCodes(word))

\* A byte is <<more, group>>.
RECURSIVE Varint(_)
Varint(value) ==
  IF value < GroupSize THEN <<<<FALSE, value>>>>
  ELSE <<<<TRUE, value % GroupSize>>>> \o Varint(value \div GroupSize)

\* A field is the varint of its tag, the position shifted by three bits, and
\* that of its code.
WireBytes(word) ==
  FlattenSeq([i \in DOMAIN word |-> Varint(i * 8) \o Varint(TokenCodes(word)[i][1])])

\* The words an average is taken over, all or every (count / limit)-th: the lists
\* that rounding may leave.  A multiple of the step, a float, that ought to be an
\* integer may come out below it.
SampleIndices(limit) ==
  LET count == CountOf(schema)
      whole == {i \in 2..limit : ((i - 1) * count) % limit = 0}
      Multiple(i, short) == ((i - 1) * count) \div limit - (IF i \in short THEN 1 ELSE 0)
  IN  IF count <= limit THEN {[i \in 1..count |-> i - 1]}
      ELSE {[i \in 1..limit |-> Min({count - 1, Multiple(i, short)})] : short \in SUBSET whole}

-----------------------------------------------------------------------------

Words == EnumerateValues(schema)
RankBits == BitsFor(CountOf(schema))

\* What the comparison rests on.  The fixed-length rank is never wider than the
\* fixed-field allocation, though that adds a sentinel only where a path ends
\* (tests/test_baselines.py:18), nor than the widest packed word; both other
\* encodings tell the words apart, whatever the lengths of the paths; and an
\* average over a sample is one over distinct words.
BaselinesAreFair ==
  pc = "done" =>
    /\ RankBits <= total
    /\ RankBits <= Max({UperBits(w) : w \in ToSet(Words)})
    /\ Cardinality({TokenCodes(w) : w \in ToSet(Words)}) = CountOf(schema)
    /\ Cardinality({WireBytes(w) : w \in ToSet(Words)}) = CountOf(schema)
    /\ \A limit \in SampleLimits : \A indices \in SampleIndices(limit) : IsInjective(indices)
=============================================================================
