--------------------------- MODULE SchemaCompiler ---------------------------
(***************************************************************************)
(* finspace compiler.py: the recursion of _build over the fields, with its *)
(* memo, one step per branch of its code.  The call stack of Python is     *)
(* the variable stack; arg is the argument of a call that is being made,   *)
(* answer what the last call has returned.                                 *)
(***************************************************************************)
EXTENDS FinSchema, Functions

CONSTANTS Inputs,  \* schemas with what is fixed: [fields, fixed]
          Records  \* what a caller may pass to rank

\* Values are listed without repetition, or constructing a field raises
\* (schema.py 23-30, 64, 90-93).
IsList(s) == s \in Seq(Range(s))
Distinct(values) == IsList(values) /\ IsInjective(values)
WellFormed(fields) ==
  /\ IsList(fields)
  /\ \A f \in Range(fields) :
       /\ Distinct(f.values) /\ Distinct(f.default)
       /\ \A v \in DOMAIN f.cases : Distinct(f.cases[v])
ASSUME InputsAssumption == \A in \in Inputs : WellFormed(in.fields)
ASSUME RecordsAssumption == \A r \in Records : r = [n \in DOMAIN r |-> r[n]]

VARIABLES input, phase, stack, arg, answer, memo, nodes, counter
vars == <<input, phase, stack, arg, answer, memo, nodes, counter>>

Fields == input.fields
Fixed == input.fixed
End == <<"end">>
Dead == <<>>                 \* the None of the code
Nothing == <<>>              \* the empty context

Call(index, context) == [index |-> index, context |-> context]
Top == stack[Len(stack)]
Below == SubSeq(stack, 1, Len(stack) - 1)

\* _key: the relevant part of a context.
Key(index, context) ==
  <<index, Restrict(context, Relevant(Fields, index) \cap DOMAIN context)>>

Init ==
  /\ input \in Inputs
  /\ phase = "new" /\ stack = <<>>
  /\ arg = Call(1, Nothing) /\ answer = Dead
  /\ memo = <<>> /\ counter = 0
  /\ nodes = [n \in {End} |-> [type |-> "terminal"]]

\* The checks of Schema and SchemaCompiler, and the call of _build(0, {}).
Construct ==
  /\ phase = "new"
  /\ phase' = IF ValidSchema(Fields) /\ DOMAIN Fixed \subseteq NamesOf(Fields)
                THEN "call" ELSE "invalid"
  /\ UNCHANGED <<input, stack, arg, answer, memo, nodes, counter>>

Return(target) == phase' = "return" /\ answer' = target
Remember(key, target) ==
  memo' = [k \in DOMAIN memo \cup {key} |-> IF k = key THEN target ELSE memo[k]]

AtEnd == arg.index > Len(Fields)
Field == Fields[arg.index]
ArgKey == Key(arg.index, arg.context)
Calling == phase = "call" /\ ~ AtEnd
Unknown == Calling /\ ArgKey \notin DOMAIN memo

CallEnd ==
  /\ phase = "call" /\ AtEnd
  /\ Return(End)
  /\ UNCHANGED <<input, stack, arg, memo, nodes, counter>>

CallKnown ==
  /\ Calling /\ ArgKey \in DOMAIN memo
  /\ Return(memo[ArgKey])
  /\ UNCHANGED <<input, stack, arg, memo, nodes, counter>>

\* A frame waits for the calls it makes: try counts the values it has tried.
Frame(values) ==
  [index |-> arg.index, context |-> arg.context, values |-> values,
   try |-> 0, branches |-> <<>>]

CallInactive ==
  /\ Unknown /\ ~ IsActive(Field, arg.context)
  /\ stack' = Append(stack, Frame(NoValues))
  /\ arg' = Call(arg.index + 1, arg.context)
  /\ UNCHANGED <<input, phase, answer, memo, nodes, counter>>

\* resolve_values raises SchemaDefinitionError out of the whole recursion.
CallUnresolved ==
  /\ Unknown /\ Unresolved(Field, arg.context)
  /\ phase' = "unresolved"
  /\ UNCHANGED <<input, stack, arg, answer, memo, nodes, counter>>

Resolvable == Unknown /\ IsActive(Field, arg.context) /\ ~ Unresolved(Field, arg.context)

CallDead ==
  /\ Resolvable /\ Resolve(Field, arg.context) = NoValues
  /\ Remember(ArgKey, Dead) /\ Return(Dead)
  /\ UNCHANGED <<input, stack, arg, nodes, counter>>

CallField ==
  /\ Resolvable /\ Resolve(Field, arg.context) # NoValues
  /\ stack' = Append(stack, Frame(Resolve(Field, arg.context)))
  /\ phase' = "loop"
  /\ UNCHANGED <<input, arg, answer, memo, nodes, counter>>

TopField == Fields[Top.index]
TopKey == Key(Top.index, Top.context)
Value == Top.values[Top.try + 1]
SetTop(frame) == stack' = Append(Below, frame)

\* Variation: what is fixed is not looked at.
ExcludedNever == FALSE
\* A value other than the one that is fixed is left out (66-68, 72-73).
Excluded == TopField.name \in DOMAIN Fixed /\ Fixed[TopField.name] # Value

SkipValue ==
  /\ phase = "loop" /\ Top.try < Len(Top.values) /\ Excluded
  /\ SetTop([Top EXCEPT !.try = @ + 1])
  /\ UNCHANGED <<input, phase, arg, answer, memo, nodes, counter>>

TryValue ==
  /\ phase = "loop" /\ Top.try < Len(Top.values) /\ ~ Excluded
  /\ arg' = Call(Top.index + 1, With(Top.context, TopField.name, Value))
  /\ SetTop([Top EXCEPT !.try = @ + 1])
  /\ phase' = "call"
  /\ UNCHANGED <<input, answer, memo, nodes, counter>>

\* Variation: branches are numbered in the order in which they are kept.
NumberKept == Len(Top.branches)
Number == Top.try - 1

Kept(target) == target # Dead

\* A call from the loop returns.
TakeAnswer ==
  /\ phase = "return" /\ stack # <<>> /\ Top.values # NoValues
  /\ SetTop(IF Kept(answer)
              THEN [Top EXCEPT !.branches = Append(@, [value |-> Number, target |-> answer])]
              ELSE Top)
  /\ phase' = "loop"
  /\ UNCHANGED <<input, arg, answer, memo, nodes, counter>>

\* The call for an inactive field returns (58-60).
PassAnswer ==
  /\ phase = "return" /\ stack # <<>> /\ Top.values = NoValues
  /\ Remember(TopKey, answer)
  /\ stack' = Below
  /\ UNCHANGED <<input, phase, arg, answer, nodes, counter>>

\* The loop is over: 80-92.
CloseDead ==
  /\ phase = "loop" /\ Top.try = Len(Top.values) /\ Top.branches = <<>>
  /\ Remember(TopKey, Dead) /\ Return(Dead)
  /\ stack' = Below
  /\ UNCHANGED <<input, arg, nodes, counter>>

\* Variation: the node is not remembered.
CloseForgets ==
  /\ phase = "loop" /\ Top.try = Len(Top.values) /\ Top.branches # <<>>
  /\ LET name == <<"s", counter>>
         node == [type |-> "choice", field |-> TopField.name, branches |-> Top.branches]
     IN  /\ nodes' = [n \in DOMAIN nodes \cup {name} |-> IF n = name THEN node ELSE nodes[n]]
         /\ Return(name)
  /\ counter' = counter + 1
  /\ stack' = Below
  /\ UNCHANGED <<input, arg, memo>>

CloseNode ==
  /\ phase = "loop" /\ Top.try = Len(Top.values) /\ Top.branches # <<>>
  /\ LET name == <<"s", counter>>
         node == [type |-> "choice", field |-> TopField.name, branches |-> Top.branches]
     IN  /\ nodes' = [n \in DOMAIN nodes \cup {name} |-> IF n = name THEN node ELSE nodes[n]]
         /\ Remember(TopKey, name) /\ Return(name)
  /\ counter' = counter + 1
  /\ stack' = Below
  /\ UNCHANGED <<input, arg>>

\* compile: 34-43.
Finish ==
  /\ phase = "return" /\ stack = <<>>
  /\ phase' = IF answer = Dead THEN "empty" ELSE "done"
  /\ UNCHANGED <<input, stack, arg, answer, memo, nodes, counter>>

Next ==
  \/ Construct
  \/ CallEnd \/ CallKnown \/ CallInactive \/ CallUnresolved \/ CallDead \/ CallField
  \/ SkipValue \/ TryValue \/ TakeAnswer \/ PassAnswer
  \/ CloseDead \/ CloseNode \/ Finish

Spec == Init /\ [][Next]_vars

-----------------------------------------------------------------------------

\* States are shared: no more nodes than dependency contexts with a live
\* suffix (docs/architecture.md, "State sharing" and "Complexity").
NodesShared ==
  counter <= Cardinality({k \in DOMAIN memo : memo[k] \notin {Dead, End}})

-----------------------------------------------------------------------------
\* What a context may hold: listed values for some of the fields.
Listed(field) ==
  Range(field.values) \cup Range(field.default)
    \cup UNION {Range(field.cases[v]) : v \in DOMAIN field.cases}
Values(fields) == UNION {Listed(fields[i]) : i \in DOMAIN fields}
Contexts(fields) == UNION {[S -> Values(fields)] : S \in SUBSET NamesOf(fields)}

Allowed(fixed, field, values) ==
  {k \in DOMAIN values : field.name \in DOMAIN fixed => fixed[field.name] = values[k]}
Prefixed(token, words) == {<<token>> \o w : w \in words}

\* Reference: the token sequences of the fields from one field on in a context,
\* value by value and with no memo; and the fields that are met on the way when
\* the field they depend on has been left out.
FromField(field, fixed, later, context) ==
  IF ~ IsActive(field, context) THEN later[context]
  ELSE IF Unresolved(field, context) THEN [words |-> {}, missing |-> {field.name}]
  ELSE LET values == Resolve(field, context)
           After(k) == later[With(context, field.name, values[k])]
           allowed == Allowed(fixed, field, values)
       IN  [words |-> UNION {Prefixed(k - 1, After(k).words) : k \in allowed},
            missing |-> UNION {After(k).missing : k \in allowed}]

Plain(fields, fixed) ==
  LET from[i \in 1..Len(fields) + 1] ==
        [context \in Contexts(fields) |->
           IF i > Len(fields) THEN [words |-> {<<>>}, missing |-> {}]
           ELSE FromField(fields[i], fixed, from[i + 1], context)]
  IN  from

AllWords(fixed) == Plain(Fields, fixed)[1][Nothing].words
Stuck(fixed) == Plain(Fields, fixed)[1][Nothing].missing # {}

Joined(branches, words) ==
  UNION {Prefixed(branches[b].value, words[branches[b].target]) : b \in DOMAIN branches}
Language ==
  LET words[n \in DOMAIN nodes] == IF n = End THEN {<<>>} ELSE Joined(nodes[n].branches, words)
  IN  words
WordsOf(n) == IF n = Dead THEN {} ELSE Language[n]

\* What CompiledSchema asks of a document (pdrs core.py 98-119, 150-188): all
\* nodes are reached, none reaches itself, and the values of a node differ.
TargetsOf(n) ==
  IF n = End THEN {} ELSE {nodes[n].branches[b].target : b \in DOMAIN nodes[n].branches}
ClosedUnder(S) == \A n \in S : TargetsOf(n) \subseteq S
Connected == \A S \in SUBSET DOMAIN nodes : answer \in S /\ ClosedUnder(S) => S = DOMAIN nodes
AvoidsItself(n) ==
  \E S \in SUBSET DOMAIN nodes : TargetsOf(n) \subseteq S /\ ClosedUnder(S) /\ n \notin S

EngineAccepts ==
  phase = "done" =>
    /\ answer \in DOMAIN nodes /\ Connected
    /\ \A n \in DOMAIN nodes \ {End} :
         /\ AvoidsItself(n)
         /\ nodes[n].branches # <<>>
         /\ \A a, b \in DOMAIN nodes[n].branches :
              nodes[n].branches[a].value = nodes[n].branches[b].value => a = b

\* The graph has the words of the plain enumeration; a schema is refused just
\* when it has none, or when some path meets an unresolved dependency; and the
\* engine accepts the document (compiler.py 33-92).
CompilesExactly ==
  /\ phase \in {"done", "empty"} => WordsOf(answer) = AllWords(Fixed) /\ ~ Stuck(Fixed)
  /\ phase = "unresolved" => Stuck(Fixed)
  /\ phase = "done" => AllWords(Fixed) # {}
  /\ phase = "empty" => AllWords(Fixed) = {}
  /\ EngineAccepts

\* Space.rank and unrank: the records that are accepted are those that the
\* words stand for, and each has its own word (space.py 91-148).
RecordsAreWords ==
  phase = "done" =>
    /\ \A w \in WordsOf(answer) :
         LET r == RecordFromTokens(Fields, w)
         IN  r.ok /\ TokensFromRecord(Fields, Fixed, r.context) =
                       [ok |-> TRUE, context |-> r.context, tokens |-> w]
    /\ \A record \in Records :
         LET t == TokensFromRecord(Fields, Fixed, record)
         IN  t.ok => t.tokens \in WordsOf(answer) /\ t.context = record

\* condition(**fixed): the words of the space that agree with what is fixed,
\* with the same tokens, so they remain rankable in the parent space
\* (docs/sampling-and-partitioning.md, "Conditioning").
Agrees(record) ==
  \A n \in DOMAIN Fixed \cap DOMAIN record : record[n] = Fixed[n]
Conditioned ==
  phase \in {"done", "empty"} /\ ~ Stuck(Nothing) =>
    WordsOf(answer) = {w \in AllWords(Nothing) :
                         Agrees(RecordFromTokens(Fields, w).context)}

=============================================================================
