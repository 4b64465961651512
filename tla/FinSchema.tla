----------------------------- MODULE FinSchema ------------------------------
(***************************************************************************)
(* FinSpace schemas (finspace schema.py) and what Space makes of records   *)
(* and tokens (space.py 91-135).  A value stands for its canonical JSON    *)
(* text, so that 1, 1.0 and true are three values.  A context or a record  *)
(* is a function from the names of some fields to their values.  Positions *)
(* of fields are counted from 1, tokens from 0 as in the code.             *)
(***************************************************************************)
EXTENDS Integers, Sequences, FiniteSets, SequencesExt

None == "none"          \* no depends_on
NoValues == <<>>        \* no default, and what an inactive field resolves to

NamesOf(fields) == {fields[i].name : i \in DOMAIN fields}

Matches(condition, context) ==
  /\ condition.field \in DOMAIN context
  /\ context[condition.field] \in condition.values

IsActive(field, context) == \A c \in field.when : Matches(c, context)

\* resolve_values raises: the field it depends on has been left out.
Unresolved(field, context) ==
  IsActive(field, context) /\ field.dependsOn \notin DOMAIN context \cup {None}

Resolve(field, context) ==
  IF ~ IsActive(field, context) THEN NoValues
  ELSE IF field.dependsOn = None THEN field.values
  ELSE IF context[field.dependsOn] \in DOMAIN field.cases
    THEN field.cases[context[field.dependsOn]] ELSE field.default

Dependencies(field) ==
  {c.field : c \in field.when} \cup ({field.dependsOn} \ {None})

\* relevant_context: what the fields from index on depend on.
Relevant(fields, index) ==
  UNION {Dependencies(fields[i]) : i \in index..Len(fields)}

\* Schema.__post_init__: names are unique, references go backwards.
ValidSchema(fields) ==
  /\ fields # <<>>
  /\ Cardinality(NamesOf(fields)) = Len(fields)
  /\ \A i \in DOMAIN fields :
       Dependencies(fields[i]) \subseteq {fields[j].name : j \in 1..i - 1}

With(context, name, value) ==
  [n \in DOMAIN context \cup {name} |-> IF n = name THEN value ELSE context[n]]

-----------------------------------------------------------------------------
Refused == [ok |-> FALSE, context |-> <<>>, tokens |-> <<>>]
Sofar(tokens) == [ok |-> TRUE, context |-> <<>>, tokens |-> tokens]
PositionIn(values, value) == SelectInSeq(values, LAMBDA v : v = value)

\* Variation: the value of a field that is not active is not looked at.
TakeFieldLenient(fixed, record, sofar, field) ==
  IF ~ sofar.ok \/ ~ IsActive(field, sofar.context) THEN sofar
  ELSE IF field.name \notin DOMAIN record \/ Unresolved(field, sofar.context) THEN Refused
  ELSE
    LET value == record[field.name]
        values == Resolve(field, sofar.context)
        conflict == field.name \in DOMAIN fixed /\ fixed[field.name] # value
    IN  IF ~ Contains(values, value) \/ conflict THEN Refused
        ELSE [ok |-> TRUE, context |-> With(sofar.context, field.name, value),
              tokens |-> Append(sofar.tokens, PositionIn(values, value) - 1)]

\* One round of the loop of _tokens_from_record: 98-114.
TakeField(fixed, record, sofar, field) ==
  IF ~ sofar.ok THEN sofar
  ELSE IF ~ IsActive(field, sofar.context)
    THEN IF field.name \in DOMAIN record THEN Refused ELSE sofar
  ELSE IF field.name \notin DOMAIN record \/ Unresolved(field, sofar.context) THEN Refused
  ELSE
    LET value == record[field.name]
        values == Resolve(field, sofar.context)
        conflict == field.name \in DOMAIN fixed /\ fixed[field.name] # value
    IN  IF ~ Contains(values, value) \/ conflict THEN Refused
        ELSE [ok |-> TRUE, context |-> With(sofar.context, field.name, value),
              tokens |-> Append(sofar.tokens, PositionIn(values, value) - 1)]

\* The loop: what it has after each number of fields.
Taken(fields, fixed, record) ==
  LET after[i \in 0..Len(fields)] ==
        IF i = 0 THEN Sofar(<<>>) ELSE TakeField(fixed, record, after[i - 1], fields[i])
  IN  after

TokensFromRecord(fields, fixed, record) ==
  IF DOMAIN record \subseteq NamesOf(fields) THEN Taken(fields, fixed, record)[Len(fields)]
  ELSE Refused

\* One round of the loop of _record_from_tokens: 121-132.  Tokens are positions
\* of branches, hence not negative.
TakeToken(sofar, field) ==
  IF ~ sofar.ok \/ ~ IsActive(field, sofar.context) THEN sofar
  ELSE IF sofar.tokens = <<>> \/ Unresolved(field, sofar.context) THEN Refused
  ELSE LET values == Resolve(field, sofar.context)
           index == Head(sofar.tokens)
       IN  IF index \notin 0..Len(values) - 1 THEN Refused
           ELSE [ok |-> TRUE, context |-> With(sofar.context, field.name, values[index + 1]),
                 tokens |-> Tail(sofar.tokens)]

Read(fields, tokens) ==
  LET after[i \in 0..Len(fields)] ==
        IF i = 0 THEN Sofar(tokens) ELSE TakeToken(after[i - 1], fields[i])
  IN  after

RecordFromTokens(fields, tokens) ==
  LET all == Read(fields, tokens)[Len(fields)]
  IN  IF all.tokens # <<>> THEN Refused ELSE all
=============================================================================
