---------------------------- MODULE SchemaCodec ----------------------------
(***************************************************************************)
(* The documents of FinSpace schemas (finspace schema.py): what from_dict  *)
(* makes of a document, which schemas the dataclasses refuse, and what     *)
(* to_dict writes.  A user loads a document or builds a schema in Python,  *)
(* saves it and loads it again.                                            *)
(*                                                                         *)
(* A value is <<type, v>> and stands for its canonical JSON text.  What a  *)
(* document may leave out is a set with at most one member.  The cases and *)
(* conditions of a document are lists or mappings, here with their form.   *)
(***************************************************************************)
EXTENDS FieldForms, FiniteSets, SequencesExt

CONSTANTS Documents,  \* sequences of raw fields, as a file may hold them
          Built       \* sequences of fields, as a program may pass them to Schema

VARIABLES pc, document, schema, file, again

vars == <<pc, document, schema, file, again>>

\* _unique: at least one value, and no two with the same canonical text.
Unique(values) == values # <<>> /\ IsInjective(values)

\* __post_init__ of Condition, Case and Field.
FieldAccepted(field) ==
  /\ \A i \in DOMAIN field.when : Unique(field.when[i].values)
  /\ \A i \in DOMAIN field.cases : Unique(field.cases[i].values)
  /\ \A v \in field.values \cup field.default : Unique(v)
  /\ IF field.dependsOn = Nothing
       THEN field.values # Nothing /\ field.cases = <<>> /\ field.default = Nothing
       ELSE /\ field.values = Nothing
            /\ field.cases # <<>> \/ field.default # Nothing
            /\ IsInjective([i \in DOMAIN field.cases |-> field.cases[i].equals])

DependenciesOf(field) == {field.when[i].field : i \in DOMAIN field.when} \cup field.dependsOn

\* __post_init__ of Schema.
SchemaAccepted(fields) ==
  /\ fields # <<>>
  /\ \A i \in DOMAIN fields : FieldAccepted(fields[i])
  /\ IsInjective([i \in DOMAIN fields |-> fields[i].name])
  /\ \A i \in DOMAIN fields : DependenciesOf(fields[i]) \subseteq {fields[j].name : j \in 1..i - 1}

\* A condition of a mapping may have one value in the place of a list.
When(raw) ==
  [i \in DOMAIN raw.when.items |->
     LET c == raw.when.items[i]
     IN  [field |-> c.field, values |-> IF c.scalar THEN <<c.values>> ELSE c.values]]

\* from_dict of a field, {} when it raises.  Without depends_on, cases and
\* default are not looked at; with it, values are not.
FieldFromDict(raw) ==
  IF raw.dependsOn = Nothing
    THEN {Enum(raw.name, v, When(raw)) : v \in raw.values}
    ELSE {Dependent(raw.name, d, raw.cases.items, raw.default, When(raw)) : d \in raw.dependsOn}

FromDict(raws) ==
  IF \E i \in DOMAIN raws : FieldFromDict(raws[i]) = {} THEN {}
  ELSE {fields \in {[i \in DOMAIN raws |-> CHOOSE f \in FieldFromDict(raws[i]) : TRUE]} :
          SchemaAccepted(fields)}

\* Variation: cases are written as a mapping from their values.
FieldToDictMapped(field) ==
  [name |-> field.name, values |-> field.values, dependsOn |-> field.dependsOn,
   cases |-> [form |-> "map", items |-> field.cases], default |-> field.default,
   when |-> Listed([i \in DOMAIN field.when |->
                      [field |-> field.when[i].field, scalar |-> FALSE, values |-> field.when[i].values]])]

\* to_dict: always the list forms.
FieldToDict(field) ==
  [name |-> field.name, values |-> field.values, dependsOn |-> field.dependsOn,
   cases |-> Listed(field.cases), default |-> field.default,
   when |-> Listed([i \in DOMAIN field.when |->
                      [field |-> field.when[i].field, scalar |-> FALSE, values |-> field.when[i].values]])]

ToDict(fields) == [i \in DOMAIN fields |-> FieldToDict(fields[i])]

\* The keys of a JSON object are strings: what a mapping was keyed by comes
\* back as text.
JsonKeys(items) == [i \in DOMAIN items |-> [items[i] EXCEPT !.equals = <<"str", @>>]]

Json(raws) ==
  [i \in DOMAIN raws |->
     IF raws[i].cases.form = "map"
       THEN [raws[i] EXCEPT !.cases.items = JsonKeys(@)]
       ELSE raws[i]]

-----------------------------------------------------------------------------

Init ==
  /\ pc = "empty"
  /\ document \in Documents \cup {<<>>}
  /\ schema = <<>>
  /\ file = <<>>
  /\ again = <<>>

Load ==
  /\ pc = "empty"
  /\ document # <<>>
  /\ IF FromDict(document) = {} THEN pc' = "refused" /\ UNCHANGED schema
     ELSE pc' = "ready" /\ schema' \in FromDict(document)
  /\ UNCHANGED <<document, file, again>>

Build ==
  /\ pc = "empty"
  /\ document = <<>>
  /\ \E fields \in Built :
       IF SchemaAccepted(fields) THEN pc' = "ready" /\ schema' = fields
       ELSE pc' = "refused" /\ UNCHANGED schema
  /\ UNCHANGED <<document, file, again>>

Save ==
  /\ pc = "ready"
  /\ file' = Json(ToDict(schema))
  /\ pc' = "saved"
  /\ UNCHANGED <<document, schema, again>>

Reload ==
  /\ pc = "saved"
  /\ IF FromDict(file) = {} THEN pc' = "lost" /\ UNCHANGED again
     ELSE pc' = "again" /\ again' \in FromDict(file)
  /\ UNCHANGED <<document, schema, file>>

Next == Load \/ Build \/ Save \/ Reload

Spec == Init /\ [][Next]_vars

-----------------------------------------------------------------------------

\* The values a field has in a context, by the meaning the schema language
\* gives to a document (docs/schema-language.md): conditions are conjunctive,
\* a case is the one for the value of its dependency, default stands for the
\* others.  A context holds a value for each earlier field.
Meant(raw, context) ==
  LET holds(c) == context[c.field] \in (IF c.scalar THEN {c.values} ELSE ToSet(c.values))
      fitting(d) == {i \in DOMAIN raw.cases.items : raw.cases.items[i].equals = context[d]}
  IN  IF \E i \in DOMAIN raw.when.items : ~ holds(raw.when.items[i]) THEN {}
      ELSE IF raw.dependsOn = Nothing THEN raw.values
      ELSE UNION {IF fitting(d) = {} THEN raw.default
                  ELSE {raw.cases.items[i].values : i \in fitting(d)} : d \in raw.dependsOn}

\* resolve_values of a loaded field.
Resolved(field, context) ==
  LET fitting(d) == {i \in DOMAIN field.cases : field.cases[i].equals = context[d]}
  IN  IF \E i \in DOMAIN field.when : context[field.when[i].field] \notin ToSet(field.when[i].values) THEN {}
      ELSE IF field.dependsOn = Nothing THEN field.values
      ELSE UNION {IF fitting(d) = {} THEN field.default
                  ELSE {field.cases[Min(fitting(d))].values} : d \in field.dependsOn}

AllValues == UNION {ToSet(v) : v \in UNION {schema[i].values \cup schema[i].default : i \in DOMAIN schema}}

\* A document keeps its meaning through loading, saving and loading again.
\* What was loaded has in every context the values the document gives it, in
\* either form of cases and conditions; and a schema, loaded or built, comes
\* back from its file as it was, types and order included.  So the hash, which
\* is that of the text of to_dict, is the same, and two schemas that differ in
\* their fields, values or conditions have different texts.
SavedIsSame ==
  /\ pc # "lost"
  /\ pc = "again" => again = schema
  /\ pc = "ready" /\ document # <<>> =>
       \A context \in [{schema[i].name : i \in DOMAIN schema} -> AllValues] :
         \A i \in DOMAIN schema : Resolved(schema[i], context) = Meant(document[i], context)
=============================================================================
