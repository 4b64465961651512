----------------------------- MODULE FieldForms -----------------------------
(***************************************************************************)
(* The fields of a schema as a program writes them down: Field and its     *)
(* constructors (finspace/schema.py).  An optional value is a set with at  *)
(* most one element.                                                       *)
(***************************************************************************)
EXTENDS Integers

Some(x) == {x}
Nothing == {}

\* The form in which to_dict writes cases and conditions.
Listed(items) == [form |-> "list", items |-> items]

Field(name, values, dependsOn, cases, default, when) ==
  [name |-> name, values |-> values, dependsOn |-> dependsOn, cases |-> cases,
   default |-> default, when |-> when]

Enum(name, values, when) == Field(name, Some(values), Nothing, <<>>, Nothing, when)

\* integer: every step-th number up to stop; {} is the SchemaDefinitionError.
IntegerField(name, start, stop, step, when) ==
  IF step <= 0 \/ stop < start THEN {}
  ELSE {Enum(name, [k \in 1..1 + ((stop - start) \div step) |-> <<"int", start + (k - 1) * step>>], when)}

Dependent(name, dependsOn, cases, default, when) ==
  Field(name, Nothing, Some(dependsOn), cases, default, when)
=============================================================================
