-------------------------- MODULE MCSchemaCompiler --------------------------
(***************************************************************************)
(* Schemas of up to four fields over the values x and y, with conditions   *)
(* and dependencies on the nearest and on earlier fields, on fields that   *)
(* may be inactive, with cases that leave values out; and what is fixed.   *)
(***************************************************************************)
EXTENDS SchemaCompiler, TLC

Both == <<"x", "y">>
FieldOf(name, values, on, cases, default, when) ==
  [name |-> name, values |-> values, dependsOn |-> on, cases |-> cases,
   default |-> default, when |-> when]
Enum(name, values, when) == FieldOf(name, values, None, <<>>, NoValues, when)
Dependent(name, on, cases, default, when) ==
  FieldOf(name, NoValues, on, cases, default, when)
If(name, values) == [field |-> name, values |-> values]

FirstFields == {Enum("a", Both, {})}
SecondFields ==
  {Enum("b", Both, {}),
   Enum("b", <<"y", "x">>, {If("a", {"x"})}),
   Dependent("b", "a", "x" :> Both, NoValues, {}),
   Dependent("b", "a", "x" :> <<"y">>, Both, {})}
ThirdFields ==
  {Enum("c", Both, {}),
   Enum("c", <<"x">>, {If("b", {"x"})}),
   Enum("c", Both, {If("a", {"x"}), If("b", {"y"})}),
   Dependent("c", "b", "x" :> <<"y">> @@ "y" :> Both, NoValues, {}),
   Dependent("c", "b", "x" :> Both, NoValues, {If("b", {"x", "y"})})}
FourthFields ==
  {Enum("d", Both, {If("a", {"y"})}),
   Enum("d", Both, {If("b", {"x"}), If("c", {"y"})}),
   Dependent("d", "a", "x" :> Both, <<"y">>, {}),
   Dependent("d", "a", "y" :> Both, NoValues, {If("c", {"x", "y"})}),
   Dependent("d", "c", "x" :> Both, <<"x">>, {If("b", {"y"})})}

Valid == {<<f, g, h, i>> : f \in FirstFields, g \in SecondFields,
                           h \in ThirdFields, i \in FourthFields}
Invalid ==
  {<<>>,
   <<Enum("a", Both, {}), Enum("a", Both, {})>>,
   <<Enum("b", Both, {If("a", {"x"})}), Enum("a", Both, {})>>,
   <<Dependent("a", "a", "x" :> Both, Both, {})>>}
FixedValues ==
  {<<>>, "a" :> "x", "a" :> "z", "b" :> "y", "c" :> "x",
   "b" :> "x" @@ "d" :> "y", "q" :> "x"}

MCInputs == [fields : Valid \cup Invalid, fixed : FixedValues]

\* All records with the names of the schemas and one more.
MCRecords == UNION {[S -> {"x", "y"}] : S \in SUBSET {"a", "b", "c", "d", "q"}}
=============================================================================
