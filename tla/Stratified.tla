----------------------------- MODULE Stratified -----------------------------
(***************************************************************************)
(* Conditioned spaces and stratified sampling (finspace space.py 175-198): *)
(* the strata of a space are its conditions on the values of one field,    *)
(* each of them compiled, sampled and ranked again in the space itself.    *)
(*                                                                         *)
(* A rank stands for the tokens it is computed from.  A draw of the random *)
(* number generator is any value it can return; the order of the result,   *)
(* which is shuffled at the end, is left out: output has one set of        *)
(* records for each stratum.                                               *)
(***************************************************************************)
EXTENDS FinSchema

CONSTANTS Spaces,  \* [fields, fixed]: schemas and what is fixed already
          Fields,  \* names a caller may give
          Sizes    \* numbers of records a caller may ask for

VARIABLES space, field, n, pc,
          strata,       \* the values of the field, shuffled, from the next one on
          allocations,  \* how many records each of them has to give
          stratum,      \* the records of the first of them
          output

vars == <<space, field, n, pc, strata, allocations, stratum, output>>

Accepts(fixed, f, value) == f.name \in DOMAIN fixed => fixed[f.name] = value

\* What SchemaCompiler makes of a schema: its records, and whether it meets a
\* field whose dependency has been left out.
ExtendContexts(fixed, sofar, f) ==
  LET active == {c \in sofar.contexts : IsActive(f, c)}
  IN  [contexts |-> (sofar.contexts \ active) \cup
         UNION {{With(c, f.name, v) : v \in {w \in ToSet(Resolve(f, c)) : Accepts(fixed, f, w)}} :
                  c \in {d \in active : ~ Unresolved(f, d)}},
       stuck |-> sofar.stuck \/ \E c \in active : Unresolved(f, c)]

Extended(fields, fixed) ==
  LET after[i \in 0..Len(fields)] ==
        IF i = 0 THEN [contexts |-> {<<>>}, stuck |-> FALSE]
        ELSE ExtendContexts(fixed, after[i - 1], fields[i])
  IN  after

Compiled(fields, fixed) == Extended(fields, fixed)[Len(fields)]

Constructible(fields, fixed) ==
  /\ DOMAIN fixed \subseteq NamesOf(fields)
  /\ ~ Compiled(fields, fixed).stuck /\ Compiled(fields, fixed).contexts # {}

RecordsOf(fields, fixed) == Compiled(fields, fixed).contexts

\* condition: what is fixed here is added to, or replaces, what was fixed.
Combined(fixed, name, value) == With(fixed, name, value)

Init ==
  /\ space \in {s \in Spaces : Constructible(s.fields, s.fixed)}
  /\ field \in Fields
  /\ n \in Sizes
  /\ pc = "start"
  /\ strata = <<>> /\ allocations = <<>> /\ stratum = {}
  /\ output = <<>>

\* possible_values raises for fields that are unknown or conditional.
Unconditional == {f \in ToSet(space.fields) : f.name = field /\ f.dependsOn = None /\ f.when = {}}

\* Variation: what does not divide evenly is left to the last value.
AllocateRest(size) ==
  [i \in 1..size |-> IF i = size THEN (n \div size) + (n % size) ELSE n \div size]

Allocate(size) ==
  [i \in 1..size |-> IF i <= n % size THEN (n \div size) + 1 ELSE n \div size]

Shuffled(values) == {s \in [DOMAIN values -> ToSet(values)] : IsInjective(s)}

Begin ==
  /\ pc = "start"
  /\ IF Unconditional = {} THEN pc' = "refused" /\ UNCHANGED <<strata, allocations>>
     ELSE /\ \E f \in Unconditional : strata' \in Shuffled(f.values)
          /\ allocations' = Allocate(Len(strata'))
          /\ pc' = "condition"
  /\ UNCHANGED <<space, field, n, stratum, output>>

Subspace == Combined(space.fixed, field, Head(strata))

\* The subspace of the next value, which may not compile.
Condition ==
  /\ pc = "condition"
  /\ strata # <<>>
  /\ IF Constructible(space.fields, Subspace)
       THEN pc' = "sample" /\ stratum' = RecordsOf(space.fields, Subspace)
       ELSE pc' = "refused" /\ UNCHANGED stratum
  /\ UNCHANGED <<space, field, n, strata, allocations, output>>

\* Space.rank of a record of the subspace, in the space itself.
Rankable(record) == TokensFromRecord(space.fields, space.fixed, record).ok

\* The check of the allocation, sample and the loop over its records.
Sample ==
  /\ pc = "sample"
  /\ IF Head(allocations) \notin 0..Cardinality(stratum)
       THEN pc' = "refused" /\ UNCHANGED <<strata, allocations, stratum, output>>
       ELSE \E chosen \in SUBSET stratum :
              /\ Cardinality(chosen) = Head(allocations)
              /\ IF \E record \in chosen : ~ Rankable(record)
                   THEN pc' = "refused" /\ UNCHANGED <<strata, allocations, stratum, output>>
                   ELSE /\ output' = Append(output, chosen)
                        /\ strata' = Tail(strata)
                        /\ allocations' = Tail(allocations)
                        /\ stratum' = {}
                        /\ pc' = "condition"
  /\ UNCHANGED <<space, field, n>>

Finish ==
  /\ pc = "condition"
  /\ strata = <<>>
  /\ pc' = "done"
  /\ UNCHANGED <<space, field, n, strata, allocations, stratum, output>>

Next == Begin \/ Condition \/ Sample \/ Finish

Spec == Init /\ [][Next]_vars

-----------------------------------------------------------------------------

All == UNION ToSet(output)
Mine == RecordsOf(space.fields, space.fixed)
Having(value) == {r \in Mine : r[field] = value}
Largest(k) == IF n % k = 0 THEN n \div k ELSE (n \div k) + 1

\* A stratified sample balances the campaign (docs/sampling-and-partitioning.md,
\* "Stratified sampling"): it has the number of records that was asked for, all
\* of the space and no two the same, and two values of the field differ by one
\* record at most.  It is refused only for a reason: the field is conditional or
\* fixed, a value of it has no record in the space or fewer than its share, or
\* the number is negative.
StratifiedIsBalanced ==
  /\ pc = "done" =>
       \A f \in Unconditional :
         LET share(v) == Cardinality(All \cap Having(v))
         IN  /\ All \subseteq Mine /\ Cardinality(All) = n
             /\ \A i, k \in DOMAIN output : i # k => output[i] \cap output[k] = {}
             /\ \A v, w \in ToSet(f.values) : share(v) <= share(w) + 1
  /\ pc = "refused" =>
       \/ n < 0
       \/ field \in DOMAIN space.fixed
       \/ \A f \in Unconditional :
            \E v \in ToSet(f.values) :
              \/ Having(v) = {}
              \/ Cardinality(Having(v)) < Largest(Len(f.values))

\* "Records remain rankable in the parent space", as the documentation says of
\* conditioned spaces (docs/sampling-and-partitioning.md, "Conditioning").
RankableInParent ==
  pc = "sample" => \A record \in stratum : Rankable(record)
=============================================================================
