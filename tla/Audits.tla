------------------------------- MODULE Audits -------------------------------
(***************************************************************************)
(* The programs that check the engine and the cipher by running them: the  *)
(* correctness and the permutation experiments (src/scripts/               *)
(* run_full_experiments.py 92-162, 834-864) and the comparison with an     *)
(* independent enumeration (src/scripts/verify_theorems.py 43-54).         *)
(*                                                                         *)
(* What is audited is a pair of functions, forth and back: unrank and      *)
(* rank, or encrypt and decrypt.  They may be any functions, right or      *)
(* wrong, and back may raise.                                              *)
(***************************************************************************)
EXTENDS Integers, FiniteSetsExt

CONSTANTS Counts,    \* sizes of domains
          Values,    \* what forth may return
          Reference, \* for each size, the sequence of values that is right
          AllUpTo,   \* domains up to this size are audited as a whole,
          SampleSize \* of larger ones a sample of this size

VARIABLES audit, count, forth, back, pc,
          left,      \* the ranks still to be looked at
          checked, failures,
          seen       \* what the audit collects in a set

vars == <<audit, count, forth, back, pc, left, checked, failures, seen>>

AllRanks == 0..count - 1
Raises == -1
Exhaustive == audit \in {"generated", "theorems"} \/ count <= AllUpTo

Init ==
  /\ audit \in {"static", "generated", "theorems", "permutation"}
  /\ count \in Counts
  /\ forth \in [AllRanks -> Values]
  /\ back \in [Values -> AllRanks \cup {Raises}]
  /\ pc = "start"
  /\ left = {} /\ checked = 0 /\ failures = 0 /\ seen = {}

Start ==
  /\ pc = "start"
  /\ left' \in IF Exhaustive THEN {AllRanks} ELSE kSubset(Min({SampleSize, count}), AllRanks)
  /\ pc' = IF audit = "theorems" /\ \E i \in AllRanks : forth[i] # Reference[count][i + 1]
             THEN "failed" ELSE "loop"
  /\ UNCHANGED <<audit, count, forth, back, checked, failures, seen>>

\* What is put into the set: the ranks that come back, or what encrypts them.
Collected(i) == IF audit = "permutation" THEN forth[i] ELSE back[forth[i]]

\* Variation: only what has been collected before is a failure.
FailsTwice(i) == Collected(i) \in seen
Fails(i) == back[forth[i]] # i

\* One round trip.  The asserts of verify_theorems stop at the first failure.
Check ==
  /\ pc = "loop" /\ left # {}
  /\ LET i == Min(left)
     IN  IF back[forth[i]] = Raises
           THEN pc' = "raised" /\ UNCHANGED <<left, checked, failures, seen>>
         ELSE IF Fails(i) /\ audit = "theorems"
           THEN pc' = "failed" /\ UNCHANGED <<left, checked, failures, seen>>
         ELSE /\ checked' = checked + 1
              /\ failures' = IF Fails(i) THEN failures + 1 ELSE failures
              /\ seen' = seen \cup {Collected(i)}
              /\ left' = left \ {i}
              /\ UNCHANGED pc
  /\ UNCHANGED <<audit, count, forth, back>>

\* The sets are compared as a whole when the whole domain has been audited.
SetFails ==
  \/ audit = "generated" /\ seen # AllRanks
  \/ audit = "permutation" /\ Exhaustive /\ Cardinality(seen) # count

Finish ==
  /\ pc = "loop" /\ left = {}
  /\ failures' = IF SetFails THEN failures + 1 ELSE failures
  /\ pc' = IF failures' = 0 THEN "passed" ELSE "failed"
  /\ UNCHANGED <<audit, count, forth, back, left, checked, seen>>

Next == Start \/ Check \/ Finish

Spec == Init /\ [][Next]_vars

-----------------------------------------------------------------------------
Returns(i) == back[forth[i]] = i

\* A verdict says what the audit has been able to see.  What passes on a whole
\* domain has an inverse there, and if it is compared with the reference it is the
\* reference; what passes on a sample has at least as many ranks right as were
\* checked, no two of which have the same value.  A correct engine passes every
\* audit, and a failed verdict or an exception names a wrong one.
VerdictsAreTrue ==
  /\ pc = "passed" =>
       /\ Exhaustive => \A i \in AllRanks : Returns(i)
       /\ audit = "theorems" => \A i \in AllRanks : forth[i] = Reference[count][i + 1]
       /\ Cardinality({i \in AllRanks : Returns(i)}) >= checked
       /\ checked = Cardinality(seen)
  /\ pc \in {"failed", "raised"} =>
       \E i \in AllRanks : ~ Returns(i) \/ forth[i] # Reference[count][i + 1]
=============================================================================
