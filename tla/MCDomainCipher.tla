--------------------------- MODULE MCDomainCipher ---------------------------
(***************************************************************************)
(* Halves of one and of two bits: domains that fill the network, that just *)
(* exceed the next smaller one, and in between.                            *)
(***************************************************************************)
EXTENDS DomainCipher, Bitwise

MCXor(a, b) == a ^^ b
MCCounts == (1..5) \cup {7, 11, 16}
MCTweaks == {0, 1}

\* Round functions from a few seeds; most are not one-to-one.
MCTables(c) ==
  {[t \in MCTweaks |-> [i \in Index |-> [h \in Half(c) |->
      ((a + t) * h * h + (b + i) * (h + t) + (i * b) \div 2) % HalfDomain(c)]]] :
     a \in 0..2, b \in 0..3}
=============================================================================
