------------------------------- MODULE Widths -------------------------------
(***************************************************************************)
(* Widths of numbers, as Python computes them.                             *)
(***************************************************************************)
EXTENDS Integers, FiniteSetsExt

\* r ** n
Power(r, n) ==
  LET f[k \in 0..n] == IF k = 0 THEN 1 ELSE r * f[k - 1]
  IN  f[n]

\* int.bit_length: the least number of bits that hold n.
BitLength(n) == CHOOSE b \in 0..n : n < Power(2, b) /\ \A a \in 0..b - 1 : n >= Power(2, a)
=============================================================================
