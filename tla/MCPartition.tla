---------------------------- MODULE MCPartition -----------------------------
(***************************************************************************)
(* Spaces smaller and larger than the crew, that it divides and that it    *)
(* does not; batches of one rank, of some, and larger than an interval.    *)
(***************************************************************************)
EXTENDS Partition

MCCounts == 1..7
=============================================================================
