------------------------------ MODULE Payload -------------------------------
(***************************************************************************)
(* Ranks as fixed-width big-endian payloads (pdrs core.py 238-240 and      *)
(* 374-382).  A value is its rank here: RankUnrank is about the two.  A    *)
(* payload is encoded, or comes from anywhere, is decoded, and what was    *)
(* decoded is encoded again.                                               *)
(***************************************************************************)
EXTENDS Widths, Sequences

CONSTANTS ByteBits,   \* bits of a byte, at least one
          Counts,     \* sizes of the schema, at least one
          MaxBytes    \* longest payload that comes from anywhere

VARIABLES count, phase,
          given,   \* the rank that was encoded first, or -1
          wire,    \* the payload
          rank,    \* the rank it was decoded to, or -1
          second   \* the payload of that rank
vars == <<count, phase, given, wire, rank, second>>

Radix == Power(2, ByteBits)
Byte == 0..Radix - 1
Payloads == UNION {[1..n -> Byte] : n \in 0..MaxBytes}

Bits == BitLength(count - 1)

\* Variation: the number of bytes is rounded down.
WidthDown == Max({1, Bits \div ByteBits})
Width == Max({1, (Bits + ByteBits - 1) \div ByteBits})

\* to_bytes and from_bytes of Python, big-endian.
TooBig(n, width) == n >= Power(Radix, width)

ToBytes(n, width) == [i \in 1..width |-> (n \div Power(Radix, width - i)) % Radix]
FromBytes(p) ==
  LET f[i \in 0..Len(p)] == IF i = 0 THEN 0 ELSE f[i - 1] * Radix + p[i]
  IN  f[Len(p)]

Init ==
  /\ count \in Counts
  /\ phase = "new" /\ given = -1 /\ wire = <<>> /\ rank = -1 /\ second = <<>>

\* encode_rank: to_bytes raises OverflowError when the rank does not fit.
Encode(n) ==
  /\ phase = "new" /\ n \in 0..count - 1
  /\ given' = n
  /\ wire' = IF TooBig(n, Width) THEN <<>> ELSE ToBytes(n, Width)
  /\ phase' = IF TooBig(n, Width) THEN "overflow" ELSE "encoded"
  /\ UNCHANGED <<count, rank, second>>

Receive(p) ==
  /\ phase = "new"
  /\ wire' = p /\ phase' = "received"
  /\ UNCHANGED <<count, given, rank, second>>

WrongWidth == Len(wire) # Width

\* The check of unrank (295) on what decode_rank gives it.
NotAnIndex == FromBytes(wire) \notin 0..count - 1

Decode ==
  /\ phase \in {"encoded", "received"}
  /\ IF WrongWidth \/ NotAnIndex
       THEN phase' = "refused" /\ UNCHANGED rank
       ELSE phase' = "decoded" /\ rank' = FromBytes(wire)
  /\ UNCHANGED <<count, given, wire, second>>

\* The decoded value is encoded again.
Again ==
  /\ phase = "decoded"
  /\ second' = IF TooBig(rank, Width) THEN <<>> ELSE ToBytes(rank, Width)
  /\ phase' = IF TooBig(rank, Width) THEN "overflow" ELSE "again"
  /\ UNCHANGED <<count, given, wire, rank>>

Next ==
  \/ \E n \in 0..count - 1 : Encode(n)
  \/ \E p \in Payloads : Receive(p)
  \/ Decode
  \/ Again

Spec == Init /\ [][Next]_vars

-----------------------------------------------------------------------------
\* Values and payloads correspond one to one: every rank fits into the width
\* computed from the last one and comes back from its payload, and whatever
\* decode_rank accepts is what encode_rank makes of it, so no padded or
\* shortened form passes (374-382).
OnePayloadEach ==
  /\ phase # "overflow"
  /\ given # -1 => phase # "refused" /\ (phase \in {"decoded", "again"} => rank = given)
  /\ phase = "again" => second = wire
=============================================================================
