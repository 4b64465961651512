---------------------------- MODULE DomainCipher ----------------------------
(***************************************************************************)
(* The permutation of the ranks 0..count-1 by a Feistel network over a     *)
(* larger domain with cycle walking (pdrs crypto.py).  A behaviour is one  *)
(* call on any rank and the opposite call on its answer, round by round.   *)
(* Between encrypt and decrypt the answer is a ciphertext with a tag; it   *)
(* may come back with the value or the tweak of another one in it.         *)
(* The tag is what it is computed from.                                    *)
(***************************************************************************)
EXTENDS Widths, Sequences

CONSTANTS Counts,          \* sizes of the schema
          MinimumDomain,   \* the size that the constructor asks for
          Rounds,
          Tweaks,
          XOR(_, _),
          Tables(_)        \* for a count, the round functions looked at

\* The number of values of a half: the width is at least 2 and made even.
HalfDomain(c) == 2 ^ ((Max({2, BitLength(c - 1)}) + 1) \div 2)
SuperDomain(c) == HalfDomain(c) * HalfDomain(c)
Half(c) == 0..HalfDomain(c) - 1
Index == 0..Rounds - 1
Table(c) == [Tweaks -> [Index -> [Half(c) -> Half(c)]]]

ASSUME RoundsAssumption == Rounds \in Nat /\ Rounds >= 6 /\ Rounds % 2 = 0
ASSUME CountsAssumption == Counts \subseteq Nat \ {0}
\* Two halves hold the domain; XOR stays within a half and undoes itself.
ASSUME HalfAssumption ==
  \A c \in Counts :
    /\ HalfDomain(c) \in Nat \ {0}
    /\ c <= SuperDomain(c)
    /\ \A a, b \in Half(c) : XOR(a, b) \in Half(c) /\ XOR(XOR(a, b), b) = a
ASSUME TablesAssumption == \A c \in Counts : Tables(c) \subseteq Table(c)

VARIABLES count, table,   \* the schema and the round functions of the key
          op,             \* the operation that runs: encrypt or decrypt
          leg,            \* first or second call
          phase,          \* where the call is
          tweak,          \* its tweak
          given,          \* the rank of the first call
          output,         \* the value that is walked
          left, right,    \* its halves during the rounds
          round,          \* rounds done in this pass
          cycles,         \* passes done in this call
          walked,         \* passes of the first call
          tag,            \* the tag that encrypt has computed
          trail           \* history: the halves before each round, newest last
call == <<count, table, op, leg, tweak, given, walked, tag>>
vars == <<call, phase, output, left, right, round, cycles, trail>>

Ops == {"encrypt", "decrypt"}
Opposite(o) == IF o = "encrypt" THEN "decrypt" ELSE "encrypt"

\* One round: 68 and 75.
F(i, half) == table[tweak][i][half]
Permuted(l, r, i) == <<r, XOR(l, F(i, r))>>
Inverted(l, r, i) == <<XOR(r, F(i, l)), l>>

\* Variation: the inverse uses the round functions in the order of encryption.
SameOrder(o, k) == k
\* range(rounds) and reversed(range(rounds)).
IndexOf(o, k) == IF o = "encrypt" THEN k ELSE Rounds - 1 - k

RoundOf(o, l, r, k) ==
  IF o = "encrypt" THEN Permuted(l, r, IndexOf(o, k)) ELSE Inverted(l, r, IndexOf(o, k))

Join(l, r) == l * HalfDomain(count) + r

Init ==
  /\ count \in {c \in Counts : c >= MinimumDomain}
  /\ table \in Tables(count)
  /\ op \in Ops /\ leg = 1 /\ phase = "idle"
  /\ tweak \in Tweaks
  /\ given = -1 /\ output = -1 /\ left = 0 /\ right = 0
  /\ round = 0 /\ cycles = 0 /\ walked = 0
  /\ tag = <<>> /\ trail = <<>>

\* The check of 79 and 92 and the variables of the loop.
Enter(n) ==
  /\ output' = n /\ cycles' = 0
  /\ phase' = IF n < 0 \/ n >= count THEN "refused" ELSE "split"

Call(n) ==
  /\ leg = 1 /\ phase = "idle"
  /\ given' = n
  /\ Enter(n)
  /\ UNCHANGED <<count, table, op, leg, tweak, walked, tag, left, right, round, trail>>

\* Variation: each pass starts from the argument again.
SplitGiven ==
  /\ phase = "split"
  /\ left' = given \div HalfDomain(count)
  /\ right' = given % HalfDomain(count)
  /\ round' = 0
  /\ phase' = "rounds"
  /\ UNCHANGED <<call, output, cycles, trail>>

\* The first two lines of _permute_super and _invert_super.
Split ==
  /\ phase = "split"
  /\ left' = output \div HalfDomain(count)
  /\ right' = output % HalfDomain(count)
  /\ round' = 0
  /\ phase' = "rounds"
  /\ UNCHANGED <<call, output, cycles, trail>>

Round ==
  /\ phase = "rounds" /\ round < Rounds
  /\ left' = RoundOf(op, left, right, round)[1]
  /\ right' = RoundOf(op, left, right, round)[2]
  /\ round' = round + 1
  /\ trail' = IF leg = 1
                THEN Append(trail, [left |-> left, right |-> right, round |-> round])
                ELSE SubSeq(trail, 1, Len(trail) - 1)
  /\ UNCHANGED <<call, phase, output, cycles>>

InDomain(n) == n < count

\* Joining the halves, and the loop of 83-89 and 96-102.
EndPass ==
  /\ phase = "rounds" /\ round = Rounds
  /\ output' = Join(left, right)
  /\ cycles' = cycles + 1
  /\ phase' = IF InDomain(Join(left, right)) THEN "returned"
              ELSE IF cycles + 1 > SuperDomain(count) THEN "assertion"
              ELSE "split"
  /\ UNCHANGED <<call, left, right, round, trail>>

\* The answer of the first call is the argument of the second.
CallBack ==
  /\ leg = 1 /\ phase = "returned"
  /\ leg' = 2 /\ op' = Opposite(op)
  /\ walked' = cycles
  /\ Enter(output)
  /\ UNCHANGED <<count, table, tweak, given, tag, left, right, round, trail>>

TagOf(n, t) == <<n, t>>

\* encrypt returns a ciphertext.
Seal ==
  /\ leg = 1 /\ op = "encrypt" /\ phase = "returned"
  /\ tag = <<>>
  /\ tag' = TagOf(output, tweak)
  /\ phase' = "sealed"
  /\ UNCHANGED <<count, table, op, leg, tweak, given, walked, output, left, right, round, cycles, trail>>

\* decrypt of a ciphertext with this value, this tweak and the tag.
Open(n, t) ==
  /\ phase = "sealed"
  /\ leg' = 2 /\ op' = "decrypt"
  /\ tweak' = t
  /\ walked' = cycles
  /\ IF TagOf(n, t) = tag
       THEN Enter(n)
       ELSE phase' = "refused" /\ output' = n /\ UNCHANGED cycles
  /\ UNCHANGED <<count, table, given, tag, left, right, round, trail>>

Next ==
  \/ \E n \in -1..count : Call(n)
  \/ Split \/ Round \/ EndPass
  \/ CallBack
  \/ Seal
  \/ \E n \in 0..count - 1, t \in Tweaks : Open(n, t)

Spec == Init /\ [][Next]_vars
\* A call runs to its end.
FairSpec == Spec /\ WF_vars(Split \/ Round \/ EndPass)

-----------------------------------------------------------------------------
Halves == [left : Half(count), right : Half(count), round : Index]

TypeOK ==
  /\ count \in Counts /\ table \in Table(count)
  /\ op \in Ops /\ leg \in 1..2
  /\ phase \in {"idle", "split", "rounds", "returned", "sealed", "refused", "assertion"}
  /\ tweak \in Tweaks
  /\ given \in -1..count
  /\ output \in -1..SuperDomain(count)
  /\ left \in Half(count) /\ right \in Half(count)
  /\ round \in 0..Rounds
  /\ cycles \in Nat /\ walked \in Nat
  /\ trail \in Seq(Halves)

\* decrypt_rank(encrypt_rank(n)) = n, encrypt_rank(decrypt_rank(n)) = n and
\* decrypt(encrypt(v)) = v for every round function; a ciphertext into which
\* another value or tweak has come is not decrypted to anything.
RoundTrip == leg = 2 /\ phase = "returned" => output = given

\* The second call accepts the answer of the first.
AnswerAccepted ==
  leg = 2 /\ phase = "refused" => tag # <<>> /\ TagOf(output, tweak) # tag

\* Calls return: the walk comes back to the domain, and before the assertions
\* of 88 and 101.
Returns == (phase = "split") ~> (phase \in {"returned", "sealed"})
=============================================================================
