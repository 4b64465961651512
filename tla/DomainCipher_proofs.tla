------------------------ MODULE DomainCipher_proofs -------------------------
(***************************************************************************)
(* For every domain, number of rounds, tweak and round functions: the      *)
(* second call of the cipher undoes the first.  That the walks come back   *)
(* to the domain at all is a counting argument that is left to TLC.        *)
(***************************************************************************)
EXTENDS DomainCipher, NumberLemmas, SequenceTheorems

D == HalfDomain(count)

LEMMA DomainFacts ==
  ASSUME count \in Counts
  PROVE  /\ D \in Nat /\ D > 0 /\ count \in Nat /\ count > 0 /\ count <= D * D
         /\ Half(count) = 0..D - 1 /\ SuperDomain(count) = D * D
         /\ \A a, b \in Half(count) :
              XOR(a, b) \in Half(count) /\ XOR(XOR(a, b), b) = a
BY HalfAssumption, CountsAssumption DEF D, Half, SuperDomain

\* A sequence without its last element.
LEMMA FrontFacts ==
  ASSUME NEW S, NEW s \in Seq(S)
  PROVE  /\ SubSeq(s, 1, Len(s) - 1) \in Seq(S)
         /\ Len(SubSeq(s, 1, Len(s) - 1)) = IF s = <<>> THEN 0 ELSE Len(s) - 1
         /\ \A j \in 1..Len(s) - 1 : SubSeq(s, 1, Len(s) - 1)[j] = s[j]
<1>1. Len(s) \in Nat /\ (s = <<>> <=> Len(s) = 0)
  OBVIOUS
<1>2. \A j \in 1..Len(s) - 1 : s[j] \in S
  BY <1>1
<1> DEFINE n == Len(s) - 1
<1>3. n \in Int /\ \A j \in 1..n : s[j] \in S
  BY <1>1, <1>2
<1> HIDE DEF n
<1>4. /\ SubSeq(s, 1, n) \in Seq(S)
      /\ Len(SubSeq(s, 1, n)) = IF 1 <= n THEN n - 1 + 1 ELSE 0
      /\ \A j \in 1..n - 1 + 1 : SubSeq(s, 1, n)[j] = s[1 + j - 1]
  BY <1>3, SubSeqProperties
<1>5. n - 1 + 1 = n
  BY <1>3
<1>6. \A j \in 1..n : 1 + j - 1 = j
  BY <1>3
<1> QED BY <1>1, <1>4, <1>5, <1>6 DEF n

\* Joining two halves and splitting again.
LEMMA JoinSplit ==
  ASSUME NEW d \in Nat, d > 0, NEW l \in 0..d - 1, NEW r \in 0..d - 1
  PROVE  /\ l * d + r \in 0..d * d - 1
         /\ (l * d + r) \div d = l
         /\ (l * d + r) % d = r
<1> DEFINE x == l * d + r
           p == x \div d
           s == (x % d)
<1>0. l * d \in Nat /\ d * d \in Nat /\ x \in Nat
  OBVIOUS
<1>1. p \in Nat /\ s \in 0..d - 1 /\ x = p * d + s
  BY <1>0
<1>2. ASSUME NEW a \in Nat, NEW b \in Nat, a < b
      PROVE  a * d + d <= b * d
  <2>1. a + 1 <= b
    BY <1>2
  <2>2. (a + 1) * d <= b * d
    BY <2>1
  <2> QED BY <2>2
<1>3. l * d + d <= d * d
  BY <1>2
<1>4. p * d \in Nat
  BY <1>1
<1> HIDE DEF p, s
<1>5. p = l
  <2>1. ~ (p < l)
    BY <1>0, <1>1, <1>2, <1>4
  <2>2. ~ (l < p)
    BY <1>0, <1>1, <1>2, <1>4
  <2> QED BY <1>1, <2>1, <2>2
<1>6. s = r
  BY <1>0, <1>1, <1>5
<1>7. x \in 0..d * d - 1
  BY <1>0, <1>3
<1> QED BY <1>5, <1>6, <1>7 DEF p, s

\* Splitting a number and joining its halves.
LEMMA SplitJoin ==
  ASSUME NEW d \in Nat, d > 0, NEW x \in 0..d * d - 1
  PROVE  /\ x \div d \in 0..d - 1
         /\ x % d \in 0..d - 1
         /\ (x \div d) * d + (x % d) = x
<1>1. x \in Nat /\ x < d * d
  <2>1. d * d \in Nat
    OBVIOUS
  <2> QED BY <2>1
<1> QED BY <1>1, DivModFacts

\* A round gives two halves.
LEMMA RoundType ==
  ASSUME TypeOK, NEW o \in Ops, NEW l \in Half(count), NEW r \in Half(count),
         NEW k \in Index
  PROVE  \E a, b \in Half(count) : RoundOf(o, l, r, k) = <<a, b>>
<1>1. IndexOf(o, k) \in Index
  BY RoundsAssumption DEF IndexOf, Index
<1>2. count \in Counts /\ table[tweak][IndexOf(o, k)] \in [Half(count) -> Half(count)]
  BY <1>1 DEF TypeOK, Table
<1>3. ASSUME NEW h \in Half(count) PROVE F(IndexOf(o, k), h) \in Half(count)
  BY <1>2 DEF F
<1>4. \A a, b \in Half(count) : XOR(a, b) \in Half(count)
  BY <1>2, DomainFacts
<1> QED BY <1>3, <1>4 DEF RoundOf, Permuted, Inverted

\* A round of the opposite operation with the mirrored count undoes it.
LEMMA Undo ==
  ASSUME TypeOK, NEW o \in Ops, NEW l \in Half(count), NEW r \in Half(count),
         NEW k \in Index, NEW a, NEW b, RoundOf(o, l, r, k) = <<a, b>>
  PROVE  RoundOf(Opposite(o), a, b, Rounds - 1 - k) = <<l, r>>
<1> DEFINE i == IndexOf(o, k)
<1>1. IndexOf(Opposite(o), Rounds - 1 - k) = i
  BY RoundsAssumption DEF IndexOf, Opposite, Index, Ops
<1>2. i \in Index
  BY RoundsAssumption DEF IndexOf, Index
<1>3. count \in Counts /\ table[tweak][i] \in [Half(count) -> Half(count)]
  BY <1>2 DEF TypeOK, Table
<1>4. F(i, l) \in Half(count) /\ F(i, r) \in Half(count)
  BY <1>3 DEF F
<1>5. \A x, y \in Half(count) : XOR(XOR(x, y), y) = x
  BY <1>3, DomainFacts
<1> HIDE DEF i
<1>6. CASE o = "encrypt"
  <2>1. a = r /\ b = XOR(l, F(i, r))
    BY <1>6 DEF RoundOf, Permuted, i
  <2>2. RoundOf(Opposite(o), a, b, Rounds - 1 - k) = <<XOR(b, F(i, a)), a>>
    BY <1>1, <1>6 DEF RoundOf, Inverted, Opposite
  <2> QED BY <1>4, <1>5, <2>1, <2>2
<1>7. CASE o = "decrypt"
  <2>1. a = XOR(r, F(i, l)) /\ b = l
    BY <1>7 DEF RoundOf, Inverted, i
  <2>2. RoundOf(Opposite(o), a, b, Rounds - 1 - k) = <<b, XOR(a, F(i, b))>>
    BY <1>1, <1>7 DEF RoundOf, Permuted, Opposite
  <2> QED BY <1>4, <1>5, <2>1, <2>2
<1> QED BY <1>6, <1>7 DEF Ops

-----------------------------------------------------------------------------
(* Types.                                                                  *)

Bounded ==
  /\ phase = "split" => output \in 0..SuperDomain(count) - 1
  /\ phase \in {"returned", "sealed"} => output \in 0..count - 1
TypeInv == TypeOK /\ Bounded

LEMMA TypeInit == Init => TypeInv
<1> SUFFICES ASSUME Init PROVE TypeInv
  OBVIOUS
<1>1. count \in Counts
  BY DEF Init
<1>2. /\ D \in Nat /\ D > 0 /\ count \in Nat /\ Half(count) = 0..D - 1
      /\ SuperDomain(count) = D * D
  BY <1>1, DomainFacts
<1>3. D * D \in Nat
  BY <1>2
<1>4. table \in Table(count) /\ given \in -1..count /\ output \in -1..SuperDomain(count)
  BY <1>1, <1>2, <1>3, TablesAssumption DEF Init
<1>5. left \in Half(count) /\ right \in Half(count)
  BY <1>2 DEF Init
<1>6. round \in 0..Rounds
  BY RoundsAssumption DEF Init
<1>7. trail \in Seq(Halves)
  BY DEF Init
<1> QED BY <1>1, <1>4, <1>5, <1>6, <1>7 DEF Init, TypeInv, TypeOK, Bounded

\* Entering a call with a number that is in reach.
LEMMA EnterType ==
  ASSUME TypeInv, NEW n \in -1..count, Enter(n), count' = count
  PROVE  /\ output' \in -1..SuperDomain(count) /\ cycles' \in Nat
         /\ phase' \in {"refused", "split"}
         /\ phase' = "split" => output' \in 0..SuperDomain(count) - 1
<1>1. count \in Counts
  BY DEF TypeInv, TypeOK
<1>2. D \in Nat /\ count \in Nat /\ count <= D * D /\ SuperDomain(count) = D * D
  BY <1>1, DomainFacts
<1>3. D * D \in Nat
  BY <1>2
<1> QED BY <1>2, <1>3 DEF Enter

LEMMA TypeNext == TypeInv /\ [Next]_vars => TypeInv'
<1> SUFFICES ASSUME TypeInv, [Next]_vars PROVE TypeInv'
  OBVIOUS
<1>1. count \in Counts
  BY DEF TypeInv, TypeOK
<1>2. /\ D \in Nat /\ D > 0 /\ count \in Nat /\ count > 0 /\ count <= D * D
      /\ Half(count) = 0..D - 1 /\ SuperDomain(count) = D * D
  BY <1>1, DomainFacts
<1>3. D * D \in Nat
  BY <1>2
<1> USE DEF TypeInv, TypeOK, Bounded, Halves
<1>4. CASE UNCHANGED vars
  BY <1>4 DEF vars, call
<1>5. ASSUME NEW n \in -1..count, Call(n) PROVE TypeInv'
  BY <1>5, EnterType DEF Call
<1>6. CASE Split
  <2>1. output \div D \in 0..D - 1 /\ output % D \in 0..D - 1
    BY <1>2, <1>6, SplitJoin DEF Split
  <2>2. left' \in Half(count) /\ right' \in Half(count)
    BY <1>2, <1>6, <2>1 DEF Split, D
  <2>3. round' \in 0..Rounds
    BY <1>6, RoundsAssumption DEF Split
  <2> QED BY <1>6, <2>2, <2>3 DEF Split, call
<1>7. CASE Round
  <2>1. round \in Index /\ round + 1 \in 0..Rounds
    BY <1>7, RoundsAssumption DEF Round, Index
  <2>2. PICK a, b \in Half(count) : RoundOf(op, left, right, round) = <<a, b>>
    BY <2>1, RoundType
  <2>3. left' = a /\ right' = b /\ round' = round + 1 /\ phase' = "rounds"
    BY <1>7, <2>2 DEF Round
  <2>4. trail' \in Seq(Halves)
    <3>1. [left |-> left, right |-> right, round |-> round] \in Halves
      BY <2>1
    <3>2. Append(trail, [left |-> left, right |-> right, round |-> round]) \in Seq(Halves)
      BY <3>1
    <3>3. SubSeq(trail, 1, Len(trail) - 1) \in Seq(Halves)
      BY FrontFacts
    <3> QED BY <1>7, <3>2, <3>3 DEF Round
  <2> QED BY <1>7, <2>1, <2>3, <2>4 DEF Round, call
<1>8. CASE EndPass
  <2>1. Join(left, right) \in 0..D * D - 1
    BY <1>2, JoinSplit DEF Join, D
  <2>2. Join(left, right) < count => Join(left, right) \in 0..count - 1
    BY <1>2, <1>3, <2>1
  <2>3. /\ phase' \in {"returned", "assertion", "split"}
        /\ phase' = "returned" => Join(left, right) < count
    BY <1>8 DEF EndPass, InDomain
  <2>4. output' \in -1..SuperDomain(count) /\ cycles' \in Nat
    BY <1>2, <1>3, <1>8, <2>1 DEF EndPass
  <2> QED BY <1>2, <1>8, <2>1, <2>2, <2>3, <2>4 DEF EndPass, call
<1>9. CASE CallBack
  <2>1. output \in -1..count
    BY <1>2, <1>9 DEF CallBack
  <2>2. op' \in Ops
    BY <1>9 DEF CallBack, Opposite, Ops
  <2> QED BY <1>9, <2>1, <2>2, EnterType DEF CallBack
<1>10. CASE Seal
  BY <1>10 DEF Seal
<1>11. ASSUME NEW n \in 0..count - 1, NEW t \in Tweaks, Open(n, t) PROVE TypeInv'
  <2>1. n \in -1..count /\ n \in -1..SuperDomain(count)
    BY <1>2, <1>3
  <2>2. CASE TagOf(n, t) = tag
    BY <1>11, <2>1, <2>2, EnterType DEF Open, Ops
  <2>3. CASE TagOf(n, t) # tag
    BY <1>11, <2>1, <2>3 DEF Open, Ops
  <2> QED BY <2>2, <2>3
<1> QED BY <1>4, <1>5, <1>6, <1>7, <1>8, <1>9, <1>10, <1>11 DEF Next

THEOREM CipherTyped == Spec => []TypeInv
BY TypeInit, TypeNext, PTL DEF Spec

\* The variables keep their types; what returns is a rank.
THEOREM CipherTypes == Spec => []TypeOK
BY CipherTyped, PTL DEF TypeInv
-----------------------------------------------------------------------------
(* The trail.  What follows is about values, not states: f are the round   *)
(* functions under the tweak, o the first operation, c the count and g the *)
(* rank it was given.                                                      *)

RoundBy(f, o, l, r, k) ==
  IF o = "encrypt" THEN <<r, XOR(l, f[IndexOf(o, k)][r])>>
                   ELSE <<XOR(r, f[IndexOf(o, k)][l]), l>>

LEMMA RoundIs ==
  ASSUME NEW o, NEW l, NEW r, NEW k
  PROVE  RoundOf(o, l, r, k) = RoundBy(table[tweak], o, l, r, k)
BY DEF RoundOf, RoundBy, Permuted, Inverted, F

After(f, o, e) == RoundBy(f, o, e.left, e.right, e.round)
Whole(c, l, r) == l * HalfDomain(c) + r

\* Where a pass starts the halves are those of the rank given or, later, of
\* a value outside the domain.
StartsAt(c, g, j, e) ==
  e.round = 0 => IF j = 1 THEN Whole(c, e.left, e.right) = g
                          ELSE Whole(c, e.left, e.right) >= c

Follows(f, o, d, e) ==
  /\ After(f, o, d) = <<e.left, e.right>>
  /\ e.round = IF d.round + 1 = Rounds THEN 0 ELSE d.round + 1

Chained(t, f, o, c, g) ==
  /\ \A j \in 1..Len(t) - 1 : Follows(f, o, t[j], t[j + 1])
  /\ \A j \in 1..Len(t) : StartsAt(c, g, j, t[j])
  /\ Len(t) > 0 => t[1].round = 0

\* The last round of the trail is number k of its pass and leads to l, r.
Newest(t, f, o, l, r, k) ==
  /\ Len(t) > 0
  /\ t[Len(t)].round = k
  /\ After(f, o, t[Len(t)]) = <<l, r>>

\* The number of the round before number k.
Before(k) == IF k = 0 THEN Rounds - 1 ELSE k - 1

\* The halves l, r stand before round k: at the start of the first pass, at
\* the start of a later one, or within a pass.
Standing(t, f, o, c, g, l, r, k) ==
  \/ t = <<>> /\ k = 0 /\ Whole(c, l, r) = g
  \/ Newest(t, f, o, l, r, Before(k)) /\ (k = 0 => Whole(c, l, r) >= c)

Entry(S) == [left : S, right : S, round : Index]

\* A round of the first call makes the trail longer.
LEMMA Grow ==
  ASSUME NEW S, NEW t \in Seq(Entry(S)), NEW f, NEW o, NEW c, NEW g,
         NEW e \in Entry(S), Chained(t, f, o, c, g),
         Standing(t, f, o, c, g, e.left, e.right, e.round)
  PROVE  /\ Chained(Append(t, e), f, o, c, g)
         /\ \A l, r : After(f, o, e) = <<l, r>> => Newest(Append(t, e), f, o, l, r, e.round)
<1> DEFINE u == Append(t, e)
<1>1. /\ Len(t) \in Nat /\ Len(u) = Len(t) + 1 /\ u[Len(t) + 1] = e
      /\ \A j \in 1..Len(t) : u[j] = t[j]
      /\ (t = <<>> <=> Len(t) = 0)
  OBVIOUS
<1> HIDE DEF u
<1>2. ASSUME NEW j \in 1..Len(u) - 1 PROVE Follows(f, o, u[j], u[j + 1])
  <2>1. CASE j < Len(t)
    <3>1. j \in 1..Len(t) - 1 /\ u[j] = t[j] /\ u[j + 1] = t[j + 1]
      BY <1>1, <2>1
    <3> QED BY <3>1 DEF Chained
  <2>2. CASE j = Len(t)
    <3>1. Len(t) > 0 /\ u[j] = t[Len(t)] /\ u[j + 1] = e
      BY <1>1, <2>2
    <3>2. Newest(t, f, o, e.left, e.right, Before(e.round))
      BY <1>1, <3>1 DEF Standing
    <3>3. e.round \in Index /\ t[Len(t)] \in Entry(S)
      <4>1. t[Len(t)] \in Entry(S)
        BY <1>1, <3>1
      <4> QED BY <4>1 DEF Entry
    <3>4. e.round = IF t[Len(t)].round + 1 = Rounds THEN 0 ELSE t[Len(t)].round + 1
      BY <3>2, <3>3, RoundsAssumption DEF Newest, Before, Entry, Index
    <3> QED BY <3>1, <3>2, <3>4 DEF Follows, Newest
  <2> QED BY <1>1, <2>1, <2>2
<1>3. ASSUME NEW j \in 1..Len(u) PROVE StartsAt(c, g, j, u[j])
  <2>1. CASE j \in 1..Len(t)
    BY <1>1, <2>1 DEF Chained
  <2>2. CASE j = Len(t) + 1
    BY <1>1, <2>2 DEF StartsAt, Standing, Newest
  <2> QED BY <1>1, <2>1, <2>2
<1>4. u[1].round = 0
  <2>1. CASE t = <<>>
    BY <1>1, <2>1 DEF Standing, Newest
  <2>2. CASE t # <<>>
    <3>1. Len(t) > 0 /\ u[1] = t[1]
      BY <1>1, <2>2
    <3> QED BY <3>1 DEF Chained
  <2> QED BY <2>1, <2>2
<1>5. Chained(u, f, o, c, g)
  BY <1>2, <1>3, <1>4 DEF Chained
<1>6. \A l, r : After(f, o, e) = <<l, r>> => Newest(u, f, o, l, r, e.round)
  BY <1>1 DEF Newest
<1> QED BY <1>5, <1>6 DEF u

\* A round of the second call takes the newest entry away and stands before
\* the round it was made by.
LEMMA Shrink ==
  ASSUME NEW S, NEW t \in Seq(Entry(S)), NEW f, NEW o, NEW c, NEW g,
         Chained(t, f, o, c, g), Len(t) > 0
  PROVE  LET u == SubSeq(t, 1, Len(t) - 1)
             e == t[Len(t)]
         IN  /\ Chained(u, f, o, c, g)
             /\ Standing(u, f, o, c, g, e.left, e.right, e.round)
<1> DEFINE u == SubSeq(t, 1, Len(t) - 1)
           e == t[Len(t)]
<1>1. /\ Len(t) \in Nat /\ u \in Seq(Entry(S)) /\ Len(u) = Len(t) - 1
      /\ \A j \in 1..Len(u) : u[j] = t[j]
      /\ (u = <<>> <=> Len(u) = 0)
      /\ e \in Entry(S)
  <2>1. t # <<>>
    OBVIOUS
  <2>2. u \in Seq(Entry(S)) /\ Len(u) = Len(t) - 1 /\ \A j \in 1..Len(t) - 1 : u[j] = t[j]
    BY <2>1, FrontFacts
  <2> HIDE DEF u
  <2>3. Len(t) \in Nat /\ (u = <<>> <=> Len(u) = 0) /\ t[Len(t)] \in Entry(S)
    BY <2>2
  <2> QED BY <2>2, <2>3
<1> HIDE DEF u
<1>2. ASSUME NEW j \in 1..Len(u) - 1 PROVE Follows(f, o, u[j], u[j + 1])
  <2>1. j \in 1..Len(t) - 1 /\ u[j] = t[j] /\ u[j + 1] = t[j + 1]
    BY <1>1
  <2> QED BY <2>1 DEF Chained
<1>3. ASSUME NEW j \in 1..Len(u) PROVE StartsAt(c, g, j, u[j])
  BY <1>1 DEF Chained
<1>4. Len(u) > 0 => u[1].round = 0
  BY <1>1 DEF Chained
<1>5. Chained(u, f, o, c, g)
  BY <1>2, <1>3, <1>4 DEF Chained
<1>6. Standing(u, f, o, c, g, e.left, e.right, e.round)
  <2>1. CASE Len(t) = 1
    <3>1. u = <<>> /\ e.round = 0 /\ StartsAt(c, g, 1, e)
      BY <1>1, <2>1 DEF Chained
    <3> QED BY <3>1 DEF Standing, StartsAt
  <2>2. CASE Len(t) > 1
    <3> DEFINE d == t[Len(t) - 1]
    <3>1. Len(u) > 0 /\ u[Len(u)] = d
      BY <1>1, <2>2
    <3>2. Follows(f, o, d, e)
      <4>1. Len(t) - 1 \in 1..Len(t) - 1 /\ (Len(t) - 1) + 1 = Len(t)
        BY <1>1, <2>2
      <4> QED BY <4>1 DEF Chained
    <3>3. d \in Entry(S)
      BY <1>1, <2>2
    <3> HIDE DEF d
    <3>4. d.round = Before(e.round)
      BY <1>1, <3>2, <3>3, RoundsAssumption DEF Follows, Before, Entry, Index
    <3>5. e.round = 0 => Whole(c, e.left, e.right) >= c
      BY <1>1, <2>2 DEF Chained, StartsAt
    <3> QED BY <3>1, <3>2, <3>4, <3>5 DEF Standing, Newest, Follows
  <2> QED BY <1>1, <2>1, <2>2
<1> QED BY <1>5, <1>6 DEF u

-----------------------------------------------------------------------------
High(c, x) == x \div HalfDomain(c)
Low(c, x) == x % HalfDomain(c)

LEMMA HighLow ==
  ASSUME NEW c \in Counts
  PROVE  /\ \A x \in 0..SuperDomain(c) - 1 : Whole(c, High(c, x), Low(c, x)) = x
         /\ \A l, r \in Half(c) : /\ High(c, Whole(c, l, r)) = l
                                  /\ Low(c, Whole(c, l, r)) = r
                                  /\ Whole(c, l, r) \in Int
<1> DEFINE d == HalfDomain(c)
<1>1. d \in Nat /\ d > 0 /\ Half(c) = 0..d - 1 /\ SuperDomain(c) = d * d
  BY HalfAssumption DEF Half, SuperDomain
<1> HIDE DEF d
<1>2. ASSUME NEW x \in 0..SuperDomain(c) - 1
      PROVE  Whole(c, High(c, x), Low(c, x)) = x
  BY <1>1, SplitJoin DEF Whole, High, Low, d
<1>3. ASSUME NEW l \in Half(c), NEW r \in Half(c)
      PROVE  /\ High(c, Whole(c, l, r)) = l /\ Low(c, Whole(c, l, r)) = r
             /\ Whole(c, l, r) \in Int
  <2>1. l * d + r \in 0..d * d - 1 /\ (l * d + r) \div d = l /\ (l * d + r) % d = r
    BY <1>1, JoinSplit
  <2> QED BY <2>1 DEF Whole, High, Low, d
<1> QED BY <1>2, <1>3

\* The operation of the first call.
First == IF leg = 1 THEN op ELSE Opposite(op)
Chain == Chained(trail, table[tweak], First, count, given)
At(l, r, k) == Standing(trail, table[tweak], First, count, given, l, r, k)
Made(l, r, k) == Newest(trail, table[tweak], First, l, r, k)

\* The first call: the trail ends where the walk is.
There ==
  /\ phase \in {"idle", "refused"} => trail = <<>>
  /\ phase \notin {"idle", "refused"} => given \in 0..count - 1
  /\ phase # "sealed" => tag = <<>>
  /\ phase = "sealed" => tag = TagOf(output, tweak) /\ op = "encrypt"
  /\ phase = "split" => At(High(count, output), Low(count, output), 0)
  /\ phase = "rounds" /\ round < Rounds => At(left, right, round)
  /\ phase = "rounds" /\ round = Rounds => Made(left, right, Rounds - 1)
  /\ phase \in {"returned", "sealed"} =>
       Made(High(count, output), Low(count, output), Rounds - 1)

\* The second call: the trail ends where the walk has still to go back.
BackAgain ==
  /\ phase \notin {"idle", "sealed"}
  /\ given \in 0..count - 1
  /\ phase = "refused" => tag # <<>> /\ TagOf(output, tweak) # tag
  /\ phase = "split" => Made(High(count, output), Low(count, output), Rounds - 1)
  /\ phase = "rounds" /\ round < Rounds => Made(left, right, Rounds - 1 - round)
  /\ phase = "rounds" /\ round = Rounds => At(left, right, 0)
  /\ phase = "returned" => output = given

WalkInv ==
  /\ phase # "refused" => Chain
  /\ leg = 1 => There
  /\ leg = 2 => BackAgain

LEMMA WalkInit == Init => WalkInv
BY DEF Init, WalkInv, There, Chain, Chained

LEMMA CallWalks ==
  ASSUME TypeInv, WalkInv, NEW n \in -1..count, Call(n)
  PROVE  WalkInv'
<1>1. /\ leg = 1 /\ phase = "idle" /\ trail = <<>> /\ tag = <<>>
      /\ leg' = 1 /\ trail' = <<>> /\ tag' = <<>> /\ given' = n /\ output' = n
      /\ count' = count
      /\ phase' = IF n < 0 \/ n >= count THEN "refused" ELSE "split"
  BY DEF Call, Enter, WalkInv, There
<1>2. count \in Counts /\ count \in Nat
  BY CountsAssumption DEF TypeInv, TypeOK
<1>3. Chain'
  BY <1>1 DEF Chain, Chained
<1>4. CASE phase' = "refused"
  BY <1>1, <1>3, <1>4 DEF WalkInv, There
<1>5. CASE phase' = "split"
  <2>1. n \in 0..count - 1
    BY <1>1, <1>2, <1>5
  <2>2. output' \in 0..SuperDomain(count) - 1
    BY <1>5, EnterType DEF Call
  <2>3. Whole(count, High(count, n), Low(count, n)) = n
    BY <1>1, <1>2, <2>2, HighLow
  <2>4. At(High(count, output), Low(count, output), 0)'
    BY <1>1, <2>3 DEF At, Standing
  <2> QED BY <1>1, <1>3, <1>5, <2>1, <2>4 DEF WalkInv, There
<1> QED BY <1>1, <1>4, <1>5

LEMMA SplitWalks ==
  ASSUME TypeInv, WalkInv, Split
  PROVE  WalkInv'
<1>1. /\ phase = "split" /\ phase' = "rounds" /\ round' = 0 /\ 0 < Rounds
      /\ left' = High(count, output) /\ right' = Low(count, output)
      /\ UNCHANGED <<trail, table, tweak, op, leg, count, given, tag>>
  BY RoundsAssumption DEF Split, call, High, Low
<1>2. Chain'
  BY <1>1 DEF WalkInv, Chain, First
<1>3. CASE leg = 1
  <2>1. At(left, right, round)'
    BY <1>1, <1>3 DEF WalkInv, There, At, First
  <2> QED BY <1>1, <1>2, <1>3, <2>1, RoundsAssumption DEF WalkInv, There
<1>4. CASE leg = 2
  <2>1. Made(left, right, Rounds - 1 - round)'
    <3>1. Made(High(count, output), Low(count, output), Rounds - 1)
      BY <1>1, <1>4 DEF WalkInv, BackAgain
    <3>2. Rounds - 1 - 0 = Rounds - 1
      BY RoundsAssumption
    <3> QED BY <1>1, <3>1, <3>2 DEF Made, First
  <2> QED BY <1>1, <1>2, <1>4, <2>1, RoundsAssumption DEF WalkInv, BackAgain
<1> QED BY <1>3, <1>4 DEF TypeInv, TypeOK

LEMMA RoundThere ==
  ASSUME TypeInv, WalkInv, Round, leg = 1
  PROVE  WalkInv'
<1> DEFINE e == [left |-> left, right |-> right, round |-> round]
           f == table[tweak]
<1>1. /\ phase = "rounds" /\ round < Rounds /\ phase' = "rounds"
      /\ round' = round + 1 /\ round \in Nat
      /\ trail' = Append(trail, e)
      /\ left' = RoundBy(f, op, left, right, round)[1]
      /\ right' = RoundBy(f, op, left, right, round)[2]
      /\ UNCHANGED <<table, tweak, op, leg, count, given, tag>>
  BY RoundIs DEF Round, call, TypeInv, TypeOK
<1>2. trail \in Seq(Entry(Half(count))) /\ e \in Entry(Half(count))
  BY <1>1, RoundsAssumption DEF TypeInv, TypeOK, Halves, Entry, Index
<1>3. PICK a, b \in Half(count) : RoundBy(f, op, left, right, round) = <<a, b>>
  <2>1. round \in Index
    BY <1>1, RoundsAssumption DEF Index
  <2> QED BY <2>1, RoundIs, RoundType DEF TypeInv, TypeOK
<1>4. /\ Chained(trail, f, op, count, given)
      /\ Standing(trail, f, op, count, given, e.left, e.right, e.round)
  BY <1>1 DEF WalkInv, There, Chain, At, First
<1>5. /\ Chained(trail', f, op, count, given)
      /\ Newest(trail', f, op, left', right', round)
  <2>1. After(f, op, e) = <<left', right'>> /\ e.round = round
    BY <1>1, <1>3 DEF After
  <2> HIDE DEF e, f
  <2>2. /\ Chained(Append(trail, e), f, op, count, given)
        /\ \A l, r : After(f, op, e) = <<l, r>> => Newest(Append(trail, e), f, op, l, r, e.round)
    BY <1>2, <1>4, Grow
  <2> QED BY <1>1, <2>1, <2>2
<1>6. Chain'
  BY <1>1, <1>5 DEF Chain, First
<1>7. CASE round + 1 = Rounds
  <2>1. round = Rounds - 1
    BY <1>1, <1>7, RoundsAssumption
  <2>2. Made(left, right, Rounds - 1)'
    BY <1>1, <1>5, <2>1 DEF Made, First
  <2> QED BY <1>1, <1>6, <1>7, <2>2 DEF WalkInv, There
<1>8. CASE round + 1 # Rounds
  <2>1. round = Before(round + 1) /\ round + 1 # 0
    BY <1>1 DEF Before
  <2>2. At(left, right, round)'
    BY <1>1, <1>5, <2>1 DEF At, First, Standing
  <2> QED BY <1>1, <1>6, <1>8, <2>2 DEF WalkInv, There
<1> QED BY <1>7, <1>8

LEMMA RoundBack ==
  ASSUME TypeInv, WalkInv, Round, leg = 2
  PROVE  WalkInv'
<1> DEFINE e == trail[Len(trail)]
           f == table[tweak]
           o == First
<1>1. /\ phase = "rounds" /\ round < Rounds /\ phase' = "rounds"
      /\ round' = round + 1 /\ round \in Nat
      /\ trail' = SubSeq(trail, 1, Len(trail) - 1)
      /\ left' = RoundOf(op, left, right, round)[1]
      /\ right' = RoundOf(op, left, right, round)[2]
      /\ UNCHANGED <<table, tweak, op, leg, count, given, tag>>
      /\ o \in Ops /\ op = Opposite(o)
  BY DEF Round, call, TypeInv, TypeOK, First, Opposite, Ops
<1>2. /\ Len(trail) > 0 /\ e.round = Rounds - 1 - round
      /\ After(f, o, e) = <<left, right>>
      /\ Chained(trail, f, o, count, given)
  BY <1>1 DEF WalkInv, BackAgain, Made, Newest, Chain
<1>3. trail \in Seq(Entry(Half(count)))
  BY DEF TypeInv, TypeOK, Halves, Entry
<1>4. e \in Entry(Half(count))
  BY <1>2, <1>3
<1>5. e.left \in Half(count) /\ e.right \in Half(count) /\ e.round \in Index
  BY <1>4 DEF Entry
<1>6. /\ Chained(trail', f, o, count, given)
      /\ Standing(trail', f, o, count, given, e.left, e.right, e.round)
  BY <1>1, <1>2, <1>3, Shrink
<1> HIDE DEF e, o
<1>7. left' = e.left /\ right' = e.right
  <2>1. RoundOf(o, e.left, e.right, e.round) = <<left, right>>
    BY <1>2, RoundIs DEF After
  <2>2. RoundOf(Opposite(o), left, right, Rounds - 1 - e.round) = <<e.left, e.right>>
    BY <1>1, <1>5, <2>1, Undo DEF TypeInv
  <2>3. Rounds - 1 - e.round = round
    BY <1>1, <1>2, RoundsAssumption
  <2> QED BY <1>1, <2>2, <2>3
<1>8. First' = o
  BY <1>1 DEF First, o
<1>9. Chain'
  BY <1>1, <1>6, <1>8 DEF Chain
<1>10. Standing(trail', f, o, count, given, left', right', Rounds - 1 - round)
  BY <1>2, <1>6, <1>7
<1>11. CASE round + 1 = Rounds
  <2>1. Rounds - 1 - round = 0
    BY <1>1, <1>11, RoundsAssumption
  <2>2. At(left, right, 0)'
    BY <1>1, <1>8, <1>10, <2>1 DEF At
  <2> QED BY <1>1, <1>9, <1>11, <2>2 DEF WalkInv, BackAgain
<1>12. CASE round + 1 # Rounds
  <2>1. /\ Rounds - 1 - round # 0
        /\ Before(Rounds - 1 - round) = Rounds - 1 - (round + 1)
    BY <1>1, <1>12, RoundsAssumption DEF Before
  <2>2. Newest(trail', f, o, left', right', Rounds - 1 - (round + 1))
    BY <1>10, <2>1 DEF Standing
  <2>3. Made(left, right, Rounds - 1 - round)'
    BY <1>1, <1>8, <2>2 DEF Made
  <2> QED BY <1>1, <1>9, <1>12, <2>3 DEF WalkInv, BackAgain
<1> QED BY <1>11, <1>12

LEMMA EndPassWalks ==
  ASSUME TypeInv, WalkInv, EndPass
  PROVE  WalkInv'
<1> DEFINE x == Whole(count, left, right)
<1>1. /\ phase = "rounds" /\ round = Rounds /\ output' = x
      /\ phase' \in {"returned", "assertion", "split"}
      /\ phase' = "returned" <=> x < count
      /\ UNCHANGED <<trail, table, tweak, op, leg, count, given, tag>>
  BY DEF EndPass, call, InDomain, Whole, Join
<1>2. /\ High(count, x) = left /\ Low(count, x) = right /\ x \in Int /\ count \in Nat
  BY HighLow, CountsAssumption DEF TypeInv, TypeOK
<1> HIDE DEF x
<1>3. Chain'
  BY <1>1 DEF WalkInv, Chain, First
<1>4. CASE leg = 1
  <2>1. Made(left, right, Rounds - 1)
    BY <1>1, <1>4, RoundsAssumption DEF WalkInv, There
  <2>2. Made(High(count, output), Low(count, output), Rounds - 1)'
    BY <1>1, <1>2, <2>1 DEF Made, First
  <2>3. phase' = "split" => At(High(count, output), Low(count, output), 0)'
    <3>1. SUFFICES ASSUME phase' = "split"
                   PROVE  At(High(count, output), Low(count, output), 0)'
      OBVIOUS
    <3>2. x >= count
      BY <1>1, <1>2, <3>1
    <3> QED BY <1>1, <1>2, <2>1, <3>2 DEF At, Made, Standing, Before, First, x
  <2> QED BY <1>1, <1>3, <1>4, <2>2, <2>3 DEF WalkInv, There
<1>5. CASE leg = 2
  <2>1. At(left, right, 0) /\ given \in 0..count - 1
    BY <1>1, <1>5 DEF WalkInv, BackAgain
  <2>2. \/ x = given
        \/ x >= count /\ Made(left, right, Rounds - 1)
    BY <2>1 DEF At, Standing, Before, Made, x
  <2>3. phase' = "returned" => output' = given
    BY <1>1, <1>2, <2>2
  <2>4. phase' = "split" => Made(High(count, output), Low(count, output), Rounds - 1)'
    <3>1. SUFFICES ASSUME phase' = "split"
                   PROVE  Made(High(count, output), Low(count, output), Rounds - 1)'
      OBVIOUS
    <3>2. Made(left, right, Rounds - 1)
      BY <1>1, <1>2, <2>1, <2>2, <3>1
    <3> QED BY <1>1, <1>2, <3>2 DEF Made, First
  <2> QED BY <1>1, <1>3, <1>5, <2>1, <2>3, <2>4 DEF WalkInv, BackAgain
<1> QED BY <1>4, <1>5 DEF TypeInv, TypeOK

LEMMA CallBackWalks ==
  ASSUME TypeInv, WalkInv, CallBack
  PROVE  WalkInv'
<1>1. /\ leg = 1 /\ phase = "returned" /\ leg' = 2 /\ op' = Opposite(op)
      /\ output' = output /\ output \in 0..count - 1 /\ count \in Nat
      /\ UNCHANGED <<trail, table, tweak, count, given, tag>>
      /\ op \in Ops
  BY CountsAssumption DEF CallBack, Enter, TypeInv, TypeOK, Bounded
<1>2. phase' = "split"
  <2>1. ~ (output < 0 \/ output >= count)
    BY <1>1
  <2> QED BY <2>1 DEF CallBack, Enter
<1>3. First' = First
  BY <1>1 DEF First, Opposite, Ops
<1>4. Chain'
  BY <1>1, <1>3 DEF WalkInv, Chain
<1>5. Made(High(count, output), Low(count, output), Rounds - 1)'
  BY <1>1, <1>3 DEF WalkInv, There, Made
<1>6. given' \in 0..count' - 1
  BY <1>1 DEF WalkInv, There
<1> QED BY <1>1, <1>2, <1>4, <1>5, <1>6 DEF WalkInv, BackAgain

LEMMA SealWalks ==
  ASSUME TypeInv, WalkInv, Seal
  PROVE  WalkInv'
<1>1. /\ leg = 1 /\ phase = "returned" /\ phase' = "sealed" /\ op = "encrypt"
      /\ tag' = TagOf(output, tweak)
      /\ UNCHANGED <<trail, table, tweak, count, given, op, leg, output>>
  BY DEF Seal
<1>2. Chain'
  BY <1>1 DEF WalkInv, Chain, First
<1>3. Made(High(count, output), Low(count, output), Rounds - 1)'
  BY <1>1 DEF WalkInv, There, Made, First
<1>4. tag' = TagOf(output, tweak)' /\ given' \in 0..count' - 1
  BY <1>1 DEF TagOf, WalkInv, There
<1> QED BY <1>1, <1>2, <1>3, <1>4 DEF WalkInv, There

LEMMA OpenWalks ==
  ASSUME TypeInv, WalkInv, NEW n \in 0..count - 1, NEW t \in Tweaks, Open(n, t)
  PROVE  WalkInv'
<1>0. phase = "sealed" /\ leg = 1 /\ There
  BY DEF Open, WalkInv, BackAgain, TypeInv, TypeOK
<1>1. /\ leg = 1 /\ phase = "sealed" /\ op = "encrypt"
      /\ tag = TagOf(output, tweak)
      /\ leg' = 2 /\ op' = "decrypt" /\ tweak' = t /\ output' = n
      /\ UNCHANGED <<trail, table, count, given, tag>>
      /\ count \in Nat /\ given \in 0..count - 1
  <2>1. op = "encrypt" /\ tag = TagOf(output, tweak) /\ given \in 0..count - 1
    BY <1>0 DEF There
  <2>2. count \in Nat
    BY CountsAssumption DEF TypeInv, TypeOK
  <2> QED BY <1>0, <2>1, <2>2 DEF Open, Enter
<1>2. First' = First
  BY <1>1 DEF First, Opposite
<1>3. CASE TagOf(n, t) = tag
  <2>1. n = output /\ t = tweak
    BY <1>1, <1>3 DEF TagOf
  <2>2. phase' = "split"
    <3>1. ~ (n < 0 \/ n >= count)
      BY <1>1
    <3> QED BY <1>3, <3>1 DEF Open, Enter
  <2>3. Chain'
    BY <1>1, <1>2, <2>1 DEF WalkInv, Chain
  <2>4. Made(High(count, output), Low(count, output), Rounds - 1)'
    BY <1>1, <1>2, <2>1 DEF WalkInv, There, Made
  <2> QED BY <1>1, <2>2, <2>3, <2>4 DEF WalkInv, BackAgain
<1>4. CASE TagOf(n, t) # tag
  <2>1. phase' = "refused"
    BY <1>4 DEF Open
  <2>2. tag' # <<>> /\ TagOf(output, tweak)' # tag'
    BY <1>1, <1>4 DEF TagOf
  <2> QED BY <1>1, <2>1, <2>2 DEF WalkInv, BackAgain
<1> QED BY <1>3, <1>4

LEMMA WalkNext == TypeInv /\ WalkInv /\ [Next]_vars => WalkInv'
<1> SUFFICES ASSUME TypeInv, WalkInv, [Next]_vars PROVE WalkInv'
  OBVIOUS
<1>1. CASE UNCHANGED vars
  BY <1>1 DEF vars, call, WalkInv, There, BackAgain, Chain, At, Made, First, TagOf
<1>2. CASE Round
  BY <1>2, RoundThere, RoundBack DEF TypeInv, TypeOK
<1> QED
  BY <1>1, <1>2, CallWalks, SplitWalks, EndPassWalks, CallBackWalks, SealWalks,
     OpenWalks DEF Next

THEOREM Walks == Spec => [](TypeInv /\ WalkInv)
<1>1. Init => WalkInv
  BY WalkInit
<1> QED BY <1>1, WalkNext, CipherTyped, PTL DEF Spec

\* decrypt_rank undoes encrypt_rank and the other way round, and decrypt
\* undoes encrypt (114-131).
THEOREM CipherRoundTrip == Spec => []RoundTrip
<1>1. TypeInv /\ WalkInv => RoundTrip
  BY DEF WalkInv, BackAgain, RoundTrip
<1> QED BY <1>1, Walks, PTL

\* The second call takes every answer of the first; decrypt refuses only a
\* ciphertext whose tag is not that of its value and tweak.
THEOREM CipherAccepts == Spec => []AnswerAccepted
<1>1. TypeInv /\ WalkInv => AnswerAccepted
  BY DEF WalkInv, BackAgain, AnswerAccepted
<1> QED BY <1>1, Walks, PTL
=============================================================================
