---------------------------- MODULE NumberLemmas ----------------------------
(***************************************************************************)
(* Facts about numbers that the proofs of several components cite.  Where  *)
(* one needs an induction, the least number that refutes it is taken       *)
(* (LeastNat).                                                             *)
(***************************************************************************)
EXTENDS Widths, WellFoundedInduction, TLAPS

\* Every non-empty set of naturals has a least element.
LEMMA LeastNat ==
  ASSUME NEW T, T \subseteq Nat, T # {}
  PROVE  \E m \in T : \A k \in T : m <= k
<1>1. PICK x \in T : \A y \in T : ~ (<<y, x>> \in OpToRel(<, Nat))
  BY NatLessThanWellFounded, WFMin
<1>2. ASSUME NEW y \in T PROVE x <= y
  <2>1. ~ (y < x)
    BY <1>1 DEF OpToRel
  <2> QED BY <2>1
<1> QED BY <1>2

\* Induction over an interval, upwards and downwards, for a set.
LEMMA Upwards ==
  ASSUME NEW N \in Nat, NEW S, 0 \in S, \A i \in 0..N - 1 : i \in S => i + 1 \in S
  PROVE  \A i \in 0..N : i \in S
<1> DEFINE Bad == {i \in 0..N : i \notin S}
<1>1. ASSUME Bad # {} PROVE FALSE
  <2>1. Bad \subseteq Nat
    OBVIOUS
  <2>2. PICK m \in Bad : \A k \in Bad : m <= k
    BY <1>1, <2>1, LeastNat
  <2>3. m # 0
    OBVIOUS
  <2>4. m - 1 \in 0..N - 1 /\ m - 1 \in 0..N /\ m - 1 + 1 = m /\ m - 1 < m
    BY <2>3
  <2>5. m - 1 \in S
    BY <2>2, <2>4
  <2> QED BY <2>4, <2>5
<1> QED BY <1>1

LEMMA Downwards ==
  ASSUME NEW N \in Nat, NEW S, N \in S, \A i \in 0..N - 1 : i + 1 \in S => i \in S
  PROVE  \A i \in 0..N : i \in S
<1> DEFINE T == {i \in 0..N : N - i \in S}
<1>1. 0 \in T
  OBVIOUS
<1>2. ASSUME NEW i \in 0..N - 1, i \in T PROVE i + 1 \in T
  <2>1. N - i - 1 \in 0..N - 1 /\ (N - i - 1) + 1 = N - i /\ N - (i + 1) = N - i - 1
    OBVIOUS
  <2>2. N - i - 1 \in S
    BY <1>2, <2>1
  <2> QED BY <2>1, <2>2
<1> HIDE DEF T
<1>3. \A i \in 0..N : i \in T
  BY <1>1, <1>2, Upwards
<1>4. ASSUME NEW i \in 0..N PROVE i \in S
  <2>1. N - i \in 0..N /\ N - (N - i) = i
    OBVIOUS
  <2> QED BY <1>3, <2>1 DEF T
<1> QED BY <1>4

\* A non-empty set of naturals with a bound has a greatest element, Max.
LEMMA MaxFacts ==
  ASSUME NEW n \in Nat, NEW S \in SUBSET (0..n), S # {}
  PROVE  /\ Max(S) \in S
         /\ \A x \in S : x <= Max(S)
<1> DEFINE Below == {k \in 0..n : n - k \in S}
<1>1. Below \subseteq Nat /\ Below # {}
  <2>1. PICK x \in S : TRUE
    OBVIOUS
  <2>2. x \in 0..n /\ n - x \in 0..n /\ n - (n - x) = x
    OBVIOUS
  <2>3. n - x \in Below
    BY <2>2
  <2>4. Below \subseteq 0..n
    OBVIOUS
  <2>5. 0..n \subseteq Nat
    OBVIOUS
  <2> HIDE DEF Below
  <2> QED BY <2>3, <2>4, <2>5
<1>2. PICK m \in Below : \A k \in Below : m <= k
  BY <1>1, LeastNat
<1>3. n - m \in S
  OBVIOUS
<1>4. ASSUME NEW x \in S PROVE x <= n - m
  <2>1. x \in 0..n /\ n - x \in 0..n /\ n - (n - x) = x
    OBVIOUS
  <2>2. n - x \in Below
    BY <2>1
  <2> QED BY <1>2, <2>1, <2>2
<1>5. \E x \in S : \A y \in S : x >= y
  BY <1>3, <1>4
<1>6. Max(S) \in S /\ \A y \in S : Max(S) >= y
  BY <1>5, Zenon DEF Max
<1> QED BY <1>6

\* Quotient and remainder of an index that lies below w blocks of size b
\* (the divmod of unrank, 317).
LEMMA DivModFacts ==
  ASSUME NEW x \in Nat, NEW b \in Nat, b > 0, NEW w \in Int, x < w * b
  PROVE  /\ x \div b \in 0..w - 1
         /\ x % b \in 0..b - 1
         /\ x = (x \div b) * b + (x % b)
<1>1. /\ x \div b \in Nat
      /\ x % b \in 0..b - 1
      /\ x = (x \div b) * b + (x % b)
  OBVIOUS
<1>2. ASSUME NEW q \in Nat, q >= w PROVE q * b >= w * b
  BY <1>2
<1>3. x \div b < w
  BY <1>1, <1>2
<1> QED BY <1>1, <1>3

\* The v-th block of size b ends within w blocks (the step of rank, 288-289).
LEMMA BlockFacts ==
  ASSUME NEW v \in Nat, NEW b \in Nat, NEW w \in Int, v < w
  PROVE  /\ v * b \in Nat
         /\ v * b + b <= w * b
<1>1. v * b \in Nat
  OBVIOUS
<1>2. v * b + b = (v + 1) * b
  OBVIOUS
<1>3. ASSUME NEW d \in Nat PROVE (v + 1) * b <= (v + 1 + d) * b
  <2>1. (v + 1 + d) * b = (v + 1) * b + d * b
    OBVIOUS
  <2>2. d * b \in Nat
    OBVIOUS
  <2> QED BY <2>1, <2>2
<1>4. w - v - 1 \in Nat /\ w = v + 1 + (w - v - 1)
  OBVIOUS
<1> QED BY <1>1, <1>2, <1>3, <1>4

-----------------------------------------------------------------------------
(* Recurrences, powers and bit lengths *)

\* There is a function that goes on from z by the steps h.
LEMMA Recurrence ==
  ASSUME NEW N \in Nat, NEW z \in Int, NEW h \in [1..N -> [Int -> Int]]
  PROVE  \E f \in [0..N -> Int] : f[0] = z /\ \A i \in 1..N : f[i] = h[i][f[i - 1]]
<1> DEFINE From(m, f) == /\ f \in [0..m -> Int] /\ f[0] = z
                         /\ \A i \in 1..m : f[i] = h[i][f[i - 1]]
           S == {m \in 0..N : \E f : From(m, f)}
<1>1. 0 \in S
  <2>1. PICK f : f = [i \in 0..0 |-> z]
    OBVIOUS
  <2>2. From(0, f)
    BY <2>1
  <2>3. 0 \in 0..N
    OBVIOUS
  <2> HIDE DEF From
  <2> QED BY <2>2, <2>3
<1>2. ASSUME NEW m \in 0..N - 1, m \in S PROVE m + 1 \in S
  <2>1. PICK f : From(m, f)
    BY <1>2
  <2>2. m + 1 \in 0..N /\ m + 1 \in 1..N /\ (m + 1) - 1 = m
    OBVIOUS
  <2>3. h[m + 1][f[m]] \in Int
    <3>1. h[m + 1] \in [Int -> Int] /\ f[m] \in Int
      BY <2>1, <2>2
    <3> QED BY <3>1
  <2> DEFINE g == [i \in 0..m + 1 |-> IF i = m + 1 THEN h[m + 1][f[m]] ELSE f[i]]
  <2>4. g \in [0..m + 1 -> Int]
    BY <2>1, <2>3
  <2>5. g[m + 1] = h[m + 1][f[m]] /\ \A i \in 0..m : g[i] = f[i]
    <3>1. m + 1 \in 0..m + 1
      OBVIOUS
    <3>2. \A i \in 0..m : i \in 0..m + 1 /\ i # m + 1
      OBVIOUS
    <3> QED BY <3>1, <3>2
  <2> HIDE DEF g
  <2>6. ASSUME NEW i \in 1..m + 1 PROVE g[i] = h[i][g[i - 1]]
    <3>1. CASE i = m + 1
      <4>1. i - 1 = m /\ m \in 0..m
        BY <3>1
      <4> QED BY <2>5, <3>1, <4>1
    <3>2. CASE i # m + 1
      <4>1. i \in 1..m /\ i \in 0..m /\ i - 1 \in 0..m
        BY <3>2
      <4> QED BY <2>1, <2>5, <4>1
    <3> QED BY <3>1, <3>2
  <2>7. g[0] = z
    <3>1. 0 \in 0..m
      OBVIOUS
    <3> QED BY <2>1, <2>5, <3>1
  <2>8. From(m + 1, g)
    BY <2>4, <2>6, <2>7
  <2> QED BY <2>2, <2>8
<1> HIDE DEF S
<1>3. \A m \in 0..N : m \in S
  BY <1>1, <1>2, Upwards
<1>4. N \in S
  BY <1>3
<1> QED BY <1>4 DEF S

\* Power satisfies its equations.
LEMMA PowerUpTo ==
  ASSUME NEW r \in Nat \ {0}, NEW n \in Nat
  PROVE  \E f \in [0..n -> Int] :
           f[0] = 1 /\ (\A k \in 1..n : f[k] = r * f[k - 1]) /\ Power(r, n) = f[n]
<1> DEFINE h == [k \in 1..n |-> [x \in Int |-> r * x]]
<1>1. h \in [1..n -> [Int -> Int]]
  OBVIOUS
<1>2. \A k \in 1..n : \A x \in Int : h[k][x] = r * x
  OBVIOUS
<1> HIDE DEF h
<1>3. PICK f \in [0..n -> Int] : f[0] = 1 /\ \A k \in 1..n : f[k] = h[k][f[k - 1]]
  <2>1. PICK z \in Int : z = 1
    OBVIOUS
  <2>2. \E f \in [0..n -> Int] : f[0] = z /\ \A k \in 1..n : f[k] = h[k][f[k - 1]]
    BY <1>1, Recurrence
  <2> QED BY <2>1, <2>2
<1>4. \A k \in 1..n : f[k] = r * f[k - 1]
  <2>1. \A k \in 1..n : k - 1 \in 0..n
    OBVIOUS
  <2> QED BY <1>2, <1>3, <2>1
<1> DEFINE p == CHOOSE g : g = [k \in 0..n |-> IF k = 0 THEN 1 ELSE r * g[k - 1]]
<1>5. Power(r, n) = p[n]
  BY DEF Power
<1>6. f = [k \in 0..n |-> IF k = 0 THEN 1 ELSE r * f[k - 1]]
  <2>1. \A k \in 0..n : f[k] = IF k = 0 THEN 1 ELSE r * f[k - 1]
    BY <1>3, <1>4
  <2>2. f = [k \in 0..n |-> f[k]]
    OBVIOUS
  <2> QED BY <2>1, <2>2
<1>7. p = [k \in 0..n |-> IF k = 0 THEN 1 ELSE r * p[k - 1]]
  BY <1>6, Zenon
<1> HIDE DEF p
<1> DEFINE S == {k \in 0..n : p[k] = f[k]}
<1>8. 0 \in S
  BY <1>3, <1>7
<1>9. ASSUME NEW k \in 0..n - 1, k \in S PROVE k + 1 \in S
  <2>1. k + 1 \in 0..n /\ k + 1 \in 1..n /\ (k + 1) - 1 = k /\ k + 1 # 0
    OBVIOUS
  <2>2. p[k + 1] = r * p[k] /\ f[k + 1] = r * f[k]
    BY <1>4, <1>7, <2>1
  <2> QED BY <1>9, <2>1, <2>2
<1> HIDE DEF S
<1>10. \A k \in 0..n : k \in S
  BY <1>8, <1>9, Upwards
<1>11. n \in 0..n
  OBVIOUS
<1>12. p[n] = f[n]
  BY <1>10, <1>11 DEF S
<1> QED BY <1>3, <1>4, <1>5, <1>12

LEMMA PowerFacts ==
  ASSUME NEW r \in Nat \ {0}
  PROVE  /\ Power(r, 0) = 1
         /\ \A n \in Nat : Power(r, n + 1) = r * Power(r, n) /\ Power(r, n) \in Nat \ {0}
<1>1. ASSUME NEW n \in Nat, NEW f \in [0..n -> Int], NEW m \in Nat, NEW g \in [0..m -> Int], n <= m,
             f[0] = 1, \A k \in 1..n : f[k] = r * f[k - 1],
             g[0] = 1, \A k \in 1..m : g[k] = r * g[k - 1]
      PROVE  f[n] = g[n] /\ f[n] \in Nat \ {0}
  <2> DEFINE S == {k \in 0..n : f[k] = g[k] /\ f[k] \in Nat \ {0}}
  <2>1. 0 \in S
    BY <1>1
  <2>2. ASSUME NEW k \in 0..n - 1, k \in S PROVE k + 1 \in S
    <3>1. k + 1 \in 0..n /\ k + 1 \in 1..n /\ k + 1 \in 1..m /\ (k + 1) - 1 = k
      BY <1>1
    <3>2. f[k + 1] = r * f[k] /\ g[k + 1] = r * g[k]
      BY <1>1, <3>1
    <3>3. \A x \in Nat \ {0} : r * x \in Nat \ {0}
      OBVIOUS
    <3> QED BY <2>2, <3>1, <3>2, <3>3
  <2> HIDE DEF S
  <2>3. \A k \in 0..n : k \in S
    BY <2>1, <2>2, Upwards
  <2>4. n \in S
    BY <2>3
  <2> QED BY <2>4 DEF S
<1>2. Power(r, 0) = 1
  BY PowerUpTo
<1>3. ASSUME NEW n \in Nat PROVE Power(r, n + 1) = r * Power(r, n) /\ Power(r, n) \in Nat \ {0}
  <2>1. PICK f \in [0..n -> Int] :
          f[0] = 1 /\ (\A k \in 1..n : f[k] = r * f[k - 1]) /\ Power(r, n) = f[n]
    BY PowerUpTo
  <2>2. PICK m \in Nat : m = n + 1
    OBVIOUS
  <2>3. PICK g \in [0..m -> Int] :
          g[0] = 1 /\ (\A k \in 1..m : g[k] = r * g[k - 1]) /\ Power(r, m) = g[m]
    BY PowerUpTo
  <2>4. n <= m /\ m \in 1..m /\ m - 1 = n
    BY <2>2
  <2>5. f[n] = g[n] /\ f[n] \in Nat \ {0}
    BY <1>1, <2>1, <2>3, <2>4
  <2>6. g[m] = r * g[n]
    BY <2>3, <2>4
  <2> QED BY <2>1, <2>2, <2>3, <2>5, <2>6
<1> QED BY <1>2, <1>3

LEMMA PowerSum ==
  ASSUME NEW r \in Nat \ {0}, NEW a \in Nat, NEW b \in Nat
  PROVE  Power(r, a + b) = Power(r, a) * Power(r, b)
<1> DEFINE S == {k \in Nat : Power(r, a + k) = Power(r, a) * Power(r, k)}
<1>1. Power(r, 0) = 1 /\ Power(r, a) \in Nat
  BY PowerFacts
<1>2. 0 \in S
  <2>1. a + 0 = a
    OBVIOUS
  <2> QED BY <1>1, <2>1
<1>3. ASSUME NEW k \in 0..b - 1, k \in S PROVE k + 1 \in S
  <2>1. k \in Nat /\ k + 1 \in Nat /\ a + k \in Nat /\ a + (k + 1) = (a + k) + 1
    OBVIOUS
  <2>2. PICK m \in Nat : m = a + k
    BY <2>1
  <2>3. Power(r, m + 1) = r * Power(r, m) /\ Power(r, k + 1) = r * Power(r, k)
    BY <2>1, PowerFacts
  <2>4. Power(r, k) \in Nat
    BY <2>1, PowerFacts
  <2>5. \A x, y \in Nat : r * (x * y) = x * (r * y)
    OBVIOUS
  <2>6. Power(r, m) = Power(r, a) * Power(r, k)
    BY <1>3, <2>2
  <2>7. Power(r, m + 1) = Power(r, a) * Power(r, k + 1)
    BY <1>1, <2>3, <2>4, <2>5, <2>6
  <2> QED BY <2>1, <2>2, <2>7
<1> HIDE DEF S
<1>4. \A k \in 0..b : k \in S
  BY <1>2, <1>3, Upwards
<1>5. b \in S
  BY <1>4
<1> QED BY <1>5 DEF S

LEMMA PowerOfPower ==
  ASSUME NEW r \in Nat \ {0}, NEW a \in Nat, NEW b \in Nat
  PROVE  Power(Power(r, a), b) = Power(r, a * b)
<1>1. PICK p \in Nat \ {0} : p = Power(r, a)
  BY PowerFacts
<1> DEFINE S == {k \in Nat : Power(p, k) = Power(r, a * k)}
<1>2. 0 \in S
  <2>1. a * 0 = 0
    OBVIOUS
  <2>2. Power(p, 0) = 1 /\ Power(r, 0) = 1
    BY PowerFacts
  <2> QED BY <2>1, <2>2
<1>3. ASSUME NEW k \in 0..b - 1, k \in S PROVE k + 1 \in S
  <2>1. k \in Nat /\ k + 1 \in Nat /\ a * (k + 1) = a + a * k
    OBVIOUS
  <2>2. PICK m \in Nat : m = a * k
    BY <2>1
  <2>3. Power(r, a + m) = Power(r, a) * Power(r, m)
    BY PowerSum
  <2>4. Power(p, k + 1) = p * Power(p, k)
    BY <2>1, PowerFacts
  <2>5. Power(p, k) = Power(r, m)
    BY <1>3, <2>2
  <2>6. Power(p, k + 1) = Power(r, a + m)
    BY <1>1, <2>3, <2>4, <2>5
  <2> QED BY <2>1, <2>2, <2>6
<1> HIDE DEF S
<1>4. \A k \in 0..b : k \in S
  BY <1>2, <1>3, Upwards
<1>5. b \in S
  BY <1>4
<1> QED BY <1>1, <1>5 DEF S

LEMMA PowerMono ==
  ASSUME NEW r \in Nat \ {0}, NEW a \in Nat, NEW b \in Nat, a <= b
  PROVE  Power(r, a) <= Power(r, b)
<1>1. PICK d \in Nat : b = a + d
  <2>1. b - a \in Nat /\ b = a + (b - a)
    OBVIOUS
  <2> QED BY <2>1
<1>2. PICK x \in Nat \ {0}, y \in Nat \ {0} : x = Power(r, a) /\ y = Power(r, d)
  BY PowerFacts
<1>3. Power(r, b) = x * y
  BY <1>1, <1>2, PowerSum
<1>4. x <= x * y
  <2>1. PICK k \in Nat : y = k + 1
    <3>1. y - 1 \in Nat /\ y = (y - 1) + 1
      OBVIOUS
    <3> QED BY <3>1
  <2>2. x * y = x * k + x /\ x * k \in Nat
    BY <2>1
  <2> QED BY <2>2
<1> QED BY <1>2, <1>3, <1>4

\* The bits of a number hold it.
LEMMA BitLengthFacts ==
  ASSUME NEW n \in Nat
  PROVE  BitLength(n) \in 0..n /\ n < Power(2, BitLength(n))
<1> DEFINE S == {k \in Nat : k < Power(2, k)}
           T == {b \in 0..n : n < Power(2, b)}
<1>1. 0 \in S
  BY PowerFacts
<1>2. ASSUME NEW k \in 0..n - 1, k \in S PROVE k + 1 \in S
  <2>1. k \in Nat /\ k + 1 \in Nat
    OBVIOUS
  <2>2. Power(2, k + 1) = 2 * Power(2, k) /\ Power(2, k) \in Nat \ {0}
    BY <2>1, PowerFacts
  <2> QED BY <1>2, <2>1, <2>2
<1> HIDE DEF S
<1>3. \A k \in 0..n : k \in S
  BY <1>1, <1>2, Upwards
<1>4. n \in S
  BY <1>3
<1>5. n \in T
  BY <1>4 DEF S
<1>6. T \subseteq Nat
  OBVIOUS
<1>7. PICK b \in T : \A k \in T : b <= k
  <2> HIDE DEF T
  <2> QED BY <1>5, <1>6, LeastNat
<1>8. \A a \in 0..b - 1 : n >= Power(2, a)
  <2>1. ASSUME NEW a \in 0..b - 1 PROVE n >= Power(2, a)
    <3>1. a \in Nat /\ a \in 0..n /\ a \notin T
      BY <1>7
    <3>2. Power(2, a) \in Nat
      BY <3>1, PowerFacts
    <3> QED BY <3>1, <3>2
  <2> QED BY <2>1
<1>9. b \in 0..n /\ n < Power(2, b)
  BY <1>7
<1> QED BY <1>8, <1>9, Zenon DEF BitLength
=============================================================================
