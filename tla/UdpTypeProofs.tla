---------------------------- MODULE UdpTypeProofs ----------------------------
(***************************************************************************)
(* What the server stores and a subscriber prints of a datagram, for every *)
(* size of the fields, every message and every number of datagrams.  First *)
(* the numbers: powers, ipow, and the conversions to network order.        *)
(***************************************************************************)
EXTENDS UdpType, SequenceLemmas

-----------------------------------------------------------------------------
(* Division. *)

\* Quotient and remainder, and that there are no others.
LEMMA Division ==
    ASSUME NEW a \in Int, NEW m \in Nat \ {0}
    PROVE  /\ a \div m \in Int
           /\ a % m \in 0 .. m - 1
           /\ a = m * (a \div m) + (a % m)
<1>1. a \div m \in Int
  OBVIOUS
<1>2. a % m \in 0 .. m - 1
  OBVIOUS
<1>3. a = m * (a \div m) + (a % m)
  OBVIOUS
<1> QED BY <1>1, <1>2, <1>3

\* Quotient and remainder are determined by the sum they make up.
LEMMA DivisionIs ==
    ASSUME NEW m \in Nat \ {0}, NEW q \in Int, NEW r \in 0 .. m - 1
    PROVE  (m * q + r) % m = r /\ (m * q + r) \div m = q
OBVIOUS

\* A multiple of the word more or less is not seen.
LEMMA MultipleDropped ==
    ASSUME NEW m \in Nat \ {0}, NEW a \in Int, NEW k \in Int
    PROVE  (a + m * k) % m = a % m
<1> DEFINE q == a \div m
           r == a % m
<1>1. q \in Int /\ r \in 0 .. m - 1 /\ a = m * q + r
  BY Division
<1> HIDE DEF q, r
<1>2. m * (q + k) = m * q + m * k
  BY <1>1
<1>3. a + m * k = m * (q + k) + r
  <2>1. m * q \in Int /\ m * k \in Int /\ m * (q + k) \in Int
    BY <1>1
  <2> QED BY <1>1, <1>2, <2>1
<1>4. q + k \in Int
  BY <1>1
<1>5. (m * (q + k) + r) % m = r
  BY <1>1, <1>4, DivisionIs
<1> QED BY <1>3, <1>5 DEF r

\* A factor may be reduced before it is used.
LEMMA FactorReduced ==
    ASSUME NEW m \in Nat \ {0}, NEW a \in Int, NEW b \in Int
    PROVE  ((a % m) * b) % m = (a * b) % m
<1> DEFINE q == a \div m
           r == a % m
<1>1. q \in Int /\ r \in 0 .. m - 1 /\ r \in Int /\ a = m * q + r
  BY Division
<1> HIDE DEF q, r
<1>2. a * b = r * b + m * (q * b)
  <2>1. (m * q + r) * b = (m * q) * b + r * b
    BY <1>1
  <2>2. (m * q) * b = m * (q * b)
    BY <1>1
  <2>3. m * (q * b) \in Int /\ r * b \in Int
    BY <1>1
  <2> QED BY <1>1, <2>1, <2>2, <2>3
<1>3. r * b \in Int /\ q * b \in Int
  BY <1>1
<1>4. (r * b + m * (q * b)) % m = (r * b) % m
  BY <1>3, MultipleDropped
<1> QED BY <1>2, <1>4 DEF r

\* Dividing twice is dividing by the product.
LEMMA DividedTwice ==
    ASSUME NEW n \in Nat, NEW p \in Nat \ {0}, NEW b \in Nat \ {0}
    PROVE  n \div (p * b) = (n \div p) \div b
<1> DEFINE q == n \div p
           r == n % p
           s == q \div b
           t == q % b
<1>1. q \in Int /\ r \in 0 .. p - 1 /\ n = p * q + r
  BY Division
<1> HIDE DEF q, r
<1>2. s \in Int /\ t \in 0 .. b - 1 /\ q = b * s + t
  BY <1>1, Division
<1> HIDE DEF s, t
<1>3. p * b \in Nat \ {0}
  OBVIOUS
<1>4. p * t + r \in 0 .. p * b - 1
  <2>1. t \in Nat /\ r \in Nat /\ t <= b - 1 /\ r <= p - 1
    BY <1>1, <1>2
  <2>2. p * t <= p * (b - 1) /\ p * (b - 1) = p * b - p
    BY <2>1
  <2>3. p * t \in Nat /\ p * b \in Nat
    BY <2>1
  <2> QED BY <2>1, <2>2, <2>3
<1>5. n = (p * b) * s + (p * t + r)
  <2>1. p * (b * s + t) = p * (b * s) + p * t /\ p * (b * s) = (p * b) * s
    BY <1>2
  <2>2. (p * b) * s \in Int /\ p * t \in Int /\ r \in Int
    BY <1>1, <1>2, <1>3
  <2> QED BY <1>1, <1>2, <2>1, <2>2
<1>6. ((p * b) * s + (p * t + r)) \div (p * b) = s
  BY <1>2, <1>3, <1>4, DivisionIs
<1> QED BY <1>5, <1>6 DEF s, q

-----------------------------------------------------------------------------
(* Functions defined by recursion over the natural numbers. *)

\* f begins with z and goes on with step.
Recurs(f, D, z, step) == f = [i \in D |-> IF i = 0 THEN z ELSE step[<<i, f[i - 1]>>]]

Steps(S, z, step) == z \in S /\ step \in [Nat \X S -> S]

\* All natural numbers, or those up to one of them.
Initial(D) == D = Nat \/ \E n \in Nat : D = 0 .. n

\* The values of such a function.
LEMMA RecursValues ==
    ASSUME NEW S, NEW z, NEW step, Steps(S, z, step),
           NEW D, Initial(D),
           NEW f, Recurs(f, D, z, step)
    PROVE  /\ f \in [D -> S]
           /\ f[0] = z
           /\ \A i \in Nat : i + 1 \in D => f[i + 1] = step[<<i + 1, f[i]>>]
<1>1. D \subseteq Nat /\ 0 \in D /\ \A i \in Nat : i + 1 \in D => i \in D
  BY DEF Initial
<1>2. ASSUME NEW i \in D PROVE f[i] = IF i = 0 THEN z ELSE step[<<i, f[i - 1]>>]
  BY DEF Recurs
<1>3. f[0] = z
  BY <1>1, <1>2
<1>4. ASSUME NEW i \in Nat, i + 1 \in D PROVE f[i + 1] = step[<<i + 1, f[i]>>]
  <2>1. f[i + 1] = IF i + 1 = 0 THEN z ELSE step[<<i + 1, f[(i + 1) - 1]>>]
    BY <1>2, <1>4
  <2>2. i + 1 # 0 /\ (i + 1) - 1 = i
    OBVIOUS
  <2> QED BY <2>1, <2>2
<1> DEFINE T == {i \in Nat : i \in D => f[i] \in S}
<1>5. 0 \in T
  BY <1>3 DEF Steps
<1>6. ASSUME NEW i \in Nat, i \in T PROVE i + 1 \in T
  <2> SUFFICES ASSUME i + 1 \in D PROVE f[i + 1] \in S
    OBVIOUS
  <2>1. f[i] \in S
    BY <1>1, <1>6
  <2>2. <<i + 1, f[i]>> \in Nat \X S
    BY <2>1
  <2>3. step[<<i + 1, f[i]>>] \in S
    BY <2>2 DEF Steps
  <2> QED BY <1>4, <2>3
<1> HIDE DEF T
<1>7. Nat \subseteq T
  BY <1>5, <1>6, AllNumbers
<1>8. \A i \in D : f[i] \in S
  BY <1>1, <1>7 DEF T
<1>9. f = [i \in D |-> f[i]]
  BY DEF Recurs
<1> QED BY <1>3, <1>4, <1>8, <1>9

\* There is one up to every number.
LEMMA RecursUpTo ==
    ASSUME NEW S, NEW z, NEW step, Steps(S, z, step)
    PROVE  \A n \in Nat : \E f : Recurs(f, 0 .. n, z, step)
<1> DEFINE T == {n \in Nat : \E f : Recurs(f, 0 .. n, z, step)}
<1>1. 0 \in T
  <2> DEFINE f == [i \in 0 .. 0 |-> z]
             g == [i \in 0 .. 0 |-> IF i = 0 THEN z ELSE step[<<i, f[i - 1]>>]]
  <2>1. \A i \in 0 .. 0 : f[i] = g[i]
    OBVIOUS
  <2>2. f = g
    BY <2>1
  <2> QED BY <2>2 DEF Recurs
<1>2. ASSUME NEW n \in Nat, n \in T PROVE n + 1 \in T
  <2>1. PICK f : Recurs(f, 0 .. n, z, step)
    BY <1>2
  <2>2. \A i \in 0 .. n : f[i] = IF i = 0 THEN z ELSE step[<<i, f[i - 1]>>]
    BY <2>1 DEF Recurs
  <2> DEFINE g == [i \in 0 .. n + 1 |-> IF i \in 0 .. n THEN f[i] ELSE step[<<i, f[i - 1]>>]]
             h == [i \in 0 .. n + 1 |-> IF i = 0 THEN z ELSE step[<<i, g[i - 1]>>]]
  <2>3. ASSUME NEW i \in 0 .. n + 1 PROVE g[i] = h[i]
    <3>1. i # 0 => g[i - 1] = f[i - 1]
      OBVIOUS
    <3>2. CASE i \in 0 .. n
      BY <2>2, <3>1, <3>2
    <3>3. CASE i \notin 0 .. n
      BY <3>1, <3>3
    <3> QED BY <3>2, <3>3
  <2>4. g = h
    BY <2>3
  <2>5. Recurs(g, 0 .. n + 1, z, step)
    BY <2>4 DEF Recurs
  <2> HIDE DEF g, h
  <2> QED BY <2>5
<1> HIDE DEF T
<1>3. Nat \subseteq T
  BY <1>1, <1>2, AllNumbers
<1> QED BY <1>3 DEF T

\* Two of them agree as far as both go.
LEMMA RecursAgree ==
    ASSUME NEW S, NEW z, NEW step, Steps(S, z, step),
           NEW n \in Nat, NEW f, Recurs(f, 0 .. n, z, step),
           NEW m \in Nat, NEW g, Recurs(g, 0 .. m, z, step),
           NEW k \in Nat, k <= n, k <= m
    PROVE  f[k] = g[k]
<1>0. \A l \in Nat : Initial(0 .. l)
  BY DEF Initial
<1>1. /\ f[0] = z
      /\ \A i \in Nat : i + 1 \in 0 .. n => f[i + 1] = step[<<i + 1, f[i]>>]
  BY <1>0, RecursValues
<1>2. /\ g[0] = z
      /\ \A i \in Nat : i + 1 \in 0 .. m => g[i + 1] = step[<<i + 1, g[i]>>]
  BY <1>0, RecursValues
<1> DEFINE T == {i \in Nat : i <= n /\ i <= m => f[i] = g[i]}
<1>3. 0 \in T
  BY <1>1, <1>2
<1>4. ASSUME NEW i \in Nat, i \in T PROVE i + 1 \in T
  <2> SUFFICES ASSUME i + 1 <= n, i + 1 <= m PROVE f[i + 1] = g[i + 1]
    OBVIOUS
  <2>1. f[i] = g[i] /\ i + 1 \in 0 .. n /\ i + 1 \in 0 .. m
    BY <1>4
  <2> QED BY <1>1, <1>2, <2>1
<1> HIDE DEF T
<1>5. Nat \subseteq T
  BY <1>3, <1>4, AllNumbers
<1> QED BY <1>5 DEF T

\* There is one on all of them.
LEMMA RecursEverywhere ==
    ASSUME NEW S, NEW z, NEW step, Steps(S, z, step)
    PROVE  \E f : Recurs(f, Nat, z, step)
<1> DEFINE upTo == [n \in Nat |-> CHOOSE f : Recurs(f, 0 .. n, z, step)]
           g == [n \in Nat |-> upTo[n][n]]
           h == [n \in Nat |-> IF n = 0 THEN z ELSE step[<<n, g[n - 1]>>]]
<1>1. \A n \in Nat : Recurs(upTo[n], 0 .. n, z, step)
  BY RecursUpTo
<1> HIDE DEF upTo
<1>0. \A l \in Nat : Initial(0 .. l)
  BY DEF Initial
<1>2. ASSUME NEW n \in Nat PROVE g[n] = h[n]
  <2>1. CASE n = 0
    <3>1. Recurs(upTo[n], 0 .. n, z, step)
      BY <1>1
    <3>2. upTo[n][0] = z
      BY <1>0, <3>1, RecursValues
    <3> QED BY <2>1, <3>2
  <2>2. CASE n # 0
    <3>1. PICK k \in Nat : n = k + 1
      <4>1. n - 1 \in Nat /\ n = (n - 1) + 1
        BY <2>2
      <4> QED BY <4>1
    <3>2. Recurs(upTo[n], 0 .. n, z, step) /\ Recurs(upTo[k], 0 .. k, z, step)
      BY <1>1
    <3>3. upTo[n][n] = step[<<n, upTo[n][k]>>]
      <4>1. \A i \in Nat : i + 1 \in 0 .. n => upTo[n][i + 1] = step[<<i + 1, upTo[n][i]>>]
        BY <1>0, <3>2, RecursValues
      <4> QED BY <3>1, <4>1
    <3>4. upTo[n][k] = upTo[k][k]
      <4>1. k <= n /\ k <= k
        BY <3>1
      <4> QED BY <3>1, <3>2, <4>1, RecursAgree
    <3>5. n - 1 = k /\ n # 0
      BY <3>1
    <3> QED BY <3>3, <3>4, <3>5
  <2> QED BY <2>1, <2>2
<1>3. g = h
  BY <1>2
<1>4. Recurs(g, Nat, z, step)
  BY <1>3 DEF Recurs
<1> HIDE DEF g, h
<1> QED BY <1>4

-----------------------------------------------------------------------------
(* Powers. *)

PowStep(base) == [x \in Nat \X Nat |-> x[2] * base]

\* Pow is such a function.
LEMMA PowValues ==
    ASSUME NEW base \in Nat
    PROVE  /\ \A n \in Nat : Pow(base, n) \in Nat
           /\ Pow(base, 0) = 1
           /\ \A n \in Nat : Pow(base, n + 1) = Pow(base, n) * base
<1> DEFINE p == CHOOSE f : f = [i \in Nat |-> IF i = 0 THEN 1 ELSE f[i - 1] * base]
           step == PowStep(base)
<1>1. Steps(Nat, 1, step)
  <2>1. ASSUME NEW x \in Nat \X Nat PROVE x[2] * base \in Nat
    OBVIOUS
  <2> QED BY <2>1 DEF Steps, PowStep
<1>2. PICK g : Recurs(g, Nat, 1, step)
  BY <1>1, RecursEverywhere
<1>3. /\ g \in [Nat -> Nat] /\ g[0] = 1
      /\ \A i \in Nat : i + 1 \in Nat => g[i + 1] = step[<<i + 1, g[i]>>]
  <2>1. Initial(Nat)
    BY DEF Initial
  <2> QED BY <1>1, <1>2, <2>1, RecursValues
<1>4. ASSUME NEW i \in Nat PROVE g[i + 1] = g[i] * base
  <2>1. <<i + 1, g[i]>> \in Nat \X Nat
    BY <1>3
  <2>2. step[<<i + 1, g[i]>>] = g[i] * base
    BY <2>1 DEF PowStep
  <2> HIDE DEF step
  <2> QED BY <1>3, <2>2
<1> HIDE DEF step
<1>5. g = [i \in Nat |-> IF i = 0 THEN 1 ELSE g[i - 1] * base]
  <2> DEFINE h == [i \in Nat |-> IF i = 0 THEN 1 ELSE g[i - 1] * base]
  <2>1. ASSUME NEW i \in Nat PROVE g[i] = h[i]
    <3>1. CASE i = 0
      BY <1>3, <3>1
    <3>2. CASE i # 0
      <4>1. i - 1 \in Nat /\ (i - 1) + 1 = i
        BY <3>2
      <4>2. g[(i - 1) + 1] = g[i - 1] * base
        BY <1>4, <4>1
      <4> QED BY <3>2, <4>1, <4>2
    <3> QED BY <3>1, <3>2
  <2>2. g = h
    BY <1>3, <2>1
  <2> QED BY <2>2
<1>6. p = [i \in Nat |-> IF i = 0 THEN 1 ELSE p[i - 1] * base]
  BY <1>5
<1>7. \A n \in Nat : Pow(base, n) = p[n]
  BY DEF Pow
<1> HIDE DEF p
<1>8. p[0] = 1
  BY <1>6
<1>9. ASSUME NEW n \in Nat PROVE p[n + 1] = p[n] * base
  <2>1. p[n + 1] = IF n + 1 = 0 THEN 1 ELSE p[(n + 1) - 1] * base
    BY <1>6
  <2>2. n + 1 # 0 /\ (n + 1) - 1 = n
    OBVIOUS
  <2> QED BY <2>1, <2>2
<1> DEFINE T == {n \in Nat : p[n] \in Nat}
<1>10. 0 \in T
  BY <1>8
<1>11. ASSUME NEW n \in Nat, n \in T PROVE n + 1 \in T
  BY <1>9, <1>11
<1> HIDE DEF T
<1>12. Nat \subseteq T
  BY <1>10, <1>11, AllNumbers
<1>13. \A n \in Nat : p[n] \in Nat
  BY <1>12 DEF T
<1>14. Pow(base, 0) = 1
  BY <1>7, <1>8
<1>15. \A n \in Nat : Pow(base, n) \in Nat
  BY <1>7, <1>13
<1>16. ASSUME NEW n \in Nat PROVE Pow(base, n + 1) = Pow(base, n) * base
  <2>1. Pow(base, n + 1) = p[n + 1] /\ Pow(base, n) = p[n]
    BY <1>7
  <2> QED BY <1>9, <2>1
<1> QED BY <1>14, <1>15, <1>16

\* Powers of a positive number are positive.
LEMMA PowPositive ==
    ASSUME NEW base \in Nat \ {0}
    PROVE  \A n \in Nat : Pow(base, n) \in Nat \ {0}
<1> DEFINE T == {n \in Nat : Pow(base, n) \in Nat \ {0}}
<1>1. 0 \in T
  BY PowValues
<1>2. ASSUME NEW n \in Nat, n \in T PROVE n + 1 \in T
  <2>1. Pow(base, n + 1) = Pow(base, n) * base /\ Pow(base, n) \in Nat \ {0}
    BY <1>2, PowValues
  <2> QED BY <2>1
<1> HIDE DEF T
<1>3. Nat \subseteq T
  BY <1>1, <1>2, AllNumbers
<1> QED BY <1>3 DEF T

\* The power of a square.
LEMMA PowOfSquare ==
    ASSUME NEW base \in Nat
    PROVE  \A n \in Nat : Pow(base * base, n) = Pow(base, n + n)
<1> DEFINE T == {n \in Nat : Pow(base * base, n) = Pow(base, n + n)}
<1>0. base * base \in Nat
  OBVIOUS
<1>1. 0 \in T
  <2>1. Pow(base * base, 0) = 1 /\ Pow(base, 0) = 1
    BY <1>0, PowValues
  <2> QED BY <2>1
<1>2. ASSUME NEW n \in Nat, n \in T PROVE n + 1 \in T
  <2> DEFINE k == n + n
             q == Pow(base, k)
  <2>1. k \in Nat /\ k + 1 \in Nat /\ (n + 1) + (n + 1) = (k + 1) + 1
    OBVIOUS
  <2> HIDE DEF k
  <2>2. Pow(base, (k + 1) + 1) = Pow(base, k + 1) * base /\ Pow(base, k + 1) = q * base
    BY <2>1, PowValues
  <2>3. q \in Nat
    BY <2>1, PowValues
  <2>4. Pow(base * base, n + 1) = Pow(base * base, n) * (base * base)
    BY <1>0, PowValues
  <2>5. Pow(base * base, n) = q
    BY <1>2 DEF k
  <2> HIDE DEF q
  <2>6. (q * base) * base = q * (base * base)
    BY <2>3
  <2>7. Pow(base * base, n + 1) = Pow(base, (k + 1) + 1)
    BY <2>2, <2>4, <2>5, <2>6
  <2> QED BY <2>1, <2>7
<1> HIDE DEF T
<1>3. Nat \subseteq T
  BY <1>1, <1>2, AllNumbers
<1> QED BY <1>3 DEF T

\* The base may be reduced before the power is taken.
LEMMA PowOfReduced ==
    ASSUME NEW base \in Nat, NEW m \in Nat \ {0}
    PROVE  \A n \in Nat : Pow(base % m, n) % m = Pow(base, n) % m
<1> DEFINE b == base % m
           T == {n \in Nat : Pow(b, n) % m = Pow(base, n) % m}
<1>0. b \in Nat
  BY Division
<1>1. 0 \in T
  <2>1. Pow(b, 0) = 1 /\ Pow(base, 0) = 1
    BY <1>0, PowValues
  <2> QED BY <2>1
<1>2. ASSUME NEW n \in Nat, n \in T PROVE n + 1 \in T
  <2> DEFINE p == Pow(b, n)
             q == Pow(base, n)
  <2>1. p \in Nat /\ q \in Nat /\ Pow(b, n + 1) = p * b /\ Pow(base, n + 1) = q * base
    BY <1>0, PowValues
  <2>2. p % m = q % m
    BY <1>2
  <2> HIDE DEF p, q
  <2>3. (p * b) % m = (p * base) % m
    <3>1. p * b = b * p /\ p * base = base * p
      BY <1>0, <2>1
    <3>2. base \in Int /\ p \in Int
      BY <2>1
    <3>3. (b * p) % m = (base * p) % m
      BY <3>2, FactorReduced, Zenon
    <3> QED BY <3>1, <3>3
  <2>4. (p * base) % m = (q * base) % m
    <3>1. base \in Int /\ p \in Int /\ q \in Int
      BY <2>1
    <3>2. ((p % m) * base) % m = (p * base) % m
      BY <3>1, FactorReduced, Zenon
    <3>3. ((q % m) * base) % m = (q * base) % m
      BY <3>1, FactorReduced, Zenon
    <3> QED BY <2>2, <3>2, <3>3
  <2> HIDE DEF b
  <2>5. Pow(b, n + 1) % m = Pow(base, n + 1) % m
    BY <2>1, <2>3, <2>4
  <2> QED BY <2>5
<1> HIDE DEF T
<1>3. Nat \subseteq T
  BY <1>1, <1>2, AllNumbers
<1> QED BY <1>3 DEF T

\* A word has at least two values.
LEMMA WordSize == Word \in Nat \ {0, 1}
<1>1. PICK k \in Nat : IntLen = k + 1
  <2>1. IntLen \in Nat \ {0}
    BY SizesAssumption
  <2>2. IntLen - 1 \in Nat /\ IntLen = (IntLen - 1) + 1
    BY <2>1
  <2> QED BY <2>2
<1>2. Base \in Nat /\ Base >= 2
  BY SizesAssumption
<1>3. Pow(Base, k) \in Nat \ {0} /\ Pow(Base, k + 1) = Pow(Base, k) * Base
  <2>1. Base \in Nat \ {0}
    BY <1>2
  <2>2. Pow(Base, k) \in Nat \ {0}
    BY <2>1, PowPositive
  <2>3. Pow(Base, k + 1) = Pow(Base, k) * Base
    BY <1>2, PowValues
  <2> QED BY <2>2, <2>3
<1> DEFINE p == Pow(Base, k)
<1> HIDE DEF p
<1>4. p \in Nat \ {0} /\ Word = p * Base
  BY <1>1, <1>3 DEF Word, p
<1>5. p * Base >= 2 /\ p * Base \in Nat
  BY <1>2, <1>4
<1> QED BY <1>4, <1>5

-----------------------------------------------------------------------------
(* ipow: its loop, and the power reduced after every factor. *)

\* Numbers that are the same modulo m.
Same(a, b, m) == a % m = b % m

\* They stay the same when they are multiplied.
LEMMA SameProducts ==
    ASSUME NEW m \in Nat \ {0}, NEW a \in Int, NEW b \in Int, Same(a, b, m), NEW c \in Int
    PROVE  Same(a * c, b * c, m) /\ Same(c * a, c * b, m)
<1>1. ((a % m) * c) % m = (a * c) % m
  BY FactorReduced, Zenon
<1>2. ((b % m) * c) % m = (b * c) % m
  BY FactorReduced, Zenon
<1>3. Same(a * c, b * c, m)
  BY <1>1, <1>2 DEF Same
<1>4. a * c = c * a /\ b * c = c * b
  OBVIOUS
<1> QED BY <1>3, <1>4

\* Reducing keeps a number the same.
LEMMA SameReduced ==
    ASSUME NEW m \in Nat \ {0}, NEW a \in Int
    PROVE  Same(a % m, a, m)
<1>1. a % m \in 0 .. m - 1 /\ 0 \in Int
  BY Division
<1> DEFINE r == a % m
<1>2. r \in 0 .. m - 1
  BY <1>1
<1> HIDE DEF r
<1>3. (m * 0 + r) % m = r
  BY <1>2, DivisionIs
<1>4. m * 0 + r = r
  BY <1>2
<1>5. r % m = r
  BY <1>3, <1>4
<1> QED BY <1>5 DEF r, Same

\* The variables of the loop.
Loops == [base : Nat, exp : Nat, base_to_exp : Nat]

LoopStep == [x \in Nat \X Loops |-> LoopBody(x[2])]

\* What every pass keeps: the power still to come, times the result so far.
LoopOK(base, exp, i, l) ==
    /\ l \in Loops
    /\ l.base_to_exp < Word
    /\ Same(l.base_to_exp * Pow(l.base, l.exp), Pow(base, exp), Word)
    /\ l.exp + i <= exp \/ l.exp = 0

\* The variables stay in their ranges.
LEMMA LoopTypes ==
    ASSUME NEW l \in Loops
    PROVE  LoopBody(l) \in Loops
<1>1. l.base \in Nat /\ l.exp \in Nat /\ l.base_to_exp \in Nat
  BY DEF Loops
<1>2. \A n \in Nat : n % Word \in Nat
  BY WordSize, Division
<1>3. (l.base * l.base) % Word \in Nat /\ (l.base_to_exp * l.base) % Word \in Nat
  <2>1. l.base * l.base \in Nat /\ l.base_to_exp * l.base \in Nat
    BY <1>1
  <2> QED BY <1>2, <2>1
<1>4. l.exp \div 2 \in Nat
  BY <1>1
<1> QED BY <1>1, <1>3, <1>4 DEF LoopBody, Loops

\* A pass of the loop keeps the invariant.
LEMMA LoopKeeps ==
    ASSUME NEW base \in Nat, NEW exp \in Nat, NEW i \in Nat, NEW l, LoopOK(base, exp, i, l)
    PROVE  LoopOK(base, exp, i + 1, LoopBody(l))
<1> DEFINE b == l.base
           e == l.exp
           r == l.base_to_exp
           h == e \div 2
           t == e % 2
           q == Pow(b * b, h)
           p == Pow((b * b) % Word, h)
           n == LoopBody(l)
<1>1. /\ b \in Nat /\ e \in Nat /\ r \in Nat /\ r < Word
      /\ Same(r * Pow(b, e), Pow(base, exp), Word)
      /\ e + i <= exp \/ e = 0
  BY DEF LoopOK, Loops
<1>2. CASE e = 0
  <2>1. LoopBody(l) = l
    BY <1>2 DEF LoopBody
  <2> QED BY <1>2, <2>1 DEF LoopOK
<1>3. CASE e # 0
  <2>1. n = [base |-> (b * b) % Word, exp |-> h,
             base_to_exp |-> IF t = 1 THEN (r * b) % Word ELSE r]
    BY <1>3 DEF LoopBody
  <2>2. n \in Loops
    BY LoopTypes DEF LoopOK
  <2>3. h \in Nat /\ t \in {0, 1} /\ e = (h + h) + t /\ h < e
    BY <1>1, <1>3
  <2>4. Word \in Nat \ {0} /\ Word \in Int
    BY WordSize
  <2>5. b * b \in Nat /\ (b * b) % Word \in Nat
    <3>1. b * b \in Nat
      BY <1>1
    <3> QED BY <2>4, <3>1, Division
  <2> HIDE DEF h, t
  <2>6. p \in Nat /\ q \in Nat /\ Same(p, q, Word)
    <3>1. Pow((b * b) % Word, h) % Word = Pow(b * b, h) % Word
      BY <2>3, <2>4, <2>5, PowOfReduced
    <3> QED BY <2>3, <2>5, <3>1, PowValues DEF Same
  <2>7. Pow(b, h + h) = q
    BY <1>1, <2>3, PowOfSquare
  <2> DEFINE s == n.base_to_exp
  <2>8. s \in Nat /\ s < Word /\ Same(s * p, r * Pow(b, e), Word)
    <3>1. CASE t = 0
      <4>1. s = r /\ e = h + h
        BY <2>1, <2>3, <3>1
      <4> HIDE DEF s, p, q, r
      <4>2. Same(r * p, r * q, Word)
        <5>1. p \in Int /\ q \in Int /\ r \in Int
          BY <1>1, <2>6
        <5> QED BY <2>4, <2>6, <5>1, SameProducts, Zenon
      <4> QED BY <1>1, <2>7, <4>1, <4>2
    <3>2. CASE t = 1
      <4>1. s = (r * b) % Word /\ e = (h + h) + 1
        BY <2>1, <2>3, <3>2
      <4>2. Pow(b, e) = q * b
        <5>1. h + h \in Nat
          BY <2>3
        <5>2. Pow(b, (h + h) + 1) = Pow(b, h + h) * b
          BY <1>1, <5>1, PowValues
        <5> QED BY <2>7, <4>1, <5>2
      <4> HIDE DEF s, p, q, r, b, e
      <4>3. r * b \in Int /\ r * b \in Nat /\ p \in Int /\ q \in Int
        BY <1>1, <2>6
      <4>4. s \in Nat /\ s < Word
        <5>1. (r * b) % Word \in 0 .. Word - 1
          BY <2>4, <4>3, Division, Zenon
        <5> QED BY <2>4, <4>1, <5>1
      <4>5. Same(s, r * b, Word) /\ s \in Int
        BY <2>4, <4>1, <4>3, <4>4, SameReduced
      <4>6. Same(s * p, (r * b) * p, Word)
        BY <2>4, <4>3, <4>5, SameProducts, Zenon
      <4>7. Same((r * b) * p, (r * b) * q, Word)
        BY <2>4, <2>6, <4>3, SameProducts, Zenon
      <4>8. (r * b) * q = r * (q * b)
        BY <1>1, <2>6
      <4>9. Same(s * p, r * (q * b), Word)
        BY <4>6, <4>7, <4>8 DEF Same
      <4> QED BY <4>2, <4>4, <4>9
    <3> QED BY <2>3, <3>1, <3>2
  <2>9. n.base = (b * b) % Word /\ n.exp = h
    BY <2>1
  <2>10. Same(s * Pow(n.base, n.exp), Pow(base, exp), Word)
    BY <1>1, <2>8, <2>9 DEF Same
  <2>11. n.exp + (i + 1) <= exp \/ n.exp = 0
    <3> HIDE DEF e, n
    <3> QED BY <1>1, <1>3, <2>3, <2>9
  <2> QED BY <2>2, <2>8, <2>10, <2>11 DEF LoopOK
<1> QED BY <1>2, <1>3

\* ipow is the result after enough passes.
LEMMA IpowRuns ==
    ASSUME NEW base \in Nat, NEW exp \in Nat
    PROVE  \E f : /\ f[0] = [base |-> base, exp |-> exp, base_to_exp |-> 1]
                  /\ \A i \in Nat : i + 1 \in 0 .. exp => f[i + 1] = LoopBody(f[i])
                  /\ ipow(base, exp) = f[exp].base_to_exp
<1> DEFINE z == [base |-> base, exp |-> exp, base_to_exp |-> 1]
           step == LoopStep
           body(f) == [i \in 0 .. exp |-> IF i = 0 THEN z ELSE LoopBody(f[i - 1])]
           p == CHOOSE f : f = body(f)
<1>1. Steps(Loops, z, step)
  <2>1. z \in Loops
    BY DEF Loops
  <2>2. LoopStep \in [Nat \X Loops -> Loops]
    <3>1. \A x \in Nat \X Loops : LoopBody(x[2]) \in Loops
      BY LoopTypes
    <3> QED BY <3>1 DEF LoopStep
  <2> QED BY <2>1, <2>2 DEF Steps
<1> HIDE DEF z, step
<1>2. PICK g : Recurs(g, 0 .. exp, z, step)
  BY <1>1, RecursUpTo
<1>3. /\ g \in [0 .. exp -> Loops] /\ g[0] = z
      /\ \A i \in Nat : i + 1 \in 0 .. exp => g[i + 1] = step[<<i + 1, g[i]>>]
  <2>1. Initial(0 .. exp)
    BY DEF Initial
  <2> QED BY <1>1, <1>2, <2>1, RecursValues
<1>4. ASSUME NEW i \in Nat, i + 1 \in 0 .. exp PROVE g[i + 1] = LoopBody(g[i])
  <2>1. <<i + 1, g[i]>> \in Nat \X Loops
    BY <1>3, <1>4
  <2>2. step[<<i + 1, g[i]>>] = LoopBody(g[i])
    BY <2>1 DEF LoopStep, step
  <2> QED BY <1>3, <1>4, <2>2
<1>5. g = body(g)
  <2>1. ASSUME NEW i \in 0 .. exp PROVE g[i] = body(g)[i]
    <3>1. CASE i = 0
      BY <1>3, <3>1
    <3>2. CASE i # 0
      <4>1. i - 1 \in Nat /\ (i - 1) + 1 = i /\ (i - 1) + 1 \in 0 .. exp
        BY <3>2
      <4>2. g[(i - 1) + 1] = LoopBody(g[i - 1])
        BY <1>4, <4>1
      <4> QED BY <3>2, <4>1, <4>2
    <3> QED BY <3>1, <3>2
  <2>2. DOMAIN g = 0 .. exp /\ g = [i \in 0 .. exp |-> g[i]]
    BY <1>3
  <2> QED BY <2>1, <2>2
<1>6. p = body(p)
  BY <1>5
<1>7. ipow(base, exp) = p[exp].base_to_exp
  BY DEF ipow, z
<1> HIDE DEF p
<1>8. p[0] = z
  BY <1>6
<1>9. ASSUME NEW i \in Nat, i + 1 \in 0 .. exp PROVE p[i + 1] = LoopBody(p[i])
  <2>1. p[i + 1] = IF i + 1 = 0 THEN z ELSE LoopBody(p[(i + 1) - 1])
    BY <1>6, <1>9
  <2>2. i + 1 # 0 /\ (i + 1) - 1 = i
    OBVIOUS
  <2> QED BY <2>1, <2>2
<1> QED BY <1>7, <1>8, <1>9 DEF z

\* It is the power modulo 2^32.
LEMMA IpowModulo ==
    ASSUME NEW base \in Nat, NEW exp \in Nat
    PROVE  ipow(base, exp) = Pow(base, exp) % Word
<1>1. PICK f : /\ f[0] = [base |-> base, exp |-> exp, base_to_exp |-> 1]
               /\ \A i \in Nat : i + 1 \in 0 .. exp => f[i + 1] = LoopBody(f[i])
               /\ ipow(base, exp) = f[exp].base_to_exp
  BY IpowRuns
<1> DEFINE T == {i \in Nat : i <= exp => LoopOK(base, exp, i, f[i])}
<1>2. Pow(base, exp) \in Nat
  BY PowValues
<1>3. Word \in Nat \ {0, 1}
  BY WordSize
<1>4. 0 \in T
  <2>1. f[0] \in Loops
    BY <1>1 DEF Loops
  <2>2. f[0].base = base /\ f[0].exp = exp /\ f[0].base_to_exp = 1
    BY <1>1
  <2>3. Same(1 * Pow(base, exp), Pow(base, exp), Word)
    <3>1. 1 * Pow(base, exp) = Pow(base, exp)
      BY <1>2
    <3> QED BY <3>1 DEF Same
  <2>4. LoopOK(base, exp, 0, f[0])
    BY <1>3, <2>1, <2>2, <2>3 DEF LoopOK
  <2> QED BY <2>4
<1>5. ASSUME NEW i \in Nat, i \in T PROVE i + 1 \in T
  <2> SUFFICES ASSUME i + 1 <= exp PROVE LoopOK(base, exp, i + 1, f[i + 1])
    OBVIOUS
  <2>1. LoopOK(base, exp, i, f[i]) /\ i + 1 \in 0 .. exp
    BY <1>5
  <2>2. f[i + 1] = LoopBody(f[i])
    BY <1>1, <2>1
  <2> QED BY <2>1, <2>2, LoopKeeps
<1> HIDE DEF T
<1>6. Nat \subseteq T
  BY <1>4, <1>5, AllNumbers
<1>7. LoopOK(base, exp, exp, f[exp])
  BY <1>6 DEF T
<1> DEFINE l == f[exp]
           r == l.base_to_exp
<1>8. /\ r \in Nat /\ r < Word /\ l.base \in Nat /\ l.exp = 0
      /\ Same(r * Pow(l.base, l.exp), Pow(base, exp), Word)
  <2>1. /\ l.exp \in Nat /\ l.base \in Nat /\ r \in Nat
        /\ l.exp + exp <= exp \/ l.exp = 0
    BY <1>7 DEF LoopOK, Loops
  <2>2. l.exp = 0
    BY <2>1
  <2> QED BY <1>7, <2>1, <2>2 DEF LoopOK
<1>9. Pow(l.base, 0) = 1
  BY <1>8, PowValues
<1>10. Same(r * 1, Pow(base, exp), Word)
  BY <1>8, <1>9
<1> HIDE DEF r
<1>11. r * 1 = r /\ r % Word = r
  <2>1. (Word * 0 + r) % Word = r
    BY <1>3, <1>8, DivisionIs
  <2>2. Word * 0 + r = r
    BY <1>3, <1>8
  <2> QED BY <1>8, <2>1, <2>2
<1>12. r = Pow(base, exp) % Word
  BY <1>10, <1>11 DEF Same
<1> QED BY <1>1, <1>12 DEF r

\* So is the power that is reduced after every factor.
LEMMA PowerModulo ==
    ASSUME NEW base \in Nat, NEW exp \in Nat
    PROVE  Power(base, exp) = Pow(base, exp) % Word
<1> DEFINE g == [i \in Nat |-> Pow(base, i) % Word]
           body(f) == [i \in Nat |-> IF i = 0 THEN 1 ELSE (f[i - 1] * base) % Word]
           p == CHOOSE f : f = body(f)
<1>1. Word \in Nat \ {0} /\ 1 % Word = 1
  <2>1. Word \in Nat \ {0, 1}
    BY WordSize
  <2>2. (Word * 0 + 1) % Word = 1
    BY <2>1, DivisionIs
  <2>3. Word * 0 + 1 = 1
    BY <2>1
  <2> QED BY <2>1, <2>2, <2>3
<1>2. ASSUME NEW i \in Nat
      PROVE  ((Pow(base, i) % Word) * base) % Word = Pow(base, i + 1) % Word
  <2>1. Pow(base, i) \in Int /\ base \in Int
    BY PowValues
  <2>2. ((Pow(base, i) % Word) * base) % Word = (Pow(base, i) * base) % Word
    BY <1>1, <2>1, FactorReduced, Zenon
  <2> QED BY <2>2, PowValues
<1>3. g = body(g)
  <2>1. ASSUME NEW i \in Nat PROVE g[i] = body(g)[i]
    <3>1. CASE i = 0
      BY <1>1, <3>1, PowValues
    <3>2. CASE i # 0
      <4>1. i - 1 \in Nat /\ (i - 1) + 1 = i
        BY <3>2
      <4>2. ((Pow(base, i - 1) % Word) * base) % Word = Pow(base, i) % Word
        BY <1>2, <4>1
      <4>3. g[i - 1] = Pow(base, i - 1) % Word
        BY <4>1
      <4> QED BY <3>2, <4>2, <4>3
    <3> QED BY <3>1, <3>2
  <2> QED BY <2>1
<1>4. p = body(p)
  BY <1>3
<1>5. Power(base, exp) = p[exp]
  BY DEF Power
<1> HIDE DEF g, p
<1>6. p[0] = 1
  BY <1>4
<1>7. ASSUME NEW i \in Nat PROVE p[i + 1] = (p[i] * base) % Word
  <2>1. p[i + 1] = IF i + 1 = 0 THEN 1 ELSE (p[(i + 1) - 1] * base) % Word
    BY <1>4
  <2>2. i + 1 # 0 /\ (i + 1) - 1 = i
    OBVIOUS
  <2> QED BY <2>1, <2>2
<1> DEFINE T == {i \in Nat : p[i] = Pow(base, i) % Word}
<1>8. 0 \in T
  BY <1>1, <1>6, PowValues
<1>9. ASSUME NEW i \in Nat, i \in T PROVE i + 1 \in T
  <2>1. p[i] = Pow(base, i) % Word
    BY <1>9
  <2>2. p[i + 1] = Pow(base, i + 1) % Word
    BY <1>2, <1>7, <2>1
  <2> QED BY <2>2
<1> HIDE DEF T
<1>10. Nat \subseteq T
  BY <1>8, <1>9, AllNumbers
<1> QED BY <1>5, <1>10 DEF T

\* The loop computes the power.
LEMMA IpowIsPower ==
    ASSUME NEW base \in Nat, NEW exp \in Nat
    PROVE  ipow(base, exp) = Power(base, exp)
BY IpowModulo, PowerModulo

\* What fits into a word is not reduced.
LEMMA SmallModulo ==
    ASSUME NEW m \in Nat \ {0}, NEW n \in Nat, n < m
    PROVE  n % m = n
<1>1. (m * 0 + n) % m = n
  BY DivisionIs
<1>2. m * 0 + n = n
  OBVIOUS
<1> QED BY <1>1, <1>2

-----------------------------------------------------------------------------
(* The order of the network. *)

\* A number comes back from the network as it went.
LEMMA NtohOfHton ==
    ASSUME NEW len \in Nat, NEW n \in Nat, n < Pow(Base, len)
    PROVE  Ntoh(Hton(n, len)) = n
<1> DEFINE s == Hton(n, len)
           q == [i \in Nat |-> Pow(Base, i)]
           g == [i \in 0 .. len |-> n \div Pow(Base, len - i)]
           body(f) == [i \in 0 .. len |-> IF i = 0 THEN 0 ELSE f[i - 1] * Base + s[i]]
           p == CHOOSE f : f = body(f)
<1>1. Base \in Nat \ {0}
  BY SizesAssumption
<1>2. \A i \in Nat : Pow(Base, i) \in Nat \ {0} /\ Pow(Base, i + 1) = Pow(Base, i) * Base
  BY <1>1, PowPositive, PowValues
<1>3. /\ \A i \in 1 .. len : s[i] = (n \div Pow(Base, len - i)) % Base
      /\ Len(s) = len
  <2>1. s = [i \in 1 .. len |-> (n \div Pow(Base, len - i)) % Base]
    BY DEF Hton
  <2> HIDE DEF s
  <2>2. \A i \in 1 .. len : s[i] = (n \div Pow(Base, len - i)) % Base
    BY <2>1
  <2>3. s \in Seq(Int)
    <3>1. \A i \in 1 .. len : (n \div Pow(Base, len - i)) % Base \in Int
      <4> SUFFICES ASSUME NEW i \in 1 .. len
                   PROVE  (n \div Pow(Base, len - i)) % Base \in Int
        OBVIOUS
      <4> DEFINE c == Pow(Base, len - i)
      <4>1. c \in Nat \ {0}
        BY <1>2
      <4> HIDE DEF c
      <4>2. n \div c \in Int
        BY <4>1
      <4>3. (n \div c) % Base \in Int
        BY <1>1, <4>2
      <4> QED BY <4>3 DEF c
    <3>2. s \in [1 .. len -> Int]
      BY <2>1, <3>1
    <3> QED BY <3>2
  <2>4. DOMAIN s = 1 .. len
    BY <2>1
  <2>5. Len(s) = len
    BY <2>3, <2>4, LenProperties
  <2> QED BY <2>2, <2>5
<1>4. ASSUME NEW i \in 1 .. len
      PROVE  n \div Pow(Base, len - i) = (n \div Pow(Base, len - (i - 1))) * Base + s[i]
  <2> DEFINE c == Pow(Base, len - i)
             a == n \div c
  <2>1. len - i \in Nat /\ len - (i - 1) = (len - i) + 1
    OBVIOUS
  <2>2. c \in Nat \ {0} /\ Pow(Base, len - (i - 1)) = c * Base
    BY <1>2, <2>1
  <2> HIDE DEF c
  <2>3. n \div (c * Base) = a \div Base
    BY <1>1, <2>2, DividedTwice
  <2>4. a \in Int
    BY <2>2, Division
  <2> HIDE DEF a
  <2>5. a = Base * (a \div Base) + (a % Base) /\ a \div Base \in Int
    BY <1>1, <2>4, Division
  <2>6. s[i] = a % Base
    BY <1>3 DEF a, c
  <2>7. a = (a \div Base) * Base + s[i]
    <3>1. Base * (a \div Base) = (a \div Base) * Base
      BY <1>1, <2>5
    <3> QED BY <2>5, <2>6, <3>1
  <2> QED BY <2>2, <2>3, <2>7 DEF a, c
<1>5. n \div Pow(Base, len) = 0
  <2>1. Pow(Base, len) \in Nat \ {0}
    BY <1>2
  <2> DEFINE c == Pow(Base, len)
  <2> HIDE DEF c
  <2>2. (c * 0 + n) \div c = 0
    <3>1. n \in 0 .. c - 1 /\ c \in Nat \ {0}
      BY <2>1 DEF c
    <3> QED BY <3>1, DivisionIs
  <2>3. c * 0 + n = n
    BY <2>1 DEF c
  <2> QED BY <2>2, <2>3 DEF c
<1> HIDE DEF s
<1>6. g = body(g)
  <2>1. ASSUME NEW i \in 0 .. len PROVE g[i] = body(g)[i]
    <3>1. CASE i = 0
      <4>1. g[0] = n \div Pow(Base, len - 0) /\ len - 0 = len
        OBVIOUS
      <4> QED BY <1>5, <3>1, <4>1
    <3>2. CASE i # 0
      <4>1. i \in 1 .. len /\ i - 1 \in 0 .. len
        BY <3>2
      <4>2. g[i - 1] = n \div Pow(Base, len - (i - 1))
        BY <4>1
      <4>3. g[i] = n \div Pow(Base, len - i)
        OBVIOUS
      <4>4. body(g)[i] = g[i - 1] * Base + s[i]
        BY <3>2
      <4> HIDE DEF g
      <4> QED BY <1>4, <4>1, <4>2, <4>3, <4>4
    <3> QED BY <3>1, <3>2
  <2> QED BY <2>1
<1>7. p = body(p)
  BY <1>6
<1>8. Ntoh(s) = p[len]
  BY <1>3 DEF Ntoh
<1> HIDE DEF p, g
<1> DEFINE T == {i \in Nat : i <= len => p[i] = n \div Pow(Base, len - i)}
<1>9. 0 \in T
  <2>1. p[0] = 0
    BY <1>7
  <2>2. len - 0 = len
    OBVIOUS
  <2> QED BY <1>5, <2>1, <2>2
<1>10. ASSUME NEW i \in Nat, i \in T PROVE i + 1 \in T
  <2> SUFFICES ASSUME i + 1 <= len PROVE p[i + 1] = n \div Pow(Base, len - (i + 1))
    OBVIOUS
  <2>1. p[i] = n \div Pow(Base, len - i)
    BY <1>10
  <2>2. i + 1 \in 1 .. len /\ (i + 1) - 1 = i /\ i + 1 # 0
    OBVIOUS
  <2>3. p[i + 1] = IF i + 1 = 0 THEN 0 ELSE p[(i + 1) - 1] * Base + s[i + 1]
    BY <1>7, <2>2
  <2>4. n \div Pow(Base, len - (i + 1)) =
            (n \div Pow(Base, len - ((i + 1) - 1))) * Base + s[i + 1]
    BY <1>4, <2>2
  <2> QED BY <2>1, <2>2, <2>3, <2>4
<1> HIDE DEF T
<1>11. Nat \subseteq T
  BY <1>9, <1>10, AllNumbers
<1>12. p[len] = n \div Pow(Base, len - len)
  BY <1>11 DEF T
<1>13. n \div Pow(Base, 0) = n
  <2>1. Pow(Base, 0) = 1
    BY <1>1, PowValues
  <2> QED BY <2>1
<1>14. len - len = 0
  OBVIOUS
<1> QED BY <1>8, <1>12, <1>13, <1>14 DEF s

-----------------------------------------------------------------------------
(* Strings in a buffer. *)

\* The n bytes behind place k.
LEMMA CutOfSeq ==
    ASSUME NEW S, NEW s \in Seq(S), NEW k \in Nat, NEW n \in Nat, k + n <= Len(s)
    PROVE  /\ SubSeq(s, k + 1, k + n) \in Seq(S)
           /\ Len(SubSeq(s, k + 1, k + n)) = n
           /\ \A i \in 1 .. n : SubSeq(s, k + 1, k + n)[i] = s[k + i]
<1> DEFINE a == k + 1
           b == k + n
           u == SubSeq(s, a, b)
<1>1. Len(s) \in Nat /\ a \in Int /\ b \in Int
  BY LenProperties
<1>2. \A i \in a .. b : s[i] \in S
  BY <1>1, ElementOfSeq
<1> HIDE DEF a, b
<1>3. /\ u \in Seq(S)
      /\ Len(u) = IF a <= b THEN b - a + 1 ELSE 0
      /\ \A i \in 1 .. b - a + 1 : u[i] = s[a + i - 1]
  BY <1>1, <1>2, SubSeqProperties
<1> HIDE DEF u
<1>4. Len(u) = n
  BY <1>3 DEF a, b
<1>5. ASSUME NEW i \in 1 .. n PROVE u[i] = s[k + i]
  <2>1. i \in 1 .. b - a + 1 /\ a + i - 1 = k + i
    BY DEF a, b
  <2> QED BY <1>3, <2>1
<1> QED BY <1>3, <1>4, <1>5 DEF u, a, b

\* The first n.
LEMMA HeadOfSeq ==
    ASSUME NEW S, NEW s \in Seq(S), NEW n \in Nat, n <= Len(s)
    PROVE  /\ SubSeq(s, 1, n) \in Seq(S)
           /\ Len(SubSeq(s, 1, n)) = n
           /\ \A i \in 1 .. n : SubSeq(s, 1, n)[i] = s[i]
<1>1. 0 + n <= Len(s) /\ 0 + 1 = 1 /\ 0 + n = n /\ \A i \in 1 .. n : 0 + i = i
  BY LenProperties
<1>2. /\ SubSeq(s, 0 + 1, 0 + n) \in Seq(S)
      /\ Len(SubSeq(s, 0 + 1, 0 + n)) = n
      /\ \A i \in 1 .. n : SubSeq(s, 0 + 1, 0 + n)[i] = s[0 + i]
  <2>1. 0 \in Nat
    OBVIOUS
  <2> QED BY <1>1, <2>1, CutOfSeq, Zenon
<1> QED BY <1>1, <1>2

\* A C string goes up to the first zero, or to the end.
Ends(s, n) ==
    /\ n \in 0 .. Len(s)
    /\ \A i \in 1 .. n : s[i] # 0
    /\ n < Len(s) => s[n + 1] = 0

\* The CHOOSE of CString finds that end.
LEMMA StringEnds ==
    ASSUME NEW S, NEW s \in Seq(S), NEW n, Ends(s, n)
    PROVE  CString(s) = SubSeq(s, 1, n)
<1> DEFINE ends == {i \in DOMAIN s : s[i] = 0}
           least == CHOOSE i \in ends : \A j \in ends : i <= j
<1>1. /\ Len(s) \in Nat /\ DOMAIN s = 1 .. Len(s)
      /\ n \in 0 .. Len(s) /\ (\A i \in 1 .. n : s[i] # 0) /\ (n < Len(s) => s[n + 1] = 0)
  BY LenProperties DEF Ends
<1>2. CString(s) = IF ends = {} THEN s ELSE SubSeq(s, 1, least - 1)
  BY DEF CString
<1>3. CASE n = Len(s)
  <2>1. ends = {}
    BY <1>1, <1>3
  <2>2. SubSeq(s, 1, n) = s
    <3> DEFINE u == SubSeq(s, 1, n)
    <3>2. u \in Seq(S) /\ Len(u) = n /\ \A i \in 1 .. n : u[i] = s[i]
      BY <1>1, <1>3, HeadOfSeq
    <3> HIDE DEF u
    <3>3. u = s
      BY <1>1, <1>3, <3>2, SeqEqual
    <3> QED BY <3>3 DEF u
  <2> QED BY <1>2, <2>1, <2>2
<1>4. CASE n < Len(s)
  <2>1. n + 1 \in ends /\ \A j \in ends : n + 1 <= j
    BY <1>1, <1>4
  <2>2. least \in ends /\ \A j \in ends : least <= j
    BY <2>1
  <2>3. ends \subseteq Nat
    BY <1>1
  <2> HIDE DEF least
  <2>4. least = n + 1
    <3>1. least <= n + 1 /\ n + 1 <= least /\ least \in Nat /\ n \in Nat
      BY <1>1, <2>1, <2>2, <2>3
    <3> QED BY <3>1
  <2>5. least - 1 = n /\ ends # {}
    BY <1>1, <2>1, <2>4
  <2> HIDE DEF ends
  <2> QED BY <1>2, <2>5
<1>5. n = Len(s) \/ n < Len(s)
  <2>1. Len(s) \in Nat /\ n \in 0 .. Len(s)
    BY LenProperties DEF Ends
  <2> QED BY <2>1
<1> QED BY <1>3, <1>4, <1>5

\* Every sequence has such an end.
LEMMA SomeEnd ==
    ASSUME NEW S, NEW s \in Seq(S)
    PROVE  \E n : Ends(s, n)
<1> DEFINE T == {i \in 1 .. Len(s) : s[i] = 0}
<1>0. Len(s) \in Nat
  BY LenProperties
<1>1. CASE T = {}
  <2>1. Ends(s, Len(s))
    BY <1>0, <1>1 DEF Ends
  <2> QED BY <2>1
<1>2. CASE T # {}
  <2>1. T \subseteq Nat
    BY <1>0
  <2>2. PICK x \in T : \A y \in T : x <= y
    BY <1>2, <2>1, LeastNumber
  <2>3. x \in 1 .. Len(s) /\ s[x] = 0 /\ \A i \in 1 .. Len(s) : s[i] = 0 => x <= i
    BY <2>2
  <2>4. x - 1 \in 0 .. Len(s) /\ (x - 1) + 1 = x
    BY <1>0, <2>3
  <2>5. \A i \in 1 .. x - 1 : s[i] # 0
    BY <1>0, <2>3
  <2>6. Ends(s, x - 1)
    BY <2>3, <2>4, <2>5 DEF Ends
  <2> QED BY <2>6
<1> QED BY <1>1, <1>2

-----------------------------------------------------------------------------
(* A datagram and the buffer it is received into. *)

\* The constants, one by one.
LEMMA Sizes ==
    /\ Base \in Nat \ {0, 1} /\ Word \in Nat \ {0, 1}
    /\ IntLen \in Nat \ {0} /\ ShortLen \in Nat \ {0}
    /\ TopicLen \in Nat \ {0} /\ StringLen \in Nat \ {0}
    /\ IntLen + 2 < StringLen /\ ShortLen < StringLen
    /\ 0 \in Byte
<1>1. Base \in Nat \ {0, 1}
  BY SizesAssumption
<1>2. 0 \in Byte
  BY <1>1 DEF Byte
<1> QED BY <1>1, <1>2, SizesAssumption, WordSize

\* A number in network order has as many bytes as it is given.
LEMMA HtonBytes ==
    ASSUME NEW n \in Nat, NEW len \in Nat
    PROVE  Hton(n, len) \in Seq(Byte) /\ Len(Hton(n, len)) = len
<1> DEFINE s == Hton(n, len)
<1>1. \A i \in 1 .. len : (n \div Pow(Base, len - i)) % Base \in Byte
  <2> SUFFICES ASSUME NEW i \in 1 .. len
               PROVE  (n \div Pow(Base, len - i)) % Base \in Byte
    OBVIOUS
  <2> DEFINE c == Pow(Base, len - i)
  <2>1. c \in Nat \ {0}
    <3>1. len - i \in Nat /\ Base \in Nat \ {0}
      BY Sizes
    <3> QED BY <3>1, PowPositive
  <2> HIDE DEF c
  <2>2. n \div c \in Int
    BY <2>1
  <2>3. (n \div c) % Base \in 0 .. Base - 1
    BY <2>2, Sizes
  <2> QED BY <2>3 DEF c, Byte
<1>2. s \in [1 .. len -> Byte]
  BY <1>1 DEF Hton
<1> HIDE DEF s
<1>3. s \in Seq(Byte) /\ DOMAIN s = 1 .. len
  BY <1>2
<1>4. Len(s) = len
  BY <1>3, LenProperties
<1> QED BY <1>3, <1>4 DEF s

\* What can be behind a stored message: one that was sent, or the zeros of the start.
Origins == Messages \cup {Nothing}

\* The parts of the messages.
LEMMA MessageParts ==
    ASSUME NEW m \in Origins
    PROVE  /\ m.topic \in Seq(Byte) /\ Len(m.topic) \in 0 .. TopicLen - 1
           /\ \A i \in 1 .. Len(m.topic) : m.topic[i] # 0
           /\ m.type \in Byte /\ m.sign \in Byte /\ m.exp \in Byte /\ m.exp \in Nat
           /\ m.num \in Nat
           /\ m.type = SHORT_REAL => m.num < Pow(Base, ShortLen)
           /\ m.type # SHORT_REAL => m.num < Word
           /\ m.chars \in Seq(Byte) /\ Len(m.chars) \in 0 .. StringLen - 1
<1> DEFINE t == m.topic
           c == m.chars
<1>1. /\ t \in Seq(Byte \ {0}) /\ Len(t) < TopicLen
      /\ m.type \in Byte /\ m.sign \in Byte /\ m.exp \in Byte
      /\ m.num \in 0 .. (IF m.type = SHORT_REAL THEN Pow(Base, ShortLen) ELSE Word) - 1
      /\ c \in Seq(Byte) /\ Len(c) < StringLen
  <2>1. CASE m \in Messages
    BY <2>1, MessagesAssumption
  <2>2. CASE m = Nothing
    <3>1. /\ m.topic = << >> /\ m.type = 0 /\ m.sign = 0 /\ m.num = 0 /\ m.exp = 0
          /\ m.chars = << >>
      BY <2>2 DEF Nothing, INT
    <3>2. << >> \in Seq(Byte \ {0}) /\ << >> \in Seq(Byte) /\ Len(<< >>) = 0 /\ 0 \in Byte
      BY Sizes, EmptySeq DEF Byte
    <3>3. 0 < TopicLen /\ 0 < StringLen /\ 0 \in 0 .. Word - 1 /\ m.type # SHORT_REAL
      BY <3>1, Sizes DEF SHORT_REAL
    <3> QED BY <3>1, <3>2, <3>3
  <2> QED BY <2>1, <2>2 DEF Origins
<1>2. Pow(Base, ShortLen) \in Nat
  BY Sizes, PowValues
<1> HIDE DEF t, c
<1>3. Len(t) \in Nat /\ Len(c) \in Nat
  BY <1>1, LenProperties
<1>4. \A i \in 1 .. Len(t) : t[i] \in Byte \ {0}
  BY <1>1, ElementOfSeq
<1>5. t \in Seq(Byte)
  <2>1. t = [i \in 1 .. Len(t) |-> t[i]]
    BY <1>1, LenProperties
  <2>2. t \in [1 .. Len(t) -> Byte]
    BY <1>4, <2>1
  <2> QED BY <1>3, <2>2
<1>6. Len(t) \in 0 .. TopicLen - 1 /\ Len(c) \in 0 .. StringLen - 1
  BY <1>1, <1>3, Sizes
<1>7. /\ m.num \in Nat
      /\ m.type = SHORT_REAL => m.num < Pow(Base, ShortLen)
      /\ m.type # SHORT_REAL => m.num < Word
  <2> HIDE DEF t, c
  <2>1. Word \in Nat
    BY Sizes
  <2> DEFINE p == Pow(Base, ShortLen)
  <2> HIDE DEF p
  <2>2. p \in Nat /\ m.num \in 0 .. (IF m.type = SHORT_REAL THEN p ELSE Word) - 1
    BY <1>1, <1>2 DEF p
  <2>3. CASE m.type = SHORT_REAL
    BY <2>2, <2>3 DEF p
  <2>4. CASE m.type # SHORT_REAL
    BY <2>1, <2>2, <2>4
  <2> QED BY <2>3, <2>4
<1>8. m.exp \in Nat
  BY <1>1 DEF Byte
<1> QED BY <1>1, <1>4, <1>5, <1>6, <1>7, <1>8 DEF t, c

\* The data of a datagram, by its type.
LEMMA PayloadParts ==
    ASSUME NEW m \in Origins
    PROVE  /\ Payload(m) \in Seq(Byte) /\ Len(Payload(m)) \in 0 .. StringLen - 1
           /\ m.type \in {INT, FLOAT} =>
                 /\ Len(Payload(m)) >= IntLen + 1
                 /\ Payload(m)[1] = m.sign
                 /\ \A i \in 1 .. IntLen : Payload(m)[i + 1] = Hton(m.num, IntLen)[i]
           /\ m.type = FLOAT =>
                 Len(Payload(m)) = IntLen + 2 /\ Payload(m)[IntLen + 2] = m.exp
           /\ m.type = SHORT_REAL => Payload(m) = Hton(m.num, ShortLen)
           /\ m.type = TEXT => Payload(m) = m.chars
<1> DEFINE h == Hton(m.num, IntLen)
           a == <<m.sign>> \o h
           b == a \o <<m.exp>>
<1>1. /\ m.type \in Byte /\ m.sign \in Byte /\ m.exp \in Byte /\ m.num \in Nat
      /\ m.chars \in Seq(Byte) /\ Len(m.chars) \in 0 .. StringLen - 1
  BY MessageParts
<1>2. IntLen \in Nat /\ ShortLen \in Nat /\ IntLen + 2 \in 0 .. StringLen - 1
      /\ ShortLen \in 0 .. StringLen - 1 /\ IntLen + 1 \in 0 .. StringLen - 1
  BY Sizes
<1>3. h \in Seq(Byte) /\ Len(h) = IntLen
  BY <1>1, <1>2, HtonBytes
<1> HIDE DEF h
<1>4. <<m.sign>> \in Seq(Byte) /\ Len(<<m.sign>>) = 1 /\ <<m.sign>>[1] = m.sign
  BY <1>1
<1>5. <<m.exp>> \in Seq(Byte) /\ Len(<<m.exp>>) = 1 /\ <<m.exp>>[1] = m.exp
  BY <1>1
<1>6. /\ a \in Seq(Byte) /\ Len(a) = IntLen + 1 /\ a[1] = m.sign
      /\ \A i \in 1 .. IntLen : a[i + 1] = h[i]
  <2> DEFINE s == <<m.sign>>
  <2> HIDE DEF s
  <2>1. /\ s \o h \in Seq(Byte) /\ Len(s \o h) = Len(s) + Len(h)
        /\ \A i \in 1 .. Len(s) + Len(h) :
              (s \o h)[i] = IF i <= Len(s) THEN s[i] ELSE h[i - Len(s)]
    BY <1>3, <1>4, ConcatProperties DEF s
  <2>2. Len(s) = 1 /\ s[1] = m.sign
    BY <1>4 DEF s
  <2>3. a = s \o h
    BY DEF s
  <2> HIDE DEF a
  <2>4. Len(a) = IntLen + 1 /\ a[1] = m.sign
    BY <1>2, <1>3, <2>1, <2>2, <2>3
  <2>5. ASSUME NEW i \in 1 .. IntLen PROVE a[i + 1] = h[i]
    <3>1. i + 1 \in 1 .. 1 + IntLen /\ ~ (i + 1 <= 1) /\ (i + 1) - 1 = i
      BY <1>2
    <3> QED BY <1>3, <2>1, <2>2, <2>3, <3>1
  <2> QED BY <2>1, <2>3, <2>4, <2>5
<1> HIDE DEF a
<1>7. /\ b \in Seq(Byte) /\ Len(b) = IntLen + 2 /\ b[IntLen + 2] = m.exp
      /\ \A i \in 1 .. IntLen + 1 : b[i] = a[i]
  <2> DEFINE s == <<m.exp>>
  <2> HIDE DEF s
  <2>1. /\ a \o s \in Seq(Byte) /\ Len(a \o s) = Len(a) + Len(s)
        /\ \A i \in 1 .. Len(a) + Len(s) :
              (a \o s)[i] = IF i <= Len(a) THEN a[i] ELSE s[i - Len(a)]
    BY <1>5, <1>6, ConcatProperties DEF s
  <2>2. Len(s) = 1 /\ s[1] = m.exp
    BY <1>5 DEF s
  <2>3. b = a \o s
    BY DEF s
  <2> HIDE DEF b
  <2>4. Len(b) = IntLen + 2
    BY <1>2, <1>6, <2>1, <2>2, <2>3
  <2>5. ASSUME NEW i \in 1 .. IntLen + 1 PROVE b[i] = a[i]
    <3>1. i \in 1 .. (IntLen + 1) + 1 /\ i <= IntLen + 1
      BY <1>2
    <3> QED BY <1>6, <2>1, <2>2, <2>3, <3>1
  <2>6. b[IntLen + 2] = m.exp
    <3>1. /\ IntLen + 2 \in 1 .. (IntLen + 1) + 1 /\ ~ (IntLen + 2 <= IntLen + 1)
          /\ (IntLen + 2) - (IntLen + 1) = 1
      BY <1>2
    <3> QED BY <1>6, <2>1, <2>2, <2>3, <3>1
  <2> QED BY <2>1, <2>3, <2>4, <2>5, <2>6
<1> HIDE DEF b
<1>8. CASE m.type = INT
  <2>1. Payload(m) = a /\ m.type \notin {FLOAT, SHORT_REAL, TEXT}
    BY <1>8 DEF Payload, a, h, INT, FLOAT, SHORT_REAL, TEXT
  <2> QED BY <1>2, <1>6, <2>1 DEF h
<1>9. CASE m.type = SHORT_REAL
  <2>1. Payload(m) = Hton(m.num, ShortLen) /\ m.type \notin {INT, FLOAT, TEXT}
    BY <1>9 DEF Payload, INT, FLOAT, SHORT_REAL, TEXT
  <2> QED BY <1>1, <1>2, <2>1, HtonBytes
<1>10. CASE m.type = FLOAT
  <2>1. Payload(m) = b /\ m.type \notin {INT, SHORT_REAL, TEXT}
    BY <1>10 DEF Payload, b, a, h, INT, FLOAT, SHORT_REAL, TEXT
  <2>2. Len(b) >= IntLen + 1 /\ b[1] = a[1] /\ \A i \in 1 .. IntLen : b[i + 1] = a[i + 1]
    <3>1. 1 \in 1 .. IntLen + 1 /\ \A i \in 1 .. IntLen : i + 1 \in 1 .. IntLen + 1
      BY <1>2
    <3>2. Len(b) >= IntLen + 1
      BY <1>2, <1>7
    <3> QED BY <1>7, <3>1, <3>2
  <2> QED BY <1>2, <1>6, <1>7, <2>1, <2>2 DEF h
<1>11. CASE m.type \notin {INT, SHORT_REAL, FLOAT}
  <2>1. Payload(m) = m.chars
    BY <1>11 DEF Payload
  <2> QED BY <1>1, <1>11, <2>1
<1> QED BY <1>8, <1>9, <1>10, <1>11

\* The buffer: as long as both fields, and no datagram reaches its last byte.
BufOK(b) ==
    /\ b \in Seq(Byte)
    /\ Len(b) = TopicLen + StringLen
    /\ b[TopicLen + StringLen] = 0

\* Its head is the datagram of m.
Holds(b, m) ==
    /\ \A i \in 1 .. Len(m.topic) : b[i] = m.topic[i]
    /\ \A i \in Len(m.topic) + 1 .. TopicLen - 1 : b[i] = 0
    /\ b[TopicLen] = m.type
    /\ \A i \in 1 .. Len(Payload(m)) : b[TopicLen + i] = Payload(m)[i]

\* Two sequences end to end.
LEMMA EndToEnd ==
    ASSUME NEW S, NEW s \in Seq(S), NEW t \in Seq(S)
    PROVE  /\ s \o t \in Seq(S) /\ Len(s \o t) = Len(s) + Len(t)
           /\ \A i \in 1 .. Len(s) : (s \o t)[i] = s[i]
           /\ \A i \in 1 .. Len(t) : (s \o t)[Len(s) + i] = t[i]
<1> DEFINE c == s \o t
<1>1. /\ c \in Seq(S) /\ Len(c) = Len(s) + Len(t)
      /\ \A i \in 1 .. Len(s) + Len(t) : c[i] = IF i <= Len(s) THEN s[i] ELSE t[i - Len(s)]
      /\ Len(s) \in Nat /\ Len(t) \in Nat
  BY ConcatProperties, LenProperties
<1> HIDE DEF c
<1>2. ASSUME NEW i \in 1 .. Len(s) PROVE c[i] = s[i]
  BY <1>1
<1>3. ASSUME NEW i \in 1 .. Len(t) PROVE c[Len(s) + i] = t[i]
  <2>1. Len(s) + i \in 1 .. Len(s) + Len(t) /\ ~ (Len(s) + i <= Len(s))
        /\ (Len(s) + i) - Len(s) = i
    BY <1>1
  <2> QED BY <1>1, <2>1
<1> QED BY <1>1, <1>2, <1>3 DEF c

\* A cleared buffer.
LEMMA ZerosAre ==
    ASSUME NEW n \in Nat
    PROVE  Zeros(n) \in Seq(Byte) /\ Len(Zeros(n)) = n /\ \A i \in 1 .. n : Zeros(n)[i] = 0
<1> DEFINE s == Zeros(n)
<1>1. s \in [1 .. n -> Byte] /\ \A i \in 1 .. n : s[i] = 0
  BY Sizes DEF Zeros
<1> HIDE DEF s
<1>2. s \in Seq(Byte) /\ DOMAIN s = 1 .. n
  BY <1>1
<1>3. Len(s) = n
  BY <1>2, LenProperties
<1> QED BY <1>1, <1>2, <1>3 DEF s

\* The fields of a datagram stand where the parser looks for them.
LEMMA DatagramHolds ==
    ASSUME NEW m \in Origins
    PROVE  /\ Datagram(m) \in Seq(Byte)
           /\ Len(Datagram(m)) = TopicLen + Len(Payload(m))
           /\ Holds(Datagram(m), m)
<1> DEFINE t == m.topic
           z == Zeros(TopicLen - 1 - Len(t))
           y == <<m.type>>
           p == Payload(m)
           u == t \o z
           v == u \o y
           d == v \o p
<1>1. /\ t \in Seq(Byte) /\ Len(t) \in 0 .. TopicLen - 1 /\ m.type \in Byte
      /\ TopicLen \in Nat \ {0}
  BY MessageParts, Sizes
<1>2. p \in Seq(Byte) /\ Len(p) \in Nat
  BY PayloadParts
<1>3. /\ z \in Seq(Byte) /\ Len(z) = TopicLen - 1 - Len(t)
      /\ \A i \in 1 .. TopicLen - 1 - Len(t) : z[i] = 0
  <2>1. TopicLen - 1 - Len(t) \in Nat
    BY <1>1
  <2> QED BY <2>1, ZerosAre
<1>4. y \in Seq(Byte) /\ Len(y) = 1 /\ y[1] = m.type
  BY <1>1
<1>5. Datagram(m) = d
  BY DEF Datagram
<1> HIDE DEF t, z, y, p
<1>6. /\ u \in Seq(Byte) /\ Len(u) = TopicLen - 1
      /\ \A i \in 1 .. Len(t) : u[i] = t[i]
      /\ \A i \in Len(t) + 1 .. TopicLen - 1 : u[i] = 0
  <2>1. /\ u \in Seq(Byte) /\ Len(u) = Len(t) + Len(z)
        /\ \A i \in 1 .. Len(t) : u[i] = t[i]
        /\ \A i \in 1 .. Len(z) : u[Len(t) + i] = z[i]
    <3>1. t \in Seq(Byte) /\ z \in Seq(Byte)
      BY <1>1, <1>3
    <3> QED BY <3>1, EndToEnd
  <2> HIDE DEF u
  <2>2. ASSUME NEW i \in Len(t) + 1 .. TopicLen - 1 PROVE u[i] = 0
    <3>1. i - Len(t) \in 1 .. TopicLen - 1 - Len(t) /\ Len(t) + (i - Len(t)) = i
      BY <1>1
    <3>2. u[Len(t) + (i - Len(t))] = z[i - Len(t)]
      BY <1>3, <2>1, <3>1
    <3> QED BY <1>3, <3>1, <3>2
  <2>3. Len(u) = TopicLen - 1
    BY <1>1, <1>3, <2>1
  <2> QED BY <2>1, <2>2, <2>3
<1> HIDE DEF u
<1>7. /\ v \in Seq(Byte) /\ Len(v) = TopicLen
      /\ \A i \in 1 .. TopicLen - 1 : v[i] = u[i]
      /\ v[TopicLen] = m.type
  <2>1. /\ v \in Seq(Byte) /\ Len(v) = Len(u) + Len(y)
        /\ \A i \in 1 .. Len(u) : v[i] = u[i]
        /\ \A i \in 1 .. Len(y) : v[Len(u) + i] = y[i]
    <3>1. u \in Seq(Byte) /\ y \in Seq(Byte)
      BY <1>4, <1>6
    <3> QED BY <3>1, EndToEnd
  <2> HIDE DEF v
  <2>2. 1 \in 1 .. 1 /\ (TopicLen - 1) + 1 = TopicLen
    BY <1>1
  <2>3. v[(TopicLen - 1) + 1] = m.type
    BY <1>4, <1>6, <2>1, <2>2
  <2> QED BY <1>4, <1>6, <2>1, <2>2, <2>3
<1> HIDE DEF v
<1>8. /\ d \in Seq(Byte) /\ Len(d) = TopicLen + Len(p)
      /\ \A i \in 1 .. TopicLen : d[i] = v[i]
      /\ \A i \in 1 .. Len(p) : d[TopicLen + i] = p[i]
  <2>1. v \in Seq(Byte) /\ p \in Seq(Byte)
    BY <1>2, <1>7
  <2>2. /\ d \in Seq(Byte) /\ Len(d) = Len(v) + Len(p)
        /\ \A i \in 1 .. Len(v) : d[i] = v[i]
        /\ \A i \in 1 .. Len(p) : d[Len(v) + i] = p[i]
    BY <2>1, EndToEnd
  <2> QED BY <1>7, <2>2
<1> HIDE DEF d
<1>9. \A i \in 1 .. TopicLen - 1 : d[i] = u[i]
  <2>1. \A i \in 1 .. TopicLen - 1 : i \in 1 .. TopicLen
    BY <1>1
  <2> QED BY <1>7, <1>8, <2>1
<1>10. \A i \in 1 .. Len(t) : d[i] = t[i]
  <2>1. \A i \in 1 .. Len(t) : i \in 1 .. TopicLen - 1
    BY <1>1
  <2> QED BY <1>6, <1>9, <2>1
<1>11. \A i \in Len(t) + 1 .. TopicLen - 1 : d[i] = 0
  <2>1. \A i \in Len(t) + 1 .. TopicLen - 1 : i \in 1 .. TopicLen - 1
    BY <1>1
  <2> QED BY <1>6, <1>9, <2>1
<1>12. d[TopicLen] = m.type
  <2>1. TopicLen \in 1 .. TopicLen
    BY <1>1
  <2> QED BY <1>7, <1>8, <2>1
<1>13. Holds(d, m)
  BY <1>8, <1>10, <1>11, <1>12 DEF Holds, t, p
<1> QED BY <1>5, <1>8, <1>13 DEF p

\* Receiving it leaves the bytes behind it.
LEMMA ReceivedHolds ==
    ASSUME NEW b, BufOK(b), NEW m \in Origins,
           NEW c, c = Datagram(m) \o SubSeq(b, Len(Datagram(m)) + 1, Len(b))
    PROVE  BufOK(c) /\ Holds(c, m)
<1> DEFINE d == Datagram(m)
           k == Len(d)
           r == SubSeq(b, k + 1, Len(b))
           l == TopicLen + StringLen
           p == Payload(m)
<1>1. /\ d \in Seq(Byte) /\ k = TopicLen + Len(p) /\ Holds(d, m)
      /\ Len(p) \in 0 .. StringLen - 1 /\ TopicLen \in Nat \ {0} /\ StringLen \in Nat \ {0}
      /\ Len(m.topic) \in 0 .. TopicLen - 1
  BY DatagramHolds, PayloadParts, MessageParts, Sizes
<1>2. b \in Seq(Byte) /\ Len(b) = l /\ b[l] = 0
  BY DEF BufOK
<1>3. c = d \o r
  OBVIOUS
<1> HIDE DEF d, p
<1>4. k \in 0 .. l - 1 /\ l \in Nat
  BY <1>1
<1>5. /\ r \in Seq(Byte) /\ Len(r) = l - k
      /\ \A i \in 1 .. l - k : r[i] = b[k + i]
  <2>1. k \in 0 .. Len(b)
    BY <1>2, <1>4
  <2> QED BY <1>2, <2>1, RestOfSeq
<1> HIDE DEF r
<1>6. /\ c \in Seq(Byte) /\ Len(c) = k + Len(r)
      /\ \A i \in 1 .. k : c[i] = d[i]
      /\ \A i \in 1 .. Len(r) : c[k + i] = r[i]
  <2>1. /\ d \o r \in Seq(Byte) /\ Len(d \o r) = Len(d) + Len(r)
        /\ \A i \in 1 .. Len(d) : (d \o r)[i] = d[i]
        /\ \A i \in 1 .. Len(r) : (d \o r)[Len(d) + i] = r[i]
    <3>1. d \in Seq(Byte) /\ r \in Seq(Byte)
      BY <1>1, <1>5
    <3> QED BY <3>1, EndToEnd
  <2> QED BY <1>3, <2>1
<1> HIDE DEF k
<1>7. BufOK(c)
  <2> HIDE DEF l
  <2>1. Len(c) = l
    BY <1>4, <1>5, <1>6
  <2>2. l - k \in 1 .. l - k /\ k + (l - k) = l
    BY <1>4
  <2>3. c[k + (l - k)] = b[k + (l - k)]
    BY <1>5, <1>6, <2>2
  <2>4. c[l] = 0
    BY <1>2, <2>2, <2>3
  <2> QED BY <1>6, <2>1, <2>4 DEF BufOK, l
<1>8. Holds(c, m)
  <2>1. /\ \A i \in 1 .. Len(m.topic) : d[i] = m.topic[i]
        /\ \A i \in Len(m.topic) + 1 .. TopicLen - 1 : d[i] = 0
        /\ d[TopicLen] = m.type
        /\ \A i \in 1 .. Len(p) : d[TopicLen + i] = p[i]
    BY <1>1 DEF Holds, p
  <2>2. /\ \A i \in 1 .. Len(m.topic) : i \in 1 .. k
        /\ \A i \in Len(m.topic) + 1 .. TopicLen - 1 : i \in 1 .. k
        /\ TopicLen \in 1 .. k
        /\ \A i \in 1 .. Len(p) : TopicLen + i \in 1 .. k
    BY <1>1
  <2> QED BY <1>6, <2>1, <2>2 DEF Holds, p
<1> QED BY <1>7, <1>8

-----------------------------------------------------------------------------
(* What the parser stores of a buffer that begins with the datagram of m.  *)

\* The topic field reads as the topic, or is full with the type at its end.
TopicOK(m, msg) ==
    IF EndsInTime(m) THEN CString(msg.topic) = m.topic
                     ELSE Len(CString(msg.topic)) = TopicLen

NumberOK(m, msg) ==
    LET data == pack_topic_to_tcp_msg(msg).data
    IN  /\ m.type = INT => (m.num < Word \div 2 => data = Signed(m))
        /\ m.type = SHORT_REAL => data = [num |-> m.num, den |-> 100]
        /\ m.type = FLOAT => (Pow(10, m.exp) < Word =>
                                  data = [num |-> Signed(m), den |-> Pow(10, m.exp)])

TextOK(m, msg) ==
    LET printed == pack_topic_to_tcp_msg(msg).data
        sent    == CString(m.chars)
    IN  m.type = TEXT => IF Terminated(m) THEN printed = sent ELSE IsPrefix(sent, printed)

\* The topic field of a stored message.
LEMMA TopicParsed ==
    ASSUME NEW m \in Origins, BufOK(buf'), Holds(buf', m)
    PROVE  TopicOK(m, Parsed)
<1> DEFINE b == buf'
           t == m.topic
           s == SubSeq(b, 1, TopicLen)
<1>1. /\ t \in Seq(Byte) /\ Len(t) \in 0 .. TopicLen - 1 /\ Len(t) \in Nat
      /\ \A i \in 1 .. Len(t) : t[i] # 0
      /\ TopicLen \in Nat \ {0} /\ StringLen \in Nat \ {0}
  BY MessageParts, Sizes
<1>2. /\ b \in Seq(Byte) /\ Len(b) = TopicLen + StringLen
      /\ \A i \in 1 .. Len(t) : b[i] = t[i]
      /\ \A i \in Len(t) + 1 .. TopicLen - 1 : b[i] = 0
      /\ b[TopicLen] = m.type
  BY DEF BufOK, Holds
<1>3. Parsed.topic = s
  <2>1. 0 + 1 = 1 /\ 0 + TopicLen = TopicLen
    BY <1>1
  <2>2. Bytes(0, TopicLen) = s
    BY <2>1 DEF Bytes
  <2> HIDE DEF s
  <2> QED BY <2>2 DEF Parsed
<1> HIDE DEF b, t
<1>4. s \in Seq(Byte) /\ Len(s) = TopicLen /\ \A i \in 1 .. TopicLen : s[i] = b[i]
  <2>1. TopicLen \in Nat /\ TopicLen <= Len(b) /\ b \in Seq(Byte)
    BY <1>1, <1>2
  <2> QED BY <2>1, HeadOfSeq
<1> HIDE DEF s
<1>5. /\ \A i \in 1 .. Len(t) : s[i] = t[i] /\ s[i] # 0
      /\ \A i \in Len(t) + 1 .. TopicLen - 1 : s[i] = 0
      /\ s[TopicLen] = m.type
  <2>1. /\ \A i \in 1 .. Len(t) : i \in 1 .. TopicLen
        /\ \A i \in Len(t) + 1 .. TopicLen - 1 : i \in 1 .. TopicLen
        /\ TopicLen \in 1 .. TopicLen
    BY <1>1
  <2> QED BY <1>1, <1>2, <1>4, <2>1
<1>6. CASE EndsInTime(m)
  <2>1. Len(t) < TopicLen - 1 \/ m.type = 0
    BY <1>6 DEF EndsInTime, t
  <2>2. s[Len(t) + 1] = 0
    <3>1. CASE Len(t) < TopicLen - 1
      <4>1. Len(t) + 1 \in Len(t) + 1 .. TopicLen - 1
        BY <1>1, <3>1
      <4> QED BY <1>5, <4>1
    <3>2. CASE ~ (Len(t) < TopicLen - 1)
      <4>1. Len(t) + 1 = TopicLen /\ m.type = 0
        BY <1>1, <2>1, <3>2
      <4> QED BY <1>5, <4>1
    <3> QED BY <3>1, <3>2
  <2>3. Ends(s, Len(t))
    <3>1. Len(t) \in 0 .. Len(s)
      BY <1>1, <1>4
    <3> QED BY <1>5, <2>2, <3>1 DEF Ends
  <2>4. CString(s) = SubSeq(s, 1, Len(t))
    BY <1>4, <2>3, StringEnds
  <2> DEFINE u == SubSeq(s, 1, Len(t))
  <2>5. u \in Seq(Byte) /\ Len(u) = Len(t) /\ \A i \in 1 .. Len(t) : u[i] = s[i]
    <3>1. Len(t) \in Nat /\ Len(t) <= Len(s)
      BY <1>1, <1>4
    <3> QED BY <1>4, <3>1, HeadOfSeq
  <2> HIDE DEF u
  <2>6. \A i \in 1 .. Len(u) : u[i] = t[i]
    BY <1>5, <2>5
  <2>7. u = t
    BY <1>1, <2>5, <2>6, SeqEqual
  <2> QED BY <1>3, <1>6, <2>4, <2>7 DEF TopicOK, t, u
<1>7. CASE ~ EndsInTime(m)
  <2>1. ~ (Len(t) < TopicLen - 1) /\ m.type # 0
    BY <1>7 DEF EndsInTime, t
  <2>2. Len(t) + 1 = TopicLen
    BY <1>1, <2>1
  <2>3. \A i \in 1 .. TopicLen : s[i] # 0
    <3>1. \A i \in 1 .. TopicLen : i \in 1 .. Len(t) \/ i = TopicLen
      BY <1>1, <2>2
    <3> QED BY <1>5, <2>1, <3>1
  <2>4. Ends(s, TopicLen)
    BY <1>1, <1>4, <2>3 DEF Ends
  <2>5. CString(s) = SubSeq(s, 1, TopicLen)
    BY <1>4, <2>4, StringEnds
  <2>6. Len(SubSeq(s, 1, TopicLen)) = TopicLen
    <3>1. TopicLen \in Nat /\ TopicLen <= Len(s)
      BY <1>1, <1>4
    <3> QED BY <1>4, <3>1, HeadOfSeq
  <2> QED BY <1>3, <1>7, <2>5, <2>6 DEF TopicOK
<1> QED BY <1>6, <1>7

\* A number of len bytes behind place k of the buffer.
LEMMA NumberParsed ==
    ASSUME NEW b \in Seq(Byte), NEW k \in Nat, NEW len \in Nat, k + len <= Len(b),
           NEW n \in Nat, n < Pow(Base, len),
           \A i \in 1 .. len : b[k + i] = Hton(n, len)[i]
    PROVE  Ntoh(SubSeq(b, k + 1, k + len)) = n
<1> DEFINE h == Hton(n, len)
           u == SubSeq(b, k + 1, k + len)
<1>1. h \in Seq(Byte) /\ Len(h) = len
  BY HtonBytes
<1>2. u \in Seq(Byte) /\ Len(u) = len /\ \A i \in 1 .. len : u[i] = b[k + i]
  BY CutOfSeq
<1>3. Ntoh(h) = n
  BY NtohOfHton
<1>4. \A i \in 1 .. len : b[k + i] = h[i]
  OBVIOUS
<1> HIDE DEF h, u
<1>5. \A i \in 1 .. Len(u) : u[i] = h[i]
  BY <1>2, <1>4
<1>6. u = h
  BY <1>1, <1>2, <1>5, SeqEqual
<1> QED BY <1>3, <1>6 DEF u

\* The parser negates by a product with -1.
LEMMA Negated ==
    ASSUME NEW n \in Int
    PROVE  -1 * n = 0 - n
OBVIOUS

\* A number of 31 bits is itself as an int32_t, and so is its negative.
LEMMA WrapSmall ==
    ASSUME NEW n \in Nat, n < Word \div 2
    PROVE  Wrap(n) = n /\ Wrap(-1 * n) = -1 * n
<1> DEFINE w == Word
           h == Word \div 2
<1>1. w \in Nat \ {0} /\ h \in Nat /\ h + h <= w /\ h < w
  <2>1. Word \in Nat \ {0, 1}
    BY Sizes
  <2> QED BY <2>1
<1>2. n < h
  OBVIOUS
<1>3. Wrap(n) = IF n % w < h THEN n % w ELSE (n % w) - w
  BY DEF Wrap
<1>4. Wrap(-1 * n) = IF (-1 * n) % w < h THEN (-1 * n) % w ELSE ((-1 * n) % w) - w
  BY DEF Wrap
<1> HIDE DEF w, h
<1>5. n % w = n
  <2>1. n < w
    BY <1>1, <1>2
  <2>2. w \in Nat \ {0}
    BY <1>1
  <2> QED BY <2>1, <2>2, SmallModulo, Zenon
<1>6. Wrap(n) = n
  BY <1>2, <1>3, <1>5
<1>7. CASE n = 0
  <2>1. -1 * n = 0
    <3>1. -1 * n = 0 - n
      BY Negated
    <3>2. 0 - n = 0
      BY <1>7
    <3> QED BY <3>1, <3>2
  <2>2. 0 % w = 0
    BY <1>5, <1>7
  <2>3. (-1 * n) % w = 0
    BY <2>1, <2>2
  <2> QED BY <1>2, <1>4, <1>6, <1>7, <2>1, <2>3
<1>8. CASE n # 0
  <2> DEFINE r == w - n
  <2>1. r \in 0 .. w - 1 /\ ~ (r < h) /\ r - w = -1 * n
    <3>1. r \in 0 .. w - 1 /\ ~ (r < h)
      BY <1>1, <1>2, <1>8
    <3>2. r - w = -1 * n
      BY <1>1
    <3> QED BY <3>1, <3>2
  <2>2. w * (-1) + r = -1 * n
    BY <1>1
  <2> HIDE DEF r
  <2>3. -1 \in Int
    OBVIOUS
  <2>4. (w * (-1) + r) % w = r
    BY <1>1, <2>1, <2>3, DivisionIs
  <2>5. (-1 * n) % w = r
    BY <2>2, <2>4
  <2> QED BY <1>4, <1>6, <2>1, <2>5
<1> QED BY <1>7, <1>8

\* The number of a stored message.
LEMMA NumberStored ==
    ASSUME NEW m \in Origins, BufOK(buf'), Holds(buf', m)
    PROVE  NumberOK(m, Parsed)
<1> DEFINE b == buf'
           p == Payload(m)
           k == TopicLen
           msg == Parsed
<1>1. /\ k \in Nat \ {0} /\ IntLen \in Nat \ {0} /\ ShortLen \in Nat \ {0}
      /\ StringLen \in Nat \ {0} /\ IntLen + 2 < StringLen /\ ShortLen < StringLen
      /\ Word \in Nat \ {0, 1} /\ Base \in Nat
  BY Sizes
<1>2. /\ m.num \in Nat /\ m.exp \in Nat
      /\ m.type = SHORT_REAL => m.num < Pow(Base, ShortLen)
      /\ m.type # SHORT_REAL => m.num < Word
  BY MessageParts
<1>3. /\ p \in Seq(Byte) /\ Len(p) \in 0 .. StringLen - 1
      /\ m.type \in {INT, FLOAT} =>
            /\ Len(p) >= IntLen + 1
            /\ p[1] = m.sign
            /\ \A i \in 1 .. IntLen : p[i + 1] = Hton(m.num, IntLen)[i]
      /\ m.type = FLOAT => Len(p) = IntLen + 2 /\ p[IntLen + 2] = m.exp
      /\ m.type = SHORT_REAL => p = Hton(m.num, ShortLen)
  BY PayloadParts
<1>4. /\ b \in Seq(Byte) /\ Len(b) = k + StringLen /\ b[k] = m.type
      /\ \A i \in 1 .. Len(p) : b[k + i] = p[i]
  BY DEF BufOK, Holds
<1>5. /\ msg.type = m.type
      /\ msg.data = ParsedData(m.type)
      /\ m.type # TEXT => pack_topic_to_tcp_msg(msg).data = msg.data
  <2>1. msg = [topic |-> Bytes(0, k), type |-> b[k], data |-> ParsedData(b[k])]
    BY DEF Parsed
  <2> HIDE DEF b, msg
  <2>2. msg.type = m.type /\ msg.data = ParsedData(m.type)
    BY <1>4, <2>1
  <2> QED BY <2>2 DEF pack_topic_to_tcp_msg
<1> HIDE DEF msg
<1>6. m.type \in {INT, FLOAT} => /\ b[k + 1] = m.sign
                                 /\ Ntoh(Bytes(k + 1, IntLen)) = m.num
  <2> SUFFICES ASSUME m.type \in {INT, FLOAT}
               PROVE  b[k + 1] = m.sign /\ Ntoh(Bytes(k + 1, IntLen)) = m.num
    OBVIOUS
  <2>1. /\ Len(p) >= IntLen + 1 /\ p[1] = m.sign
        /\ \A i \in 1 .. IntLen : p[i + 1] = Hton(m.num, IntLen)[i]
    BY <1>3
  <2> HIDE DEF b, p, k
  <2>2. b[k + 1] = m.sign
    <3>1. 1 \in 1 .. Len(p)
      BY <1>1, <1>3, <2>1
    <3> QED BY <1>4, <2>1, <3>1
  <2>3. ASSUME NEW i \in 1 .. IntLen PROVE b[(k + 1) + i] = Hton(m.num, IntLen)[i]
    <3>1. i + 1 \in 1 .. Len(p) /\ (k + 1) + i = k + (i + 1)
      BY <1>1, <1>3, <2>1
    <3>2. b[k + (i + 1)] = p[i + 1]
      BY <1>4, <3>1
    <3> QED BY <2>1, <3>1, <3>2
  <2>4. k + 1 \in Nat /\ (k + 1) + IntLen <= Len(b) /\ IntLen \in Nat
    BY <1>1, <1>4
  <2>5. m.num < Pow(Base, IntLen)
    BY <1>2 DEF Word, INT, FLOAT, SHORT_REAL
  <2>6. Ntoh(SubSeq(b, (k + 1) + 1, (k + 1) + IntLen)) = m.num
    BY <1>2, <1>4, <2>3, <2>4, <2>5, NumberParsed
  <2> QED BY <2>2, <2>6 DEF Bytes, b
<1>7. ASSUME m.type = INT, m.num < Word \div 2
      PROVE  pack_topic_to_tcp_msg(msg).data = Signed(m)
  <2>1. m.type \in {INT, FLOAT} /\ m.type # TEXT
    BY <1>7 DEF INT, TEXT
  <2>2. ParsedData(m.type) = parse_udp_int_type(k)
    BY <1>7 DEF ParsedData, INT, SHORT_REAL, FLOAT, TEXT
  <2>3. Wrap(m.num) = m.num /\ Wrap(-1 * m.num) = -1 * m.num
    BY <1>2, <1>7, WrapSmall
  <2>4. parse_udp_int_type(k) = Signed(m)
    BY <1>6, <2>1, <2>3 DEF parse_udp_int_type, Signed
  <2> QED BY <1>5, <2>1, <2>2, <2>4
<1>8. ASSUME m.type = SHORT_REAL
      PROVE  pack_topic_to_tcp_msg(msg).data = [num |-> m.num, den |-> 100]
  <2>1. m.type # TEXT /\ p = Hton(m.num, ShortLen)
    BY <1>3, <1>8 DEF SHORT_REAL, TEXT
  <2>2. ParsedData(m.type) = parse_udp_short_real_type(k)
    BY <1>8 DEF ParsedData, INT, SHORT_REAL, FLOAT, TEXT
  <2>3. Len(p) = ShortLen
    BY <1>1, <1>2, <2>1, HtonBytes
  <2>4. Ntoh(SubSeq(b, k + 1, k + ShortLen)) = m.num
    <3>1. \A i \in 1 .. ShortLen : b[k + i] = Hton(m.num, ShortLen)[i]
      BY <1>4, <2>1, <2>3
    <3> HIDE DEF b, p, k
    <3>2. k \in Nat /\ k + ShortLen <= Len(b) /\ ShortLen \in Nat
      BY <1>1, <1>4
    <3> QED BY <1>2, <1>4, <1>8, <3>1, <3>2, NumberParsed
  <2>5. parse_udp_short_real_type(k) = [num |-> m.num, den |-> 100]
    BY <2>4 DEF parse_udp_short_real_type, Bytes
  <2> QED BY <1>5, <2>1, <2>2, <2>5
<1>9. ASSUME m.type = FLOAT, Pow(10, m.exp) < Word
      PROVE  pack_topic_to_tcp_msg(msg).data = [num |-> Signed(m), den |-> Pow(10, m.exp)]
  <2>1. m.type \in {INT, FLOAT} /\ m.type # TEXT
        /\ Len(p) = IntLen + 2 /\ p[IntLen + 2] = m.exp
    BY <1>3, <1>9 DEF FLOAT, TEXT
  <2>2. ParsedData(m.type) = parse_udp_float_type(k)
    BY <1>9 DEF ParsedData, INT, SHORT_REAL, FLOAT, TEXT
  <2>3. b[k + 2 + IntLen] = m.exp
    <3> HIDE DEF b, p, k
    <3>1. IntLen + 2 \in 1 .. Len(p) /\ k + 2 + IntLen = k + (IntLen + 2)
      BY <1>1, <2>1
    <3>2. b[k + (IntLen + 2)] = p[IntLen + 2]
      BY <1>4, <3>1
    <3> QED BY <2>1, <3>1, <3>2
  <2>4. ipow(10, m.exp) = Pow(10, m.exp)
    <3>1. ipow(10, m.exp) = Pow(10, m.exp) % Word
      BY <1>2, IpowModulo
    <3> DEFINE q == Pow(10, m.exp)
    <3>2. q \in Nat
      BY <1>2, PowValues
    <3>3. q < Word
      BY <1>9
    <3> HIDE DEF q
    <3>4. q % Word = q
      BY <1>1, <3>2, <3>3, SmallModulo
    <3> QED BY <3>1, <3>4 DEF q
  <2>5. parse_udp_float_type(k) = [num |-> Signed(m), den |-> Pow(10, m.exp)]
    BY <1>6, <2>1, <2>3, <2>4 DEF parse_udp_float_type, Signed
  <2> QED BY <1>5, <2>1, <2>2, <2>5
<1> QED BY <1>7, <1>8, <1>9 DEF NumberOK, msg

\* A sequence that another one begins with.
LEMMA PrefixIs ==
    ASSUME NEW S, NEW u \in Seq(S), NEW v \in Seq(S), Len(u) <= Len(v),
           \A i \in 1 .. Len(u) : u[i] = v[i]
    PROVE  IsPrefix(u, v)
<1> DEFINE l == Len(u)
           x == SubSeq(u, 1, l)
           y == SubSeq(v, 1, l)
<1>1. l \in Nat /\ Len(v) \in Nat /\ l <= Len(v) /\ \A i \in 1 .. l : u[i] = v[i]
  BY LenProperties
<1>2. x \in Seq(S) /\ Len(x) = l /\ \A i \in 1 .. l : x[i] = u[i]
  BY <1>1, HeadOfSeq
<1>3. y \in Seq(S) /\ Len(y) = l /\ \A i \in 1 .. l : y[i] = v[i]
  BY <1>1, HeadOfSeq
<1> HIDE DEF x, y
<1>4. x = y
  <2> HIDE DEF l
  <2>1. \A i \in 1 .. Len(x) : x[i] = y[i]
    BY <1>1, <1>2, <1>3
  <2> QED BY <1>2, <1>3, <2>1, SeqEqual
<1> QED BY <1>1, <1>4 DEF IsPrefix, x, y

\* The text of a stored message.
LEMMA TextStored ==
    ASSUME NEW m \in Origins, BufOK(buf'), Holds(buf', m)
    PROVE  TextOK(m, Parsed)
<1> SUFFICES ASSUME m.type = TEXT PROVE TextOK(m, Parsed)
  BY DEF TextOK
<1> DEFINE b == buf'
           k == TopicLen
           l == StringLen
           c == m.chars
           s == SubSeq(b, k + 1, k + l)
           msg == Parsed
<1>1. k \in Nat \ {0} /\ l \in Nat \ {0}
  BY Sizes
<1>2. c \in Seq(Byte) /\ Len(c) \in 0 .. l - 1
  BY MessageParts
<1>3. /\ b \in Seq(Byte) /\ Len(b) = k + l /\ b[k + l] = 0 /\ b[k] = TEXT
      /\ \A i \in 1 .. Len(c) : b[k + i] = c[i]
  <2>1. Payload(m) = c
    BY PayloadParts
  <2> QED BY <2>1 DEF BufOK, Holds
<1>4. msg.type = TEXT /\ msg.data = s
  <2>1. msg = [topic |-> Bytes(0, k), type |-> b[k], data |-> ParsedData(b[k])]
    BY DEF Parsed
  <2>2. ParsedData(TEXT) = s
    <3>1. ParsedData(TEXT) = parse_udp_string_type(k)
      BY DEF ParsedData, INT, SHORT_REAL, FLOAT, TEXT
    <3>2. parse_udp_string_type(k) = s
      BY DEF parse_udp_string_type, Bytes
    <3> QED BY <3>1, <3>2
  <2> HIDE DEF b, s, msg
  <2> QED BY <1>3, <2>1, <2>2
<1> HIDE DEF msg, c
<1>5. pack_topic_to_tcp_msg(msg).data = CString(s)
  BY <1>4 DEF pack_topic_to_tcp_msg
<1>6. /\ s \in Seq(Byte) /\ Len(s) = l
      /\ \A i \in 1 .. Len(c) : s[i] = c[i]
      /\ s[l] = 0
  <2> HIDE DEF b, k, l
  <2>1. s \in Seq(Byte) /\ Len(s) = l /\ \A i \in 1 .. l : s[i] = b[k + i]
    <3>1. k \in Nat /\ l \in Nat /\ k + l <= Len(b)
      BY <1>1, <1>3
    <3> QED BY <1>3, <3>1, CutOfSeq
  <2> HIDE DEF s
  <2>2. l \in 1 .. l /\ \A i \in 1 .. Len(c) : i \in 1 .. l
    BY <1>1, <1>2
  <2> QED BY <1>3, <2>1, <2>2
<1> HIDE DEF s, l
<1>7. PICK n : Ends(c, n)
  BY <1>2, SomeEnd
<1>8. /\ n \in 0 .. Len(c) /\ n \in Nat /\ Len(c) \in Nat
      /\ \A i \in 1 .. n : c[i] # 0
      /\ n < Len(c) => c[n + 1] = 0
  BY <1>2, <1>7 DEF Ends
<1> DEFINE sent == SubSeq(c, 1, n)
<1>9. CString(c) = sent
  BY <1>2, <1>7, StringEnds
<1>10. sent \in Seq(Byte) /\ Len(sent) = n /\ \A i \in 1 .. n : sent[i] = c[i]
  <2>1. n <= Len(c)
    BY <1>8
  <2> QED BY <1>2, <1>8, <2>1, HeadOfSeq
<1> HIDE DEF sent
<1>11. \A i \in 1 .. n : s[i] = c[i]
  BY <1>6, <1>8
<1>12. CASE n < Len(c) \/ Len(c) = l - 1
  <2>1. s[n + 1] = 0
    <3>1. CASE n < Len(c)
      <4>1. n + 1 \in 1 .. Len(c)
        BY <1>8, <3>1
      <4> QED BY <1>6, <1>8, <3>1, <4>1
    <3>2. CASE ~ (n < Len(c))
      <4>1. n + 1 = l
        BY <1>1, <1>8, <1>12, <3>2 DEF l
      <4> QED BY <1>6, <4>1
    <3> QED BY <3>1, <3>2
  <2>2. Ends(s, n)
    <3>1. n \in 0 .. Len(s)
      BY <1>1, <1>2, <1>6, <1>8 DEF l
    <3> QED BY <1>8, <1>11, <2>1, <3>1 DEF Ends
  <2>3. CString(s) = SubSeq(s, 1, n)
    BY <1>6, <2>2, StringEnds
  <2> DEFINE u == SubSeq(s, 1, n)
  <2>4. u \in Seq(Byte) /\ Len(u) = n /\ \A i \in 1 .. n : u[i] = s[i]
    <3>1. n <= Len(s)
      BY <1>1, <1>2, <1>6, <1>8 DEF l
    <3> QED BY <1>6, <1>8, <3>1, HeadOfSeq
  <2> HIDE DEF u
  <2>5. \A i \in 1 .. Len(sent) : sent[i] = u[i]
    BY <1>10, <1>11, <2>4
  <2>6. u = sent
    BY <1>10, <2>4, <2>5, SeqEqual
  <2>7. IsPrefix(sent, sent)
    BY <1>10, PrefixOfConcat
  <2>8. pack_topic_to_tcp_msg(msg).data = sent
    BY <1>5, <2>3, <2>6 DEF u
  <2> QED BY <1>9, <2>7, <2>8 DEF TextOK, msg, c
<1>13. CASE n = Len(c) /\ Len(c) # l - 1
  <2>1. ~ Terminated(m)
    <3>1. ~ Contains(c, 0)
      BY <1>8, <1>13 DEF Contains
    <3> QED BY <1>13, <3>1 DEF Terminated, c, l
  <2>2. PICK e : Ends(s, e)
    BY <1>6, SomeEnd
  <2>3. /\ e \in 0 .. Len(s) /\ e \in Nat /\ Len(s) \in Nat
        /\ e < Len(s) => s[e + 1] = 0
    BY <1>1, <1>6, <2>2 DEF Ends, l
  <2>4. n <= e
    <3> SUFFICES ASSUME e < n PROVE FALSE
      BY <1>8, <2>3
    <3>1. e + 1 \in 1 .. n /\ e < Len(s)
      BY <1>1, <1>2, <1>6, <1>8, <2>3 DEF l
    <3> QED BY <1>8, <1>11, <2>3, <3>1
  <2>5. CString(s) = SubSeq(s, 1, e)
    BY <1>6, <2>2, StringEnds
  <2> DEFINE u == SubSeq(s, 1, e)
  <2>6. u \in Seq(Byte) /\ Len(u) = e /\ \A i \in 1 .. e : u[i] = s[i]
    <3>1. e <= Len(s)
      BY <2>3
    <3> QED BY <1>6, <2>3, <3>1, HeadOfSeq
  <2> HIDE DEF u
  <2>7. \A i \in 1 .. Len(sent) : sent[i] = u[i]
    <3>1. \A i \in 1 .. n : i \in 1 .. e
      BY <1>8, <2>3, <2>4
    <3> QED BY <1>10, <1>11, <2>6, <3>1
  <2>8. IsPrefix(sent, u)
    <3>1. Len(sent) <= Len(u)
      BY <1>10, <2>4, <2>6
    <3> QED BY <1>10, <2>6, <2>7, <3>1, PrefixIs
  <2>9. pack_topic_to_tcp_msg(msg).data = u
    BY <1>5, <2>5 DEF u
  <2> QED BY <1>9, <2>1, <2>8, <2>9 DEF TextOK, msg, c
<1>14. n < Len(c) \/ n = Len(c)
  BY <1>8
<1> QED BY <1>12, <1>13, <1>14

-----------------------------------------------------------------------------
(* The invariant.  A datagram is shorter than the buffer, so the last byte *)
(* stays zero and ends every text that has no end of its own; a recvfrom   *)
(* that fails finds the message that was stored last.                      *)

Stored(m, msg) == TopicOK(m, msg) /\ NumberOK(m, msg) /\ TextOK(m, msg)

\* A sequence of anything.
Listed(s) == \E S : s \in Seq(S)

UInv ==
    /\ BufOK(buf)
    /\ origin \in Seq(Origins)
    /\ Listed(udp_msgs)
    /\ Len(udp_msgs) = Len(origin)
    /\ \A i \in 1 .. Len(origin) : Stored(origin[i], udp_msgs[i])
    /\ serving => Holds(buf, InBuf)

\* Append to a sequence of anything.
LEMMA ListedAppend ==
    ASSUME NEW s, Listed(s), NEW e
    PROVE  /\ Listed(Append(s, e)) /\ Len(s) \in Nat
           /\ Len(Append(s, e)) = Len(s) + 1
           /\ Append(s, e)[Len(s) + 1] = e
           /\ \A i \in 1 .. Len(s) : Append(s, e)[i] = s[i]
<1>1. PICK S : s \in Seq(S)
  BY DEF Listed
<1> DEFINE T == S \cup {e}
<1>2. s \in Seq(T) /\ e \in T
  <2>1. Len(s) \in Nat /\ s = [i \in 1 .. Len(s) |-> s[i]]
    BY <1>1, LenProperties
  <2>2. \A i \in 1 .. Len(s) : s[i] \in T
    BY <1>1, ElementOfSeq
  <2> HIDE DEF T
  <2>3. s \in [1 .. Len(s) -> T]
    BY <2>1, <2>2
  <2>4. s \in Seq(T)
    BY <2>1, <2>3
  <2> QED BY <2>4 DEF T
<1> HIDE DEF T
<1> DEFINE u == Append(s, e)
<1>3. /\ u \in Seq(T) /\ Len(u) = Len(s) + 1
      /\ \A i \in 1 .. Len(s) : u[i] = s[i]
      /\ u[Len(s) + 1] = e
  BY <1>2, AppendProperties
<1>4. Len(s) \in Nat
  BY <1>2, LenProperties
<1> HIDE DEF u
<1> QED BY <1>3, <1>4 DEF Listed, u

\* A cleared buffer has the head it is read as.
LEMMA ZerosHold == Holds(Zeros(TopicLen + StringLen), Nothing)
<1> DEFINE l == TopicLen + StringLen
           z == Zeros(l)
           h == Hton(0, IntLen)
           p == <<0>> \o h
<1>1. /\ TopicLen \in Nat \ {0} /\ StringLen \in Nat /\ IntLen \in Nat /\ l \in Nat
      /\ IntLen + 2 < StringLen /\ 0 \in Byte
  BY Sizes DEF Byte
<1>2. \A i \in 1 .. l : z[i] = 0
  <2> HIDE DEF l
  <2> QED BY <1>1, ZerosAre
<1>3. Nothing.topic = << >> /\ Nothing.type = 0 /\ Payload(Nothing) = p
  BY DEF Nothing, Payload, INT, SHORT_REAL, FLOAT
<1>4. h \in Seq(Byte) /\ Len(h) = IntLen /\ \A i \in 1 .. IntLen : h[i] = 0
  <2>1. h \in Seq(Byte) /\ Len(h) = IntLen
    BY <1>1, HtonBytes
  <2>2. ASSUME NEW i \in 1 .. IntLen PROVE h[i] = 0
    <3> DEFINE q == Pow(Base, IntLen - i)
    <3>1. h[i] = (0 \div q) % Base
      BY <2>2 DEF Hton
    <3>2. q \in Nat \ {0} /\ Base \in Nat \ {0}
      BY <1>1, Sizes, PowPositive
    <3> HIDE DEF q, h
    <3>3. 0 \div q = 0
      BY <3>2
    <3>4. 0 % Base = 0
      BY <3>2
    <3> QED BY <3>1, <3>3, <3>4
  <2> QED BY <2>1, <2>2
<1>5. Len(p) = IntLen + 1 /\ \A i \in 1 .. IntLen + 1 : p[i] = 0
  <2> HIDE DEF h
  <2>1. <<0>> \in Seq(Byte) /\ Len(<<0>>) = 1 /\ <<0>>[1] = 0
    BY <1>1
  <2> DEFINE s == <<0>>
  <2> HIDE DEF s
  <2>2. /\ Len(s \o h) = Len(s) + Len(h)
        /\ \A i \in 1 .. Len(s) + Len(h) :
              (s \o h)[i] = IF i <= Len(s) THEN s[i] ELSE h[i - Len(s)]
    BY <1>4, <2>1, ConcatProperties DEF s
  <2>3. Len(s) = 1 /\ s[1] = 0 /\ p = s \o h
    BY <2>1 DEF s
  <2> HIDE DEF p
  <2>4. Len(p) = IntLen + 1
    BY <1>1, <1>4, <2>2, <2>3
  <2>5. ASSUME NEW i \in 1 .. IntLen + 1 PROVE p[i] = 0
    <3>1. CASE i = 1
      BY <1>1, <1>4, <2>2, <2>3, <3>1
    <3>2. CASE i # 1
      <4>1. ~ (i <= 1) /\ i - 1 \in 1 .. IntLen /\ i \in 1 .. 1 + IntLen
        BY <1>1, <3>2
      <4> QED BY <1>4, <2>2, <2>3, <4>1
    <3> QED BY <3>1, <3>2
  <2> QED BY <2>4, <2>5
<1> HIDE DEF z, p
<1>6. /\ Len(Nothing.topic) = 0
      /\ \A i \in 1 .. TopicLen - 1 : z[i] = 0
      /\ z[TopicLen] = 0
      /\ \A i \in 1 .. IntLen + 1 : z[TopicLen + i] = 0
  <2>1. TopicLen \in 1 .. l /\ \A i \in 1 .. TopicLen - 1 : i \in 1 .. l
    BY <1>1
  <2>2. \A i \in 1 .. IntLen + 1 : TopicLen + i \in 1 .. l
    BY <1>1
  <2>3. Len(Nothing.topic) = 0
    BY <1>3, EmptySeq
  <2> HIDE DEF l
  <2> QED BY <1>2, <2>1, <2>2, <2>3
<1>7. Holds(z, Nothing)
  <2>1. \A i \in 1 .. Len(Nothing.topic) : z[i] = Nothing.topic[i]
    BY <1>6
  <2>2. \A i \in Len(Nothing.topic) + 1 .. TopicLen - 1 : z[i] = 0
    BY <1>6
  <2>3. \A i \in 1 .. Len(Payload(Nothing)) : z[TopicLen + i] = Payload(Nothing)[i]
    BY <1>3, <1>5, <1>6
  <2> QED BY <1>3, <1>6, <2>1, <2>2, <2>3 DEF Holds
<1> QED BY <1>7 DEF z

\* The server starts with a cleared buffer and no messages.
LEMMA UInvInit ==
    ASSUME Init
    PROVE  UInv
<1>1. /\ buf = Zeros(TopicLen + StringLen) /\ udp_msgs = << >> /\ origin = << >>
      /\ TopicLen \in Nat \ {0} /\ StringLen \in Nat \ {0}
  BY Sizes DEF Init
<1> DEFINE l == TopicLen + StringLen
<1>2. l \in Nat /\ l \in 1 .. l
  BY <1>1
<1>3. buf \in Seq(Byte) /\ Len(buf) = l /\ buf[l] = 0
  <2> HIDE DEF l
  <2>1. Zeros(l) \in Seq(Byte) /\ Len(Zeros(l)) = l /\ \A i \in 1 .. l : Zeros(l)[i] = 0
    BY <1>2, ZerosAre
  <2>2. buf = Zeros(l)
    BY <1>1 DEF l
  <2> QED BY <1>2, <2>1, <2>2
<1>4. BufOK(buf)
  BY <1>3 DEF BufOK
<1>5. << >> \in Seq(Origins) /\ Len(<< >>) = 0
  OBVIOUS
<1>6. Listed(<< >>)
  BY <1>5 DEF Listed
<1>7. \A i \in 1 .. Len(origin) : Stored(origin[i], udp_msgs[i])
  BY <1>1, <1>5
<1>8. Holds(buf, InBuf)
  BY <1>1, ZerosHold DEF InBuf
<1> QED BY <1>1, <1>4, <1>5, <1>6, <1>7, <1>8 DEF UInv

\* Storing a message whose datagram the buffer begins with.
LEMMA StoreStep ==
    ASSUME UInv, NEW m \in Origins, BufOK(buf'), Holds(buf', m), add_server_udp_msg(m)
    PROVE  UInv'
<1>1. CASE buf'[TopicLen] \in {INT, SHORT_REAL, FLOAT, TEXT}
  <2>1. udp_msgs' = Append(udp_msgs, Parsed) /\ origin' = Append(origin, m)
    BY <1>1 DEF add_server_udp_msg
  <2> DEFINE msg == Parsed
             l == Len(origin)
  <2>2. Stored(m, msg)
    BY TopicParsed, NumberStored, TextStored DEF Stored
  <2> HIDE DEF msg
  <2>3. /\ origin \in Seq(Origins) /\ Listed(udp_msgs) /\ Len(udp_msgs) = l
        /\ \A i \in 1 .. l : Stored(origin[i], udp_msgs[i])
    BY DEF UInv
  <2>4. /\ Listed(udp_msgs') /\ Len(udp_msgs') = l + 1 /\ udp_msgs'[l + 1] = msg
        /\ \A i \in 1 .. l : udp_msgs'[i] = udp_msgs[i]
    <3>1. udp_msgs' = Append(udp_msgs, msg)
      BY <2>1 DEF msg
    <3> HIDE DEF l
    <3> QED BY <2>3, <3>1, ListedAppend
  <2>5. /\ origin' \in Seq(Origins) /\ Len(origin') = l + 1 /\ origin'[l + 1] = m
        /\ \A i \in 1 .. l : origin'[i] = origin[i]
    BY <2>1, <2>3, AppendProperties
  <2>6. l \in Nat
    BY <2>3, LenProperties
  <2> HIDE DEF l
  <2>7. ASSUME NEW i \in 1 .. Len(origin') PROVE Stored(origin'[i], udp_msgs'[i])
    <3>1. CASE i \in 1 .. l
      BY <2>3, <2>4, <2>5, <3>1
    <3>2. CASE i = l + 1
      BY <2>2, <2>4, <2>5, <3>2
    <3> QED BY <2>5, <2>6, <3>1, <3>2
  <2>8. InBuf' = m
    <3>1. Len(<< >>) = 0 /\ l + 1 # 0
      BY <2>6, EmptySeq
    <3> QED BY <2>5, <3>1 DEF InBuf, Last
  <2> QED BY <2>4, <2>5, <2>7, <2>8 DEF UInv
<1>2. CASE buf'[TopicLen] \notin {INT, SHORT_REAL, FLOAT, TEXT}
  <2>1. serving' = FALSE /\ udp_msgs' = udp_msgs /\ origin' = origin
    BY <1>2 DEF add_server_udp_msg
  <2> QED BY <2>1 DEF UInv
<1> QED BY <1>1, <1>2

\* A recvfrom that succeeds, fails or finds an empty datagram keeps the invariant.
LEMMA UInvNext ==
    ASSUME UInv, [Next]_vars
    PROVE  UInv'
<1>1. ASSUME NEW m \in Messages, ReceiveDatagram(m) PROVE UInv'
  <2> DEFINE d == Datagram(m)
             c == d \o SubSeq(buf, Len(d) + 1, Len(buf))
  <2>1. buf' = c /\ add_server_udp_msg(m)
    BY <1>1 DEF ReceiveDatagram, recvfrom
  <2>2. BufOK(buf)
    BY DEF UInv
  <2>0. m \in Origins
    BY DEF Origins
  <2>3. BufOK(c) /\ Holds(c, m)
    BY <2>0, <2>2, ReceivedHolds
  <2> HIDE DEF c
  <2>4. BufOK(buf') /\ Holds(buf', m)
    BY <2>1, <2>3
  <2> QED BY <2>0, <2>1, <2>4, StoreStep
<1>2. CASE ReceiveFails
  <2> DEFINE m == InBuf
  <2>1. serving /\ buf' = buf /\ add_server_udp_msg(m)
    BY <1>2 DEF ReceiveFails
  <2>2. BufOK(buf') /\ Holds(buf', m)
    BY <2>1 DEF UInv
  <2>3. m \in Origins
    <3>1. CASE origin = << >>
      BY <3>1 DEF InBuf, Origins
    <3>2. CASE origin # << >>
      <4>1. origin \in Seq(Origins)
        BY DEF UInv
      <4>2. Len(origin) \in 1 .. Len(origin)
        BY <3>2, <4>1, EmptySeq
      <4> QED BY <3>2, <4>1, <4>2, ElementOfSeq DEF InBuf, Last
    <3> QED BY <3>1, <3>2
  <2> HIDE DEF m
  <2> QED BY <2>1, <2>2, <2>3, StoreStep
<1>3. CASE ReceiveNothing
  BY <1>3 DEF ReceiveNothing, UInv
<1>4. CASE UNCHANGED vars
  BY <1>4 DEF vars, UInv, InBuf
<1> QED BY <1>1, <1>2, <1>3, <1>4 DEF Next

\* The invariant holds in every state.
LEMMA UInvHolds == Spec => []UInv
<1>1. Init => UInv
  BY UInvInit
<1>2. UInv /\ [Next]_vars => UInv'
  BY UInvNext
<1> QED BY <1>1, <1>2, PTL DEF Spec

-----------------------------------------------------------------------------
(* What a subscriber gets. *)

\* What the invariant says of the message at i.
LEMMA StoredAt ==
    ASSUME UInv, NEW i \in DOMAIN udp_msgs
    PROVE  origin[i] \in Origins /\ Stored(origin[i], udp_msgs[i])
<1>1. /\ origin \in Seq(Origins) /\ Len(udp_msgs) = Len(origin) /\ Listed(udp_msgs)
      /\ \A j \in 1 .. Len(origin) : Stored(origin[j], udp_msgs[j])
  BY DEF UInv
<1>2. PICK S : udp_msgs \in Seq(S)
  BY <1>1 DEF Listed
<1>3. i \in 1 .. Len(origin)
  BY <1>1, <1>2, LenProperties
<1>4. origin[i] \in Origins
  BY <1>1, <1>3, ElementOfSeq
<1> QED BY <1>1, <1>3, <1>4

\* However many datagrams came, and whatever they held: strcmp finds a stored message exactly
\* for the topic it was published under, unless that topic has all 50 characters and the type
\* behind it is not 0; then no topic a client may have subscribed to is equal to the field.
THEOREM TopicsAreFound == Spec => []TopicAsSent
<1>1. UInv => TopicAsSent
  <2> SUFFICES ASSUME UInv, NEW i \in DOMAIN udp_msgs, NEW m \in Messages
               PROVE  IsAbout(udp_msgs[i], m.topic)
                          <=> m.topic = origin[i].topic /\ EndsInTime(origin[i])
    BY DEF TopicAsSent
  <2> DEFINE o == origin[i]
             s == CString(udp_msgs[i].topic)
  <2>1. IF EndsInTime(o) THEN s = o.topic ELSE Len(s) = TopicLen
    BY StoredAt DEF Stored, TopicOK
  <2>2. Len(m.topic) \in 0 .. TopicLen - 1 /\ TopicLen \in Nat
    <3>1. m \in Origins
      BY DEF Origins
    <3> QED BY <3>1, MessageParts, Sizes
  <2>3. IsAbout(udp_msgs[i], m.topic) <=> s = m.topic
    BY DEF IsAbout
  <2> HIDE DEF o, s
  <2>4. CASE EndsInTime(o)
    BY <2>1, <2>3, <2>4 DEF o
  <2>5. CASE ~ EndsInTime(o)
    <3>1. s # m.topic
      BY <2>1, <2>2, <2>5
    <3> QED BY <2>3, <2>5, <3>1 DEF o
  <2> QED BY <2>4, <2>5
<1> QED BY <1>1, UInvHolds, PTL

\* However many datagrams came: the number behind a stored message prints as the one that was
\* published.  ntohl undoes htonl for every width, an INT below 2^31 survives int32_t with
\* either sign, and the divisor of a FLOAT is the exact power of ten while that fits.
THEOREM NumbersArePrinted == Spec => []NumberAsSent
<1>1. UInv => NumberAsSent
  <2> SUFFICES ASSUME UInv, NEW i \in DOMAIN udp_msgs
               PROVE  LET m == origin[i]  data == pack_topic_to_tcp_msg(udp_msgs[i]).data IN
                      CASE m.type = INT        -> m.num < Word \div 2 => data = Signed(m)
                        [] m.type = SHORT_REAL -> data = [num |-> m.num, den |-> 100]
                        [] m.type = FLOAT      -> Pow(10, m.exp) < Word =>
                               data = [num |-> Signed(m), den |-> Pow(10, m.exp)]
                        [] OTHER               -> TRUE
    BY DEF NumberAsSent
  <2> DEFINE m == origin[i]
             data == pack_topic_to_tcp_msg(udp_msgs[i]).data
  <2>1. /\ m.type = INT => (m.num < Word \div 2 => data = Signed(m))
        /\ m.type = SHORT_REAL => data = [num |-> m.num, den |-> 100]
        /\ m.type = FLOAT => (Pow(10, m.exp) < Word =>
                                  data = [num |-> Signed(m), den |-> Pow(10, m.exp)])
    BY StoredAt DEF Stored, NumberOK
  <2> QED BY <2>1 DEF INT, SHORT_REAL, FLOAT
<1> QED BY <1>1, UInvHolds, PTL

\* However many datagrams came, and however long the texts before it were: a text with an end
\* of its own prints as it was published, and one without prints with more behind it.
THEOREM TextsArePrinted == Spec => []StringAsSent
<1>1. UInv => StringAsSent
  <2> SUFFICES ASSUME UInv, NEW i \in DOMAIN udp_msgs, origin[i].type = TEXT
               PROVE  LET sent    == CString(origin[i].chars)
                          printed == pack_topic_to_tcp_msg(udp_msgs[i]).data
                      IN  IF Terminated(origin[i]) THEN printed = sent
                                                   ELSE IsPrefix(sent, printed)
    BY DEF StringAsSent
  <2> QED BY StoredAt DEF Stored, TextOK
<1> QED BY <1>1, UInvHolds, PTL

\* Whatever byte a datagram leaves in the buffer: the repeated squaring of ipow gives the
\* power modulo 2^32, although base and result both wrap on the way.
THEOREM PowersAreRight == Spec => []IpowIsThePower
<1>1. UInv => IpowIsThePower
  <2> SUFFICES ASSUME UInv, NEW i \in DOMAIN buf
               PROVE  ipow(10, buf[i]) = Power(10, buf[i])
    BY DEF IpowIsThePower
  <2>1. buf \in Seq(Byte)
    BY DEF UInv, BufOK
  <2>2. buf[i] \in Byte
    BY <2>1
  <2>3. buf[i] \in Nat
    BY <2>2, Sizes DEF Byte
  <2> QED BY <2>3, IpowIsPower
<1> QED BY <1>1, UInvHolds, PTL
=============================================================================
