--------------------------- MODULE SequenceLemmas ---------------------------
(***************************************************************************)
(* What adding an element to a sequence and removing one from it do, for   *)
(* the arrays of the clients vector, which close the gap when an element   *)
(* leaves (src/src/client_vec.c); where a sequence is cut and extended, for*)
(* the buffers that lines and requests pass through on their way           *)
(* (subscriber_utils.c); and what laying sequences end to end gives, for   *)
(* the requests of a subscriber and for the blocks that free_server frees. *)
(***************************************************************************)
EXTENDS SequencesExt, SequenceTheorems, WellFoundedInduction, TLAPS

\* The elements before the place stay, the ones behind it move by one.
LEMMA RemoveAtProperties ==
  ASSUME NEW S, NEW s \in Seq(S), NEW j \in DOMAIN s
  PROVE  /\ RemoveAt(s, j) \in Seq(S)
         /\ Len(RemoveAt(s, j)) = Len(s) - 1
         /\ \A n \in 1 .. Len(s) - 1 :
               RemoveAt(s, j)[n] = IF n < j THEN s[n] ELSE s[n + 1]
<1>1. /\ Len(s) \in Nat
      /\ DOMAIN s = 1 .. Len(s)
      /\ j \in 1 .. Len(s)
      /\ \A n \in 1 .. Len(s) : s[n] \in S
  BY LenProperties, ElementOfSeq
<1> DEFINE front == SubSeq(s, 1, j - 1)
           back  == SubSeq(s, j + 1, Len(s))
<1>2. /\ front \in Seq(S)
      /\ Len(front) = j - 1
      /\ \A n \in 1 .. j - 1 : front[n] = s[n]
  <2>1. \A n \in 1 .. j - 1 : s[n] \in S
    BY <1>1
  <2> QED BY <2>1, <1>1, SubSeqProperties
<1>3. /\ back \in Seq(S)
      /\ Len(back) = Len(s) - j
      /\ \A n \in 1 .. Len(s) - j : back[n] = s[j + n]
  <2>1. \A n \in j + 1 .. Len(s) : s[n] \in S
    BY <1>1
  <2>2. /\ back \in Seq(S)
        /\ Len(back) = IF j + 1 <= Len(s) THEN Len(s) - (j + 1) + 1 ELSE 0
        /\ \A n \in 1 .. Len(s) - (j + 1) + 1 : back[n] = s[(j + 1) + n - 1]
    BY <2>1, <1>1, SubSeqProperties
  <2> QED BY <2>2, <1>1
<1>4. /\ front \o back \in Seq(S)
      /\ Len(front \o back) = Len(s) - 1
      /\ \A n \in 1 .. Len(s) - 1 :
            (front \o back)[n] = IF n <= j - 1 THEN front[n] ELSE back[n - (j - 1)]
  <2> HIDE DEF front, back
  <2>1. /\ front \o back \in Seq(S)
        /\ Len(front \o back) = Len(front) + Len(back)
        /\ \A n \in 1 .. Len(front) + Len(back) :
              (front \o back)[n] = IF n <= Len(front) THEN front[n] ELSE back[n - Len(front)]
    BY <1>2, <1>3, ConcatProperties
  <2> QED BY <2>1, <1>1, <1>2, <1>3
<1>5. RemoveAt(s, j) = front \o back
  BY DEF RemoveAt
<1>6. ASSUME NEW n \in 1 .. Len(s) - 1
      PROVE  RemoveAt(s, j)[n] = IF n < j THEN s[n] ELSE s[n + 1]
  <2> HIDE DEF front, back
  <2>1. CASE n < j
    <3>1. (front \o back)[n] = front[n]
      BY <1>1, <1>4, <2>1
    <3>2. front[n] = s[n]
      BY <1>1, <1>2, <2>1
    <3> QED BY <3>1, <3>2, <1>5, <2>1
  <2>2. CASE ~ (n < j)
    <3>1. (front \o back)[n] = back[n - (j - 1)]
      BY <1>1, <1>4, <2>2
    <3>2. back[n - (j - 1)] = s[j + (n - (j - 1))]
      BY <1>1, <1>3, <2>2
    <3>3. j + (n - (j - 1)) = n + 1
      BY <1>1
    <3> QED BY <3>1, <3>2, <3>3, <1>5, <2>2
  <2> QED BY <2>1, <2>2
<1> QED
  BY <1>4, <1>5, <1>6

\* No element occurs twice.
Distinct(s) == \A m, n \in DOMAIN s : s[m] = s[n] => m = n

\* A new element keeps the elements distinct.
LEMMA DistinctAppend ==
  ASSUME NEW S, NEW s \in Seq(S), NEW e \in S, Distinct(s), \A n \in DOMAIN s : s[n] # e
  PROVE  Distinct(Append(s, e))
<1> DEFINE u == Append(s, e)
<1>1. Len(s) \in Nat /\ DOMAIN s = 1 .. Len(s)
  BY LenProperties
<1>2. /\ u \in Seq(S)
      /\ Len(u) = Len(s) + 1
      /\ \A n \in 1 .. Len(s) : u[n] = s[n]
      /\ u[Len(s) + 1] = e
  BY AppendProperties
<1> HIDE DEF u
<1>3. DOMAIN u = 1 .. Len(s) + 1
  BY <1>2, LenProperties
<1>4. \A n \in DOMAIN u : \/ n \in DOMAIN s /\ u[n] = s[n] /\ u[n] # e
                          \/ n = Len(s) + 1 /\ u[n] = e
  BY <1>1, <1>2, <1>3
<1>5. Distinct(u)
  BY <1>4 DEF Distinct
<1> QED
  BY <1>5 DEF u

\* So does removing one.
LEMMA DistinctRemoveAt ==
  ASSUME NEW S, NEW s \in Seq(S), NEW j \in DOMAIN s, Distinct(s)
  PROVE  Distinct(RemoveAt(s, j))
<1> DEFINE u == RemoveAt(s, j)
<1>1. Len(s) \in Nat /\ DOMAIN s = 1 .. Len(s) /\ j \in 1 .. Len(s)
  BY LenProperties
<1>2. /\ u \in Seq(S)
      /\ Len(u) = Len(s) - 1
      /\ \A n \in 1 .. Len(s) - 1 : u[n] = IF n < j THEN s[n] ELSE s[n + 1]
  BY RemoveAtProperties
<1> HIDE DEF u
<1>3. DOMAIN u = 1 .. Len(s) - 1
  BY <1>2, LenProperties
<1>4. ASSUME NEW m \in DOMAIN u, NEW n \in DOMAIN u, u[m] = u[n]
      PROVE  m = n
  <2> DEFINE from(l) == IF l < j THEN l ELSE l + 1
  <2>1. /\ m \in 1 .. Len(s) - 1 /\ n \in 1 .. Len(s) - 1
        /\ u[m] = s[from(m)] /\ u[n] = s[from(n)]
    BY <1>2, <1>3
  <2>2. from(m) \in DOMAIN s /\ from(n) \in DOMAIN s
    BY <1>1, <2>1
  <2>3. from(m) = from(n)
    BY <1>4, <2>1, <2>2 DEF Distinct
  <2> QED
    BY <1>1, <2>1, <2>3
<1>5. Distinct(u)
  BY <1>4 DEF Distinct
<1> QED
  BY <1>5 DEF u

\* What is behind place n.
LEMMA RestOfSeq ==
    ASSUME NEW S, NEW s \in Seq(S), NEW n \in 0 .. Len(s)
    PROVE  /\ SubSeq(s, n + 1, Len(s)) \in Seq(S)
           /\ Len(SubSeq(s, n + 1, Len(s))) = Len(s) - n
           /\ \A m \in 1 .. Len(s) - n : SubSeq(s, n + 1, Len(s))[m] = s[n + m]
<1> DEFINE l == Len(s)
           u == SubSeq(s, n + 1, l)
<1>1. l \in Nat /\ n \in Nat /\ n <= l
  BY LenProperties
<1>2. \A i \in n + 1 .. l : s[i] \in S
  BY <1>1, ElementOfSeq
<1> HIDE DEF l
<1>3. /\ u \in Seq(S)
      /\ Len(u) = IF n + 1 <= l THEN l - (n + 1) + 1 ELSE 0
      /\ \A i \in 1 .. l - (n + 1) + 1 : u[i] = s[(n + 1) + i - 1]
  <2>1. n + 1 \in Int /\ l \in Int
    BY <1>1
  <2> QED BY <1>2, <2>1, SubSeqProperties
<1> HIDE DEF u
<1>4. Len(u) = l - n
  BY <1>1, <1>3
<1>5. ASSUME NEW m \in 1 .. l - n PROVE u[m] = s[n + m]
  <2>1. m \in 1 .. l - (n + 1) + 1 /\ (n + 1) + m - 1 = n + m
    BY <1>1
  <2> QED BY <1>3, <2>1
<1> QED BY <1>3, <1>4, <1>5 DEF u, l

\* What is behind a place of the first of two sequences.
LEMMA RestOfConcat ==
    ASSUME NEW S, NEW s \in Seq(S), NEW t \in Seq(S), NEW n \in 0 .. Len(s)
    PROVE  SubSeq(s \o t, n + 1, Len(s \o t)) = SubSeq(s, n + 1, Len(s)) \o t
<1> DEFINE c == s \o t
           u == SubSeq(s, n + 1, Len(s))
           v == SubSeq(c, n + 1, Len(c))
<1>1. /\ c \in Seq(S) /\ Len(c) = Len(s) + Len(t)
      /\ \A i \in 1 .. Len(s) + Len(t) : c[i] = IF i <= Len(s) THEN s[i] ELSE t[i - Len(s)]
      /\ Len(s) \in Nat /\ Len(t) \in Nat /\ n \in Nat /\ n <= Len(s)
  BY ConcatProperties, LenProperties
<1>2. /\ u \in Seq(S) /\ Len(u) = Len(s) - n
      /\ \A m \in 1 .. Len(s) - n : u[m] = s[n + m]
  BY RestOfSeq
<1> HIDE DEF c
<1>3. /\ v \in Seq(S) /\ Len(v) = Len(c) - n
      /\ \A m \in 1 .. Len(c) - n : v[m] = c[n + m]
  <2>1. n \in 0 .. Len(c)
    BY <1>1
  <2> QED BY <1>1, <2>1, RestOfSeq
<1> HIDE DEF u, v
<1>4. /\ u \o t \in Seq(S) /\ Len(u \o t) = Len(u) + Len(t)
      /\ \A i \in 1 .. Len(u) + Len(t) : (u \o t)[i] = IF i <= Len(u) THEN u[i] ELSE t[i - Len(u)]
  BY <1>2, ConcatProperties
<1>5. Len(v) = Len(u \o t) /\ Len(v) = (Len(s) - n) + Len(t)
  BY <1>1, <1>2, <1>3, <1>4
<1>6. ASSUME NEW i \in 1 .. Len(v) PROVE v[i] = (u \o t)[i]
  <2>1. v[i] = c[n + i] /\ n + i \in 1 .. Len(s) + Len(t) /\ i \in 1 .. Len(u) + Len(t)
    BY <1>1, <1>2, <1>3, <1>5
  <2>2. CASE i <= Len(s) - n
    <3>1. v[i] = s[n + i]
      BY <1>1, <2>1, <2>2
    <3>2. (u \o t)[i] = u[i] /\ u[i] = s[n + i]
      BY <1>1, <1>2, <1>4, <2>1, <2>2
    <3> QED BY <3>1, <3>2
  <2>3. CASE ~ (i <= Len(s) - n)
    <3>1. v[i] = t[(n + i) - Len(s)]
      BY <1>1, <2>1, <2>3
    <3>2. (u \o t)[i] = t[i - (Len(s) - n)]
      BY <1>1, <1>2, <1>4, <2>1, <2>3
    <3>3. (n + i) - Len(s) = i - (Len(s) - n)
      BY <1>1, <2>1
    <3> QED BY <3>1, <3>2, <3>3
  <2> QED BY <2>2, <2>3
<1>7. v = u \o t
  BY <1>3, <1>4, <1>5, <1>6, SeqEqual
<1> QED BY <1>7 DEF c, u, v

\* Adding to the second of two sequences.
LEMMA AppendToConcat ==
    ASSUME NEW S, NEW s \in Seq(S), NEW t \in Seq(S), NEW e \in S
    PROVE  s \o Append(t, e) = Append(s \o t, e)
<1>1. Append(t, e) = t \o <<e>> /\ <<e>> \in Seq(S)
  BY AppendIsConcat
<1>2. s \o t \in Seq(S)
  BY ConcatProperties
<1>3. Append(s \o t, e) = (s \o t) \o <<e>>
  BY <1>2, AppendIsConcat
<1> QED BY <1>1, <1>3, ConcatAssociative

\* What stands at the front of two sequences.
LEMMA FrontOfConcat ==
    ASSUME NEW S, NEW s \in Seq(S), NEW t \in Seq(S), NEW n \in 0 .. Len(s)
    PROVE  SubSeq(s \o t, 1, n) = SubSeq(s, 1, n)
<1>1. Len(s) \in Nat
  BY LenProperties
<1>2. CASE n = 0
  <2>1. 1 \in Int /\ 0 \in Int /\ 0 < 1
    OBVIOUS
  <2>2. SubSeq(s \o t, 1, 0) = << >> /\ SubSeq(s, 1, 0) = << >>
    BY <2>1, SubSeqEmpty
  <2> QED BY <1>2, <2>2
<1>3. CASE n # 0
  <2>1. 1 \in 1 .. Len(s) /\ n \in 1 .. Len(s)
    BY <1>1, <1>3
  <2> QED BY <2>1, SubSeqOfConcat1
<1> QED BY <1>2, <1>3

\* A sequence is a prefix of itself with something behind it, and so are its prefixes.
LEMMA PrefixOfConcat ==
    ASSUME NEW S, NEW s \in Seq(S), NEW t \in Seq(S), NEW u \in Seq(S)
    PROVE  /\ IsPrefix(s, s \o u) /\ IsPrefix(s, s) /\ IsPrefix(<< >>, s)
           /\ IsPrefix(s, t) => IsPrefix(s, t \o u)
<1>1. /\ Len(s) \in Nat /\ Len(t) \in Nat /\ Len(u) \in Nat
      /\ Len(s \o u) = Len(s) + Len(u) /\ Len(t \o u) = Len(t) + Len(u)
  BY LenProperties, ConcatProperties
<1>2. IsPrefix(s, s \o u)
  <2>1. Len(s) \in 0 .. Len(s)
    BY <1>1
  <2>2. SubSeq(s \o u, 1, Len(s)) = SubSeq(s, 1, Len(s))
    BY <2>1, FrontOfConcat
  <2> QED BY <1>1, <2>2 DEF IsPrefix
<1>3. ASSUME IsPrefix(s, t) PROVE IsPrefix(s, t \o u)
  <2>1. Len(s) <= Len(t) /\ SubSeq(s, 1, Len(s)) = SubSeq(t, 1, Len(s))
    BY <1>3 DEF IsPrefix
  <2>2. Len(s) \in 0 .. Len(t)
    BY <1>1, <2>1
  <2>3. SubSeq(t \o u, 1, Len(s)) = SubSeq(t, 1, Len(s))
    BY <2>2, FrontOfConcat
  <2> QED BY <1>1, <2>1, <2>3 DEF IsPrefix
<1>4. IsPrefix(s, s)
  BY <1>1 DEF IsPrefix
<1>5. IsPrefix(<< >>, s)
  <2>1. Len(<< >>) = 0 /\ 1 \in Int /\ 0 \in Int /\ 0 < 1
    BY EmptySeq
  <2>2. SubSeq(<< >>, 1, 0) = << >> /\ SubSeq(s, 1, 0) = << >>
    BY <2>1, SubSeqEmpty
  <2> QED BY <1>1, <2>1, <2>2 DEF IsPrefix
<1> QED BY <1>2, <1>3, <1>4, <1>5

-----------------------------------------------------------------------------
(* Numbers. *)

\* A set of natural numbers has a least one.
LEMMA LeastNumber ==
    ASSUME NEW T, T \subseteq Nat, T # {}
    PROVE  \E x \in T : \A y \in T : x <= y
<1> DEFINE R == OpToRel(<, Nat)
<1>1. IsWellFoundedOn(R, Nat)
  BY NatLessThanWellFounded
<1>2. \A x, y \in Nat : <<y, x>> \in R <=> y < x
  BY DEF OpToRel
<1> HIDE DEF R
<1>3. PICK x \in T : \A y \in T : ~ (<<y, x>> \in R)
  BY <1>1, WFMin
<1>4. ASSUME NEW y \in T PROVE x <= y
  <2>1. x \in Nat /\ y \in Nat
    OBVIOUS
  <2>2. ~ (y < x)
    BY <1>2, <1>3, <2>1
  <2> QED BY <2>1, <2>2
<1> QED BY <1>4

\* Induction: a set with 0 and all successors has all natural numbers.
LEMMA AllNumbers ==
    ASSUME NEW T, 0 \in T, \A n \in Nat : n \in T => n + 1 \in T
    PROVE  Nat \subseteq T
<1> SUFFICES ASSUME Nat \ T # {} PROVE FALSE
  OBVIOUS
<1>1. PICK x \in Nat \ T : \A y \in Nat \ T : x <= y
  BY LeastNumber
<1>2. x - 1 \in Nat /\ x - 1 \notin Nat \ T
  BY <1>1
<1> QED BY <1>1, <1>2

-----------------------------------------------------------------------------
(* FlattenSeq, whose definition is recursive. *)

\* The prefixes of the sequences s laid end to end.
Flattens(f, s, n) == f = [i \in 1 .. n |-> IF i = 1 THEN s[i] ELSE f[i - 1] \o s[i]]

\* There is such a function.
LEMMA FlattenExists ==
    ASSUME NEW s
    PROVE  \A n \in Nat : \E f : Flattens(f, s, n)
<1> DEFINE T == {n \in Nat : \E f : Flattens(f, s, n)}
<1>1. 0 \in T
  <2> DEFINE g == [i \in 1 .. 0 |-> << >>]
  <2>1. g = [i \in 1 .. 0 |-> IF i = 1 THEN s[i] ELSE g[i - 1] \o s[i]]
    OBVIOUS
  <2> QED BY <2>1 DEF Flattens
<1>2. ASSUME NEW n \in Nat, n \in T PROVE n + 1 \in T
  <2>1. PICK f : Flattens(f, s, n)
    BY <1>2
  <2> DEFINE g == [i \in 1 .. n + 1 |-> IF i <= n THEN f[i]
                                        ELSE IF i = 1 THEN s[i] ELSE f[i - 1] \o s[i]]
  <2> DEFINE h == [i \in 1 .. n + 1 |-> IF i = 1 THEN s[i] ELSE g[i - 1] \o s[i]]
  <2>2. ASSUME NEW i \in 1 .. n + 1 PROVE g[i] = h[i]
    <3>1. CASE i <= n
      <4>1. g[i] = f[i] /\ i \in 1 .. n
        BY <3>1
      <4>2. f[i] = IF i = 1 THEN s[i] ELSE f[i - 1] \o s[i]
        BY <2>1, <4>1 DEF Flattens
      <4>3. i # 1 => g[i - 1] = f[i - 1]
        BY <3>1
      <4> QED BY <4>1, <4>2, <4>3
    <3>2. CASE i = n + 1
      <4>1. i # 1 => g[i - 1] = f[i - 1]
        BY <3>2
      <4> QED BY <3>2, <4>1
    <3> QED BY <3>1, <3>2
  <2>3. g = h
    BY <2>2
  <2>4. Flattens(g, s, n + 1)
    BY <2>3 DEF Flattens
  <2> HIDE DEF g, h
  <2> QED BY <2>4
<1> HIDE DEF T
<1>3. Nat \subseteq T
  BY <1>1, <1>2, AllNumbers
<1> QED BY <1>3 DEF T

\* FlattenSeq is its last value.
LEMMA FlattenIs ==
    ASSUME NEW S, NEW s \in Seq(S), s # << >>
    PROVE  \E f : Flattens(f, s, Len(s)) /\ FlattenSeq(s) = f[Len(s)]
<1>1. Len(s) \in Nat /\ Len(s) # 0
  BY EmptySeq, LenProperties
<1> DEFINE g == CHOOSE f : Flattens(f, s, Len(s))
<1>2. Flattens(g, s, Len(s))
  BY <1>1, FlattenExists
<1>3. FlattenSeq(s) = g[Len(s)]
  BY <1>1 DEF FlattenSeq, Flattens
<1> HIDE DEF g
<1> QED BY <1>2, <1>3

\* Its first value and the others.
LEMMA FlattenStep ==
    ASSUME NEW s, NEW n \in Nat, NEW f, Flattens(f, s, n)
    PROVE  /\ n > 0 => f[1] = s[1]
           /\ \A i \in 1 .. n : i + 1 \in 1 .. n => f[i + 1] = f[i] \o s[i + 1]
<1>1. ASSUME NEW i \in 1 .. n PROVE f[i] = IF i = 1 THEN s[i] ELSE f[i - 1] \o s[i]
  BY DEF Flattens
<1>2. n > 0 => f[1] = s[1]
  BY <1>1
<1>3. ASSUME NEW i \in 1 .. n, i + 1 \in 1 .. n PROVE f[i + 1] = f[i] \o s[i + 1]
  <2>1. i + 1 # 1 /\ (i + 1) - 1 = i
    OBVIOUS
  <2>2. f[i + 1] = f[(i + 1) - 1] \o s[i + 1]
    BY <1>1, <1>3, <2>1
  <2> QED BY <2>1, <2>2
<1> QED BY <1>2, <1>3

\* Its values are sequences, and those of a shorter sequence are the same.
LEMMA FlattenValues ==
    ASSUME NEW S, NEW s, NEW n \in Nat, \A i \in 1 .. n : s[i] \in Seq(S),
           NEW f, Flattens(f, s, n)
    PROVE  \A i \in 1 .. n : f[i] \in Seq(S)
<1>0. /\ n > 0 => f[1] = s[1]
      /\ \A i \in 1 .. n : i + 1 \in 1 .. n => f[i + 1] = f[i] \o s[i + 1]
  BY FlattenStep
<1> DEFINE T == {i \in Nat : i \in 1 .. n => f[i] \in Seq(S)}
<1>1. 0 \in T
  OBVIOUS
<1>2. ASSUME NEW i \in Nat, i \in T PROVE i + 1 \in T
  <2> SUFFICES ASSUME i + 1 \in 1 .. n PROVE f[i + 1] \in Seq(S)
    OBVIOUS
  <2>2. s[i + 1] \in Seq(S)
    OBVIOUS
  <2>3. CASE i = 0
    BY <1>0, <2>2, <2>3
  <2>4. CASE i # 0
    <3>1. i \in 1 .. n
      BY <2>4
    <3>2. f[i + 1] = f[i] \o s[i + 1] /\ f[i] \in Seq(S)
      BY <1>0, <1>2, <3>1
    <3> QED BY <2>2, <3>1, <3>2, ConcatProperties
  <2> QED BY <2>3, <2>4
<1> HIDE DEF T
<1>3. Nat \subseteq T
  BY <1>1, <1>2, AllNumbers
<1> QED BY <1>3 DEF T

\* The values depend on the sequences up to there only.
LEMMA FlattenUnique ==
    ASSUME NEW s, NEW t, NEW n \in Nat, NEW m \in Nat, n <= m,
           \A i \in 1 .. n : s[i] = t[i],
           NEW f, Flattens(f, s, n), NEW g, Flattens(g, t, m)
    PROVE  \A i \in 1 .. n : f[i] = g[i]
<1>0. /\ n > 0 => f[1] = s[1]
      /\ \A i \in 1 .. n : i + 1 \in 1 .. n => f[i + 1] = f[i] \o s[i + 1]
  BY FlattenStep
<1>1. /\ m > 0 => g[1] = t[1]
      /\ \A i \in 1 .. m : i + 1 \in 1 .. m => g[i + 1] = g[i] \o t[i + 1]
  BY FlattenStep
<1> DEFINE T == {i \in Nat : i \in 1 .. n => f[i] = g[i]}
<1>2. 0 \in T
  OBVIOUS
<1>3. ASSUME NEW i \in Nat, i \in T PROVE i + 1 \in T
  <2> SUFFICES ASSUME i + 1 \in 1 .. n PROVE f[i + 1] = g[i + 1]
    OBVIOUS
  <2>1. s[i + 1] = t[i + 1] /\ i + 1 \in 1 .. m
    OBVIOUS
  <2>2. CASE i = 0
    <3>1. f[1] = s[1] /\ g[1] = t[1]
      BY <1>0, <1>1
    <3> QED BY <2>1, <2>2, <3>1
  <2>3. CASE i # 0
    <3>1. i \in 1 .. n /\ i \in 1 .. m /\ f[i] = g[i]
      BY <1>3, <2>3
    <3>2. f[i + 1] = f[i] \o s[i + 1]
      BY <1>0, <3>1
    <3>3. g[i + 1] = g[i] \o t[i + 1]
      BY <1>1, <2>1, <3>1
    <3> QED BY <2>1, <3>1, <3>2, <3>3
  <2> QED BY <2>2, <2>3
<1> HIDE DEF T
<1>4. Nat \subseteq T
  BY <1>2, <1>3, AllNumbers
<1> QED BY <1>4 DEF T

\* One more sequence is laid behind the others.
LEMMA FlattenAppend ==
    ASSUME NEW S, NEW s \in Seq(Seq(S)), NEW e \in Seq(S)
    PROVE  /\ FlattenSeq(s) \in Seq(S)
           /\ FlattenSeq(Append(s, e)) = FlattenSeq(s) \o e
<1> DEFINE n == Len(s)
           m == Len(s) + 1
           t == Append(s, e)
<1>1. /\ t \in Seq(Seq(S)) /\ Len(t) = m
      /\ \A i \in 1 .. n : s[i] = t[i]
      /\ t[m] = e
  BY AppendProperties, LenProperties
<1>2. n \in Nat /\ m \in Nat /\ n <= m /\ m > 0 /\ m = n + 1 /\ n \in 0 .. m
  BY LenProperties
<1>3. t # << >> /\ (n = 0 <=> s = << >>)
  BY <1>1, <1>2, EmptySeq
<1>4. \A i \in 1 .. n : s[i] \in Seq(S)
  BY ElementOfSeq
<1>5. s # << >> => \E f : Flattens(f, s, n) /\ FlattenSeq(s) = f[n]
  BY FlattenIs
<1>6. s = << >> => FlattenSeq(s) = << >>
  BY EmptySeq DEF FlattenSeq
<1> HIDE DEF t, n, m
<1>7. PICK g : Flattens(g, t, m) /\ FlattenSeq(t) = g[m]
  BY <1>1, <1>3, FlattenIs
<1>8. /\ m > 0 => g[1] = t[1]
      /\ \A i \in 1 .. m : i + 1 \in 1 .. m => g[i + 1] = g[i] \o t[i + 1]
  <2>1. m \in Nat
    BY <1>2
  <2>2. Flattens(g, t, m)
    BY <1>7
  <2> QED BY <2>1, <2>2, FlattenStep
<1>9. CASE s = << >>
  <2>1. FlattenSeq(t) = e
    BY <1>1, <1>2, <1>3, <1>7, <1>8, <1>9
  <2> QED BY <1>6, <1>9, <2>1, ConcatEmptySeq, EmptySeq DEF t
<1>10. CASE s # << >>
  <2>1. PICK f : Flattens(f, s, n) /\ FlattenSeq(s) = f[n]
    BY <1>5, <1>10
  <2>2. n \in 1 .. n /\ n \in 1 .. m /\ n + 1 \in 1 .. m
    BY <1>2, <1>3, <1>10
  <2>3. \A i \in 1 .. n : f[i] \in Seq(S)
    BY <1>2, <1>4, <2>1, FlattenValues
  <2>4. \A i \in 1 .. n : f[i] = g[i]
    <3>1. n \in Nat /\ m \in Nat /\ n <= m /\ \A i \in 1 .. n : s[i] = t[i]
      BY <1>1, <1>2
    <3>2. Flattens(f, s, n) /\ Flattens(g, t, m)
      BY <1>7, <2>1
    <3> QED BY <3>1, <3>2, FlattenUnique
  <2>5. g[m] = g[n] \o e
    BY <1>1, <1>2, <1>8, <2>2
  <2> QED BY <1>7, <2>1, <2>2, <2>3, <2>4, <2>5 DEF t
<1> QED BY <1>9, <1>10

-----------------------------------------------------------------------------
(* What is in a sequence, and that it is there once. *)

\* The elements of a concatenation, which are distinct when the two have none in common.
LEMMA ConcatElements ==
    ASSUME NEW S, NEW s \in Seq(S), NEW t \in Seq(S)
    PROVE  /\ s \o t \in Seq(S)
           /\ ToSet(s \o t) = ToSet(s) \cup ToSet(t)
           /\ Distinct(s) /\ Distinct(t) /\ ToSet(s) \cap ToSet(t) = {} => Distinct(s \o t)
<1> DEFINE u == s \o t
           l == Len(s)
           m == Len(t)
<1>1. /\ u \in Seq(S) /\ DOMAIN s = 1 .. l /\ DOMAIN t = 1 .. m /\ DOMAIN u = 1 .. l + m
      /\ l \in Nat /\ m \in Nat
      /\ \A i \in 1 .. l + m : u[i] = IF i <= l THEN s[i] ELSE t[i - l]
  BY ConcatProperties, LenProperties
<1> HIDE DEF u, l, m
<1>2. \A i \in 1 .. l : i \in 1 .. l + m /\ u[i] = s[i]
  BY <1>1
<1>3. \A i \in 1 .. m : i + l \in 1 .. l + m /\ u[i + l] = t[i]
  <2> TAKE i \in 1 .. m
  <2>1. i + l \in 1 .. l + m /\ ~ (i + l <= l) /\ (i + l) - l = i
    BY <1>1
  <2>2. u[i + l] = t[(i + l) - l]
    BY <1>1, <2>1
  <2> QED BY <2>1, <2>2
<1>4. \A i \in 1 .. l + m : i \in 1 .. l \/ (i - l \in 1 .. m /\ i = (i - l) + l)
  BY <1>1
<1>5. ToSet(u) = ToSet(s) \cup ToSet(t)
  <2>1. ASSUME NEW i \in 1 .. l + m PROVE u[i] \in ToSet(s) \cup ToSet(t)
    <3>1. CASE i \in 1 .. l
      BY <1>1, <1>2, <3>1 DEF ToSet
    <3>2. CASE i - l \in 1 .. m /\ i = (i - l) + l
      BY <1>1, <1>3, <3>2 DEF ToSet
    <3> QED BY <1>4, <3>1, <3>2
  <2>2. ToSet(s) \subseteq ToSet(u)
    BY <1>1, <1>2 DEF ToSet
  <2>3. ToSet(t) \subseteq ToSet(u)
    BY <1>1, <1>3 DEF ToSet
  <2>4. ToSet(u) \subseteq ToSet(s) \cup ToSet(t)
    BY <1>1, <2>1 DEF ToSet
  <2> QED BY <2>2, <2>3, <2>4
<1>6. ASSUME Distinct(s), Distinct(t), ToSet(s) \cap ToSet(t) = {} PROVE Distinct(u)
  <2>1. ASSUME NEW i \in 1 .. l + m, NEW k \in 1 .. l + m, u[i] = u[k] PROVE i = k
    <3>1. CASE i \in 1 .. l /\ k \in 1 .. l
      BY <1>1, <1>2, <1>6, <2>1, <3>1 DEF Distinct
    <3>2. CASE i \in 1 .. l /\ k - l \in 1 .. m /\ k = (k - l) + l
      BY <1>1, <1>2, <1>3, <1>6, <2>1, <3>2 DEF ToSet
    <3>3. CASE k \in 1 .. l /\ i - l \in 1 .. m /\ i = (i - l) + l
      BY <1>1, <1>2, <1>3, <1>6, <2>1, <3>3 DEF ToSet
    <3>4. CASE i - l \in 1 .. m /\ i = (i - l) + l /\ k - l \in 1 .. m /\ k = (k - l) + l
      <4>1. t[i - l] = t[k - l]
        BY <1>3, <2>1, <3>4
      <4>2. i - l = k - l
        BY <1>1, <1>6, <3>4, <4>1 DEF Distinct
      <4> QED BY <3>4, <4>2
    <3> QED BY <1>4, <3>1, <3>2, <3>3, <3>4
  <2> QED BY <1>1, <2>1 DEF Distinct
<1> QED BY <1>1, <1>5, <1>6 DEF u

\* The elements when one is added, or one of several distinct ones removed.
LEMMA AppendElements ==
    ASSUME NEW S, NEW s \in Seq(S), NEW e \in S
    PROVE  ToSet(Append(s, e)) = ToSet(s) \cup {e}
<1>1. Append(s, e) = s \o <<e>> /\ <<e>> \in Seq(S) /\ ToSet(<<e>>) = {e}
  BY AppendIsConcat DEF ToSet
<1>2. ToSet(s \o <<e>>) = ToSet(s) \cup ToSet(<<e>>)
  BY <1>1, ConcatElements
<1> QED BY <1>1, <1>2, Zenon

LEMMA RemoveAtElements ==
    ASSUME NEW S, NEW s \in Seq(S), NEW j \in DOMAIN s, Distinct(s)
    PROVE  ToSet(RemoveAt(s, j)) = ToSet(s) \ {s[j]}
<1> DEFINE u == RemoveAt(s, j)
           l == Len(s)
<1>1. l \in Nat /\ DOMAIN s = 1 .. l /\ j \in 1 .. l
  BY LenProperties
<1>2. /\ u \in Seq(S) /\ Len(u) = l - 1
      /\ \A n \in 1 .. l - 1 : u[n] = IF n < j THEN s[n] ELSE s[n + 1]
  BY RemoveAtProperties
<1>3. DOMAIN u = 1 .. l - 1
  BY <1>2, LenProperties
<1> HIDE DEF u, l
<1>4. \A n \in 1 .. l - 1 : \E k \in 1 .. l : k # j /\ u[n] = s[k]
  <2> TAKE n \in 1 .. l - 1
  <2>1. CASE n < j
    BY <1>1, <1>2, <2>1
  <2>2. CASE ~ (n < j)
    <3>1. n + 1 \in 1 .. l /\ n + 1 # j
      BY <1>1, <2>2
    <3> QED BY <1>2, <2>2, <3>1
  <2> QED BY <2>1, <2>2
<1>5. \A k \in 1 .. l : k # j => \E n \in 1 .. l - 1 : u[n] = s[k]
  <2> TAKE k \in 1 .. l
  <2> HAVE k # j
  <2>1. CASE k < j
    <3>1. k \in 1 .. l - 1
      BY <1>1, <2>1
    <3> QED BY <1>2, <2>1, <3>1
  <2>2. CASE ~ (k < j)
    <3>1. k - 1 \in 1 .. l - 1 /\ ~ (k - 1 < j) /\ (k - 1) + 1 = k
      BY <1>1, <2>2
    <3>2. u[k - 1] = s[(k - 1) + 1]
      BY <1>2, <3>1
    <3> QED BY <3>1, <3>2
  <2> QED BY <2>1, <2>2
<1>6. \A k \in 1 .. l : s[k] = s[j] => k = j
  BY <1>1 DEF Distinct
<1>7. ToSet(u) = {u[n] : n \in 1 .. l - 1} /\ ToSet(s) = {s[n] : n \in 1 .. l}
  BY <1>1, <1>3 DEF ToSet
<1>8. ToSet(u) \subseteq ToSet(s) \ {s[j]}
  BY <1>4, <1>6, <1>7
<1>9. ToSet(s) \ {s[j]} \subseteq ToSet(u)
  BY <1>5, <1>7
<1> QED BY <1>8, <1>9 DEF u

\* The elements of sequences laid end to end, which are distinct when they are in each
\* sequence and no two have one in common.
LEMMA FlattenElements ==
    ASSUME NEW S, NEW s \in Seq(Seq(S)),
           \A i \in DOMAIN s : Distinct(s[i]),
           \A i, k \in DOMAIN s : i # k => ToSet(s[i]) \cap ToSet(s[k]) = {}
    PROVE  /\ FlattenSeq(s) \in Seq(S)
           /\ Distinct(FlattenSeq(s))
           /\ ToSet(FlattenSeq(s)) = UNION {ToSet(s[i]) : i \in DOMAIN s}
<1> DEFINE n == Len(s)
<1>1. n \in Nat /\ DOMAIN s = 1 .. n /\ \A i \in 1 .. n : s[i] \in Seq(S)
  BY LenProperties, ElementOfSeq
<1>2. CASE s = << >>
  <2>1. FlattenSeq(s) = << >> /\ DOMAIN s = {}
    BY <1>2, EmptySeq DEF FlattenSeq
  <2>2. << >> \in Seq(S) /\ Distinct(<< >>) /\ ToSet(<< >>) = {}
    BY EmptySeq DEF Distinct, ToSet
  <2> QED BY <2>1, <2>2
<1>3. CASE s # << >>
  <2>1. PICK f : Flattens(f, s, n) /\ FlattenSeq(s) = f[n]
    BY <1>3, FlattenIs
  <2>2. n # 0
    BY <1>3, EmptySeq
  <2> HIDE DEF n
  <2>3. \A i \in 1 .. n : f[i] \in Seq(S)
    BY <1>1, <2>1, FlattenValues
  <2>4. /\ n > 0 => f[1] = s[1]
        /\ \A i \in 1 .. n : i + 1 \in 1 .. n => f[i + 1] = f[i] \o s[i + 1]
    BY <1>1, <2>1, FlattenStep
  <2> DEFINE E(i) == UNION {ToSet(s[k]) : k \in 1 .. i}
             T    == {i \in Nat : i \in 1 .. n => Distinct(f[i]) /\ ToSet(f[i]) = E(i)}
  <2>5. 0 \in T
    OBVIOUS
  <2>6. ASSUME NEW i \in Nat, i \in T PROVE i + 1 \in T
    <3> SUFFICES ASSUME i + 1 \in 1 .. n
                 PROVE  Distinct(f[i + 1]) /\ ToSet(f[i + 1]) = E(i + 1)
      OBVIOUS
    <3>1. CASE i = 0
      <4>1. 1 .. 1 = {1} /\ f[1] = s[1] /\ 1 \in 1 .. n
        BY <1>1, <2>2, <2>4
      <4>2. E(1) = ToSet(s[1])
        BY <4>1
      <4> QED BY <1>1, <3>1, <4>1, <4>2
    <3>2. CASE i # 0
      <4>1. i \in 1 .. n /\ i + 1 \in DOMAIN s
        BY <1>1, <3>2
      <4>2. Distinct(f[i]) /\ ToSet(f[i]) = E(i) /\ f[i + 1] = f[i] \o s[i + 1]
        BY <2>4, <2>6, <4>1
      <4>3. ASSUME NEW k \in 1 .. i PROVE ToSet(s[k]) \cap ToSet(s[i + 1]) = {}
        <5>1. k \in DOMAIN s /\ k # i + 1
          BY <1>1, <4>1
        <5> QED BY <4>1, <5>1
      <4>4. E(i) \cap ToSet(s[i + 1]) = {}
        BY <4>3
      <4>5. 1 .. i + 1 = (1 .. i) \cup {i + 1}
        OBVIOUS
      <4>6. E(i + 1) = E(i) \cup ToSet(s[i + 1])
        BY <4>5
      <4>7. f[i] \in Seq(S) /\ s[i + 1] \in Seq(S) /\ Distinct(s[i + 1])
        BY <1>1, <2>3, <4>1
      <4> HIDE DEF E
      <4>8. Distinct(f[i] \o s[i + 1]) /\ ToSet(f[i] \o s[i + 1]) = E(i) \cup ToSet(s[i + 1])
        BY <4>2, <4>4, <4>7, ConcatElements
      <4> QED BY <4>2, <4>6, <4>8
    <3> QED BY <3>1, <3>2
  <2>7. Nat \subseteq T
    <3> HIDE DEF T
    <3> QED BY <2>5, <2>6, AllNumbers
  <2>8. n \in T /\ n \in 1 .. n
    BY <1>1, <2>2, <2>7
  <2> QED BY <1>1, <2>1, <2>3, <2>8
<1> QED BY <1>2, <1>3
=============================================================================
