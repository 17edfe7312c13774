--------------------------- MODULE FramingProofs ---------------------------
(***************************************************************************)
(* The byte stream of Framing stays in order, for every size of messages   *)
(* and buffers: the type invariant, StreamInOrder and the refinement of    *)
(* Channel.                                                                *)
(***************************************************************************)
EXTENDS Framing, SequenceTheorems, TLAPS

\* The two ends are each other's other end.
LEMMA TwoEnds ==
    ASSUME NEW e \in Ends
    PROVE  Other(e) \in Ends /\ Other(e) # e /\ Other(Other(e)) = e
BY DEF Ends, Other

\* There are no more ends than these two.
LEMMA OneOfTwo ==
    ASSUME NEW e \in Ends, NEW f \in Ends
    PROVE  f = e \/ f = Other(e)
BY DEF Ends, Other

\* The n bytes of the message m that follow the first k.
Part(m, k, n) == SubSeq(Message(m), k + 1, k + n)

\* A chunk of a message is a sequence of its bytes.
LEMMA ChunkBytes ==
    ASSUME NEW m \in Nat \ {0}, NEW k \in Nat, NEW n \in Nat \ {0}, k + n <= MsgLen
    PROVE  LET c == SubSeq(Message(m), k + 1, k + n) IN
           /\ c \in Seq(Bytes) /\ Len(c) = n
           /\ \A j \in 1 .. n : c[j] = <<m, k + j>>
<1> DEFINE c == SubSeq(Message(m), k + 1, k + n)
<1>1. Message(m) \in Seq(Bytes) /\ Len(Message(m)) = MsgLen
  BY MsgLenAssumption DEF Message, Bytes
<1>2. c \in Seq(Bytes) /\ Len(c) = n
  BY <1>1
<1>3. \A j \in 1 .. n : c[j] = Message(m)[k + j]
  BY <1>1
<1>4. \A j \in 1 .. n : k + j \in 1 .. MsgLen
  BY MsgLenAssumption
<1> QED BY <1>2, <1>3, <1>4 DEF Message

\* v is the stream w with them behind it.
Continued(v, w, m, k, n) ==
    /\ v \in Seq(Bytes) /\ InOrder(v) /\ v # << >>
    /\ v[Len(v)] = <<m, k + n>>
    /\ v[1] = IF w = << >> THEN <<m, k + 1>> ELSE w[1]
    /\ Len(v) = Len(w) + n
    /\ \A i \in 1 .. Len(w) : v[i] = w[i]
    /\ \A i \in 1 .. n : v[Len(w) + i] = <<m, k + i>>

\* A byte is the pair of its message and its place in it.
LEMMA ByteIsAPair ==
    ASSUME NEW x \in Bytes
    PROVE  x[1] \in Nat /\ x[2] \in 1 .. MsgLen /\ x = <<x[1], x[2]>>
<1>1. PICK a \in Nat \ {0}, b \in 1 .. MsgLen : x = <<a, b>>
  BY DEF Bytes
<1> QED BY <1>1

\* The chunk that follows the last byte keeps the stream in order.
LEMMA AppendKeepsOrder ==
    ASSUME NEW w \in Seq(Bytes), InOrder(w),
           NEW m \in Nat \ {0}, NEW k \in Nat, NEW n \in Nat \ {0}, k + n <= MsgLen,
           w # << >> => w[Len(w)] = IF k = 0 THEN <<m - 1, MsgLen>> ELSE <<m, k>>
    PROVE  Continued(w \o Part(m, k, n), w, m, k, n)
<1> DEFINE c == Part(m, k, n)
           v == w \o c
<1>1. c \in Seq(Bytes) /\ Len(c) = n /\ \A j \in 1 .. n : c[j] = <<m, k + j>>
  BY ChunkBytes DEF Part
<1> HIDE DEF c
<1>2. /\ v \in Seq(Bytes) /\ Len(v) = Len(w) + n
      /\ \A i \in 1 .. Len(w) + n : v[i] = IF i <= Len(w) THEN w[i] ELSE c[i - Len(w)]
  <2>1. \A i \in 1 .. Len(w) + Len(c) : v[i] = IF i <= Len(w) THEN w[i] ELSE c[i - Len(w)]
    BY <1>1, ConcatProperties, Zenon
  <2>2. v \in Seq(Bytes) /\ Len(v) = Len(w) + Len(c)
    BY <1>1, ConcatProperties, Zenon
  <2> QED BY <1>1, <2>1, <2>2
<1> HIDE DEF v
<1> DEFINE l == Len(w)
<1>3. l \in Nat /\ DOMAIN w = 1 .. l /\ DOMAIN v = 1 .. l + n /\ (w = << >> <=> l = 0)
  BY <1>2
<1>4. \A i \in 1 .. l : v[i] = w[i]
  BY <1>2, <1>3
<1>5. \A i \in l + 1 .. l + n : v[i] = <<m, k + (i - l)>>
  <2> TAKE i \in l + 1 .. l + n
  <2>1. i - l \in 1 .. n /\ i \in 1 .. l + n /\ ~ (i <= l)
    BY <1>3
  <2>2. v[i] = c[i - l]
    BY <1>2, <2>1
  <2> QED BY <2>1, <2>2, <1>1
<1>6. \A i \in 1 .. l : w[i][1] \in Nat /\ w[i][2] \in 1 .. MsgLen
                         /\ w[i] = <<w[i][1], w[i][2]>>
  <2> TAKE i \in 1 .. l
  <2>1. w[i] \in Bytes BY <1>3
  <2> QED BY <2>1, ByteIsAPair
<1>7. l > 0 => w[l] = IF k = 0 THEN <<m - 1, MsgLen>> ELSE <<m, k>>
  BY <1>3
<1>a. /\ \A i \in DOMAIN w : \A d \in 0 .. MsgLen - w[i][2] :
             i + d <= Len(w) => w[i + d] = <<w[i][1], w[i][2] + d>>
      /\ \A i \in DOMAIN w :
             i < Len(w) /\ w[i][2] = MsgLen => w[i + 1] = <<w[i][1] + 1, 1>>
  BY Zenon DEF InOrder
<1>b. \A i \in 1 .. l : \A d \in 0 .. MsgLen - w[i][2] :
          i + d <= l => w[i + d] = <<w[i][1], w[i][2] + d>>
  BY <1>3, <1>a, Zenon
<1>e. \A i \in 1 .. l : i < l /\ w[i][2] = MsgLen => w[i + 1] = <<w[i][1] + 1, 1>>
  BY <1>3, <1>a, Zenon
<1> HIDE DEF l
<1>f. \A i \in 1 .. l + n : v[i][2] \in 1 .. MsgLen
  <2> TAKE i \in 1 .. l + n
  <2>1. CASE i <= l
    BY <2>1, <1>3, <1>4, <1>6
  <2>2. CASE i > l
    <3>1. i \in l + 1 .. l + n /\ k + (i - l) \in 1 .. MsgLen
      BY <2>2, <1>3, MsgLenAssumption
    <3> QED BY <3>1, <1>5
  <2> QED BY <2>1, <2>2, <1>3
<1>8. ASSUME NEW i \in 1 .. l + n, NEW d \in 0 .. MsgLen - v[i][2], i + d <= l + n
      PROVE  v[i + d] = <<v[i][1], v[i][2] + d>>
  <2>0. v[i][2] \in 1 .. MsgLen /\ d \in Nat /\ v[i][2] + d <= MsgLen
    BY <1>f, MsgLenAssumption
  <2>1. CASE i + d <= l
    <3>1. i \in 1 .. l /\ i + d \in 1 .. l
      BY <2>0, <2>1, <1>3
    <3>2. v[i] = w[i] /\ v[i + d] = w[i + d]
      BY <3>1, <1>4
    <3>3. d \in 0 .. MsgLen - w[i][2]
      BY <2>0, <3>2, MsgLenAssumption
    <3> QED BY <3>1, <3>2, <3>3, <2>1, <1>b
  <2>2. CASE i > l
    <3>1. i \in l + 1 .. l + n /\ i + d \in l + 1 .. l + n /\ d \in Int
      BY <2>2, <1>3, <1>8
    <3>2. v[i] = <<m, k + (i - l)>> /\ v[i + d] = <<m, k + ((i + d) - l)>>
      BY <3>1, <1>5
    <3> QED BY <3>1, <3>2, <1>3
  <2>3. CASE i <= l /\ i + d > l
    <3> DEFINE a == l - i
    <3>1. i \in 1 .. l /\ d \in Int /\ a \in Nat /\ i + a = l /\ i + d \in l + 1 .. l + n
          /\ a < d
      BY <2>3, <1>3, <1>8
    <3>2. v[i] = w[i]
      BY <3>1, <1>4
    <3>b. w[i][2] \in 1 .. MsgLen /\ w[i][2] + d <= MsgLen
      BY <2>0, <3>2
    <3>a. a \in 0 .. MsgLen - w[i][2] /\ w[i][2] + a < MsgLen /\ i + a <= l
      BY <3>1, <3>b, <1>3, MsgLenAssumption
    <3>3. w[l] = <<w[i][1], w[i][2] + a>>
      BY <3>1, <3>a, <1>b
    <3>c. w[l] = IF k = 0 THEN <<m - 1, MsgLen>> ELSE <<m, k>>
      BY <3>1, <1>3, <1>7
    <3>4. k # 0 /\ w[i][1] = m /\ w[i][2] + a = k
      <4>1. w[l][2] = w[i][2] + a /\ w[l][1] = w[i][1]
        BY <3>3
      <4>2. k # 0
        <5>1. k = 0 => w[l] = <<m - 1, MsgLen>>
          BY <3>c
        <5>2. k = 0 => w[l][2] = MsgLen
          BY <5>1
        <5> QED BY <4>1, <5>2, <3>a, <3>b, MsgLenAssumption
      <4>3. w[l] = <<m, k>>
        BY <4>2, <3>c
      <4> QED BY <4>1, <4>2, <4>3
    <3>5. v[i + d] = <<m, k + ((i + d) - l)>>
      BY <3>1, <1>5
    <3>d. k = w[i][2] + (l - i) /\ w[i][2] \in Int
      BY <3>4, <3>b, MsgLenAssumption
    <3>6. k + ((i + d) - l) = w[i][2] + d
      BY <3>1, <3>d, <1>3
    <3> QED BY <3>2, <3>4, <3>5, <3>6
  <2> QED BY <2>1, <2>2, <2>3, <1>3, <1>8
<1>9. ASSUME NEW i \in 1 .. l + n, i < l + n, v[i][2] = MsgLen
      PROVE  v[i + 1] = <<v[i][1] + 1, 1>>
  <2>1. CASE i < l
    <3>1. i \in 1 .. l /\ i + 1 \in 1 .. l
      BY <2>1, <1>3
    <3>2. v[i] = w[i] /\ v[i + 1] = w[i + 1]
      BY <3>1, <1>4
    <3> QED BY <3>1, <3>2, <2>1, <1>e, <1>9
  <2>2. CASE i = l
    <3>1. i \in 1 .. l /\ i + 1 \in l + 1 .. l + n /\ l > 0
      BY <2>2, <1>3
    <3>2. v[i] = w[l] /\ v[i + 1] = <<m, k + ((i + 1) - l)>>
      BY <3>1, <2>2, <1>4, <1>5
    <3>3. k = 0 /\ w[l][1] = m - 1
      BY <3>1, <3>2, <1>7, <1>9, MsgLenAssumption
    <3> QED BY <3>2, <3>3, <2>2, <1>3
  <2>3. CASE i > l
    <3>1. i \in l + 1 .. l + n /\ k + (i - l) < MsgLen
      BY <2>3, <1>3, <1>9, MsgLenAssumption
    <3>2. v[i] = <<m, k + (i - l)>>
      BY <3>1, <1>5
    <3> QED BY <3>1, <3>2, <1>9, MsgLenAssumption
  <2> QED BY <2>1, <2>2, <2>3, <1>3, <1>9
<1>10. InOrder(v)
  BY <1>2, <1>3, <1>8, <1>9 DEF InOrder, l
<1>11. v[l + n] = <<m, k + n>> /\ v # << >>
  BY <1>2, <1>3, <1>5
<1>12. v[1] = IF w = << >> THEN <<m, k + 1>> ELSE w[1]
  <2>1. CASE l = 0
    <3>1. v[l + 1] = <<m, k + ((l + 1) - l)>> BY <1>5, <1>3
    <3> QED BY <2>1, <3>1, <1>3
  <2>2. CASE l > 0
    <3>1. 1 \in 1 .. l BY <2>2, <1>3
    <3> QED BY <2>2, <3>1, <1>3, <1>4
  <2> QED BY <2>1, <2>2, <1>3
<1>13. \A i \in 1 .. n : v[l + i] = <<m, k + i>>
  BY <1>3, <1>5
<1> QED BY <1>2, <1>4, <1>10, <1>11, <1>12, <1>13 DEF v, c, l, Continued

\* Removing bytes from the front keeps the stream in order.
LEMMA DropKeepsOrder ==
    ASSUME NEW w \in Seq(Bytes), InOrder(w), NEW n \in 1 .. Len(w)
    PROVE  LET v == SubSeq(w, n + 1, Len(w)) IN
           /\ v \in Seq(Bytes) /\ InOrder(v) /\ Len(v) = Len(w) - n
           /\ \A i \in 1 .. Len(w) - n : v[i] = w[n + i]
<1> DEFINE l == Len(w)
           v == SubSeq(w, n + 1, l)
<1>1. l \in Nat /\ n \in 1 .. l /\ DOMAIN w = 1 .. l
  OBVIOUS
<1>2. v \in Seq(Bytes) /\ Len(v) = l - n /\ DOMAIN v = 1 .. l - n
      /\ \A i \in 1 .. l - n : v[i] = w[n + i]
  <2>1. v = [i \in 1 .. l - n |-> w[(n + 1) + i - 1]]
    BY <1>1, SubSeqProperties
  <2>2. \A i \in 1 .. l - n : (n + 1) + i - 1 = n + i /\ n + i \in DOMAIN w
    BY <1>1
  <2>3. \A i \in 1 .. l - n : v[i] = w[n + i] /\ w[n + i] \in Bytes
    BY <2>1, <2>2
  <2>4. l - n \in Nat
    BY <1>1
  <2> HIDE DEF v, l
  <2> QED BY <2>1, <2>3, <2>4
<1>a. /\ \A i \in DOMAIN w : \A d \in 0 .. MsgLen - w[i][2] :
             i + d <= Len(w) => w[i + d] = <<w[i][1], w[i][2] + d>>
      /\ \A i \in DOMAIN w :
             i < Len(w) /\ w[i][2] = MsgLen => w[i + 1] = <<w[i][1] + 1, 1>>
  BY Zenon DEF InOrder
<1>3. \A i \in 1 .. l : \A d \in 0 .. MsgLen - w[i][2] :
          i + d <= l => w[i + d] = <<w[i][1], w[i][2] + d>>
  BY <1>1, <1>a, Zenon
<1>4. \A i \in 1 .. l : i < l /\ w[i][2] = MsgLen => w[i + 1] = <<w[i][1] + 1, 1>>
  BY <1>1, <1>a, Zenon
<1> HIDE DEF l, v
<1>5. ASSUME NEW i \in 1 .. l - n, NEW d \in 0 .. MsgLen - v[i][2], i + d <= l - n
      PROVE  v[i + d] = <<v[i][1], v[i][2] + d>>
  <2>1. v[i] = w[n + i] /\ n + i \in 1 .. l
    BY <1>1, <1>2
  <2>2. w[n + i] \in Bytes
    BY <1>1, <2>1
  <2>3. d \in Int /\ 0 <= d /\ d \in 0 .. MsgLen - w[n + i][2]
    BY <2>1, <2>2, MsgLenAssumption DEF Bytes
  <2>4. i + d \in 1 .. l - n /\ (n + i) + d = n + (i + d) /\ (n + i) + d <= l
    BY <2>3, <1>1, <1>5
  <2>5. v[i + d] = w[n + (i + d)]
    BY <2>4, <1>2
  <2>6. w[(n + i) + d] = <<w[n + i][1], w[n + i][2] + d>>
    BY <2>1, <2>3, <2>4, <1>3
  <2> QED BY <2>1, <2>4, <2>5, <2>6
<1>6. ASSUME NEW i \in 1 .. l - n, i < l - n, v[i][2] = MsgLen
      PROVE  v[i + 1] = <<v[i][1] + 1, 1>>
  <2>1. v[i] = w[n + i] /\ n + i \in 1 .. l /\ n + i < l /\ i + 1 \in 1 .. l - n
        /\ (n + i) + 1 = n + (i + 1)
    BY <1>1, <1>2, <1>6
  <2>2. v[i + 1] = w[n + (i + 1)]
    BY <2>1, <1>2
  <2>3. w[(n + i) + 1] = <<w[n + i][1] + 1, 1>>
    BY <2>1, <1>4, <1>6
  <2> QED BY <2>1, <2>2, <2>3
<1>7. \A i \in DOMAIN v : \A d \in 0 .. MsgLen - v[i][2] :
          i + d <= Len(v) => v[i + d] = <<v[i][1], v[i][2] + d>>
  BY <1>2, <1>5
<1>8. \A i \in DOMAIN v : i < Len(v) /\ v[i][2] = MsgLen => v[i + 1] = <<v[i][1] + 1, 1>>
  BY <1>2, <1>6
<1>9. InOrder(v)
  BY <1>7, <1>8 DEF InOrder
<1> QED BY <1>2, <1>9 DEF v, l

\* The bytes at the head of the stream are the ones of the message that is expected.
LEMMA HeadOfStream ==
    ASSUME NEW w \in Seq(Bytes), InOrder(w), NEW m \in Nat, NEW k \in Nat,
           NEW n \in Nat \ {0}, n <= Len(w), k + n <= MsgLen, w[1] = <<m, k + 1>>
    PROVE  /\ \A j \in 1 .. n : w[j] = <<m, k + j>>
           /\ n < Len(w) => w[n + 1] = IF k + n = MsgLen THEN <<m + 1, 1>>
                                       ELSE <<m, k + n + 1>>
<1> DEFINE l == Len(w)
<1>1. l \in Nat /\ DOMAIN w = 1 .. l /\ 1 \in 1 .. l /\ w[1][2] = k + 1 /\ w[1][1] = m
  OBVIOUS
<1>2. \A d \in 0 .. MsgLen - (k + 1) : 1 + d <= l => w[1 + d] = <<m, (k + 1) + d>>
  <2>1. \A i \in DOMAIN w : \A d \in 0 .. MsgLen - w[i][2] :
            i + d <= l => w[i + d] = <<w[i][1], w[i][2] + d>>
    BY DEF InOrder
  <2>2. \A d \in 0 .. MsgLen - w[1][2] : 1 + d <= l => w[1 + d] = <<w[1][1], w[1][2] + d>>
    BY <1>1, <2>1
  <2> HIDE DEF l
  <2> QED BY <1>1, <2>2
<1>3. \A i \in 1 .. l : i < l /\ w[i][2] = MsgLen => w[i + 1] = <<w[i][1] + 1, 1>>
  BY <1>1 DEF InOrder
<1>4. n <= l
  OBVIOUS
<1> HIDE DEF l
<1>5. \A d \in 0 .. n - 1 : d \in 0 .. MsgLen - (k + 1) /\ 1 + d <= l
  BY <1>1, <1>4, MsgLenAssumption
<1>6. \A j \in 1 .. n : w[j] = <<m, k + j>>
  <2> TAKE j \in 1 .. n
  <2> DEFINE d == j - 1
  <2>1. d \in 0 .. n - 1 /\ 1 + d = j /\ (k + 1) + d = k + j
    OBVIOUS
  <2>2. w[1 + d] = <<m, (k + 1) + d>>
    BY <2>1, <1>5, <1>2
  <2> QED BY <2>1, <2>2
<1>7. ASSUME n < l
      PROVE  w[n + 1] = IF k + n = MsgLen THEN <<m + 1, 1>> ELSE <<m, k + n + 1>>
  <2>1. CASE k + n = MsgLen
    <3>1. w[n] = <<m, MsgLen>> /\ n \in 1 .. l
      BY <2>1, <1>6, <1>1, <1>4
    <3> QED BY <3>1, <1>3, <1>7, <2>1
  <2>2. CASE k + n # MsgLen
    <3>1. n \in 0 .. MsgLen - (k + 1) /\ 1 + n <= l /\ (k + 1) + n = k + n + 1
          /\ 1 + n = n + 1
      BY <2>2, <1>1, <1>7, MsgLenAssumption
    <3>2. w[1 + n] = <<m, (k + 1) + n>>
      BY <3>1, <1>2
    <3> QED BY <3>1, <3>2, <2>2
  <2> QED BY <2>1, <2>2
<1> QED BY <1>6, <1>7 DEF l

-----------------------------------------------------------------------------
(* Types. *)

\* The initial state has the types.
LEMMA InitTypes == Init => TypeOK
<1> SUFFICES ASSUME Init PROVE TypeOK
  OBVIOUS
<1>1. 0 \in 0 .. MsgLen - 1
  BY MsgLenAssumption
<1>2. count \in [Ends -> 0 .. MsgLen - 1] /\ sent \in [Ends -> Nat]
  BY <1>1 DEF Init
<1>3. wire \in [Ends -> Seq(Bytes)]
  BY DEF Init
<1>4. got \in [Ends -> Seq([1 .. MsgLen -> Bytes \cup {NoByte}])]
  BY DEF Init
<1>5. buf \in [Ends -> [1 .. MsgLen -> Bytes \cup {NoByte}]]
  <2>1. [i \in 1 .. MsgLen |-> NoByte] \in [1 .. MsgLen -> Bytes \cup {NoByte}]
    BY Zenon
  <2> QED BY <2>1, Zenon DEF Init
<1>6. call \in [Ends -> {"none", "send", "recv"}] /\ open \in [Ends -> BOOLEAN]
      /\ reset \in BOOLEAN
  BY DEF Init
<1> QED BY <1>2, <1>3, <1>4, <1>5, <1>6 DEF TypeOK

\* A loop that moves bytes keeps its count below the length of a message.
LEMMA MovedTypes ==
    ASSUME TypeOK, NEW e \in Ends, NEW n \in Nat \ {0}, Moved(e, n)
    PROVE  /\ call' \in [Ends -> {"none", "send", "recv"}]
           /\ count' \in [Ends -> 0 .. MsgLen - 1]
           /\ sent' \in [Ends -> Nat]
<1>1. CASE /\ count[e] + n < MsgLen
           /\ count' = [count EXCEPT ![e] = @ + n]
           /\ UNCHANGED <<call, sent>>
  <2>1. count[e] + n \in 0 .. MsgLen - 1
    BY <1>1, MsgLenAssumption DEF TypeOK
  <2> QED BY <1>1, <2>1 DEF TypeOK
<1>2. CASE Returned(e) /\ sent' = [sent EXCEPT ![e] = @ + 1]
  BY <1>2, MsgLenAssumption DEF TypeOK, Returned
<1> QED BY <1>1, <1>2 DEF Moved

\* Each of the three steps that move bytes keeps the types.
LEMMA SendBytesTypes ==
    ASSUME TypeOK, NEW e \in Ends, send_bytes(e)
    PROVE  TypeOK'
<1>1. PICK n \in 1 .. MsgLen - count[e] :
            /\ wire' = [wire EXCEPT ![e] = @ \o Chunk(e, n)]
            /\ Moved(e, n)
  BY DEF send_bytes
<1>2. count[e] \in Nat /\ sent[e] \in Nat /\ count[e] + n <= MsgLen /\ n \in Nat \ {0}
  BY <1>1, MsgLenAssumption DEF TypeOK
<1>3. Chunk(e, n) \in Seq(Bytes)
  BY <1>2, ChunkBytes DEF Chunk
<1>4. wire[e] \o Chunk(e, n) \in Seq(Bytes)
  BY <1>3, ConcatProperties DEF TypeOK
<1>5. wire' \in [Ends -> Seq(Bytes)]
  BY <1>1, <1>4 DEF TypeOK
<1> QED BY <1>1, <1>2, <1>5, MovedTypes DEF TypeOK, send_bytes

\* ... those to an end that is closed,
LEMMA SendToClosedTypes ==
    ASSUME TypeOK, NEW e \in Ends, send_to_closed(e)
    PROVE  TypeOK'
<1>1. PICK n \in 1 .. MsgLen - count[e] : Moved(e, n)
  BY DEF send_to_closed
<1>2. n \in Nat \ {0}
  BY <1>1, MsgLenAssumption DEF TypeOK
<1>3. /\ call' \in [Ends -> {"none", "send", "recv"}]
      /\ count' \in [Ends -> 0 .. MsgLen - 1]
      /\ sent' \in [Ends -> Nat]
  BY <1>1, <1>2, MovedTypes
<1>4. reset' \in BOOLEAN /\ UNCHANGED <<wire, buf, got, open>>
  BY DEF send_to_closed
<1> QED BY <1>3, <1>4 DEF TypeOK

\* What is left in the buffer is a message's worth of bytes.
LEMMA FilledTypes ==
    ASSUME TypeOK, NEW e \in Ends, NEW n \in 1 .. MsgLen - count[e],
           n <= Len(wire[Other(e)])
    PROVE  Filled(e, n) \in [1 .. MsgLen -> Bytes \cup {NoByte}]
<1>1. wire[Other(e)] \in Seq(Bytes) /\ count[e] \in Nat
      /\ buf[e] \in [1 .. MsgLen -> Bytes \cup {NoByte}]
  BY TwoEnds DEF TypeOK
<1>2. ASSUME NEW i \in 1 .. MsgLen, i \in count[e] + 1 .. count[e] + n
      PROVE  wire[Other(e)][i - count[e]] \in Bytes
  <2>1. i - count[e] \in 1 .. Len(wire[Other(e)])
    BY <1>1, <1>2, MsgLenAssumption
  <2> QED BY <1>1, <2>1
<1> QED BY <1>1, <1>2 DEF Filled

\* ... and those that are received.
LEMMA RecvBytesTypes ==
    ASSUME TypeOK, NEW e \in Ends, recv_bytes(e)
    PROVE  TypeOK'
<1> DEFINE r == Other(e)
<1>1. PICK n \in 1 .. MsgLen - count[e] :
        /\ n <= Len(wire[r])
        /\ buf' = [buf EXCEPT ![e] = Filled(e, n)]
        /\ wire' = [wire EXCEPT ![r] = SubSeq(@, n + 1, Len(@))]
        /\ \/ /\ count[e] + n < MsgLen
              /\ count' = [count EXCEPT ![e] = @ + n]
              /\ UNCHANGED <<call, got>>
           \/ /\ count[e] + n = MsgLen
              /\ Returned(e)
              /\ got' = [got EXCEPT ![e] = Append(@, Filled(e, n))]
  BY DEF recv_bytes
<1>2. n \in Nat \ {0} /\ count[e] \in Nat
  BY <1>1, MsgLenAssumption DEF TypeOK
<1>3. r \in Ends /\ wire[r] \in Seq(Bytes)
  BY TwoEnds DEF TypeOK
<1>4. Filled(e, n) \in [1 .. MsgLen -> Bytes \cup {NoByte}]
  BY <1>1, FilledTypes
<1>5. SubSeq(wire[r], n + 1, Len(wire[r])) \in Seq(Bytes)
  BY <1>2, <1>3
<1> HIDE DEF r
<1>6. wire' \in [Ends -> Seq(Bytes)]
  BY <1>1, <1>3, <1>5 DEF TypeOK
<1>7. buf' \in [Ends -> [1 .. MsgLen -> Bytes \cup {NoByte}]]
  BY <1>1, <1>4 DEF TypeOK
<1>8. CASE /\ count[e] + n < MsgLen
           /\ count' = [count EXCEPT ![e] = @ + n]
           /\ UNCHANGED <<call, got>>
  <2>1. count[e] + n \in 0 .. MsgLen - 1
    BY <1>2, <1>8, MsgLenAssumption
  <2> QED BY <1>6, <1>7, <1>8, <2>1 DEF TypeOK, recv_bytes
<1>9. CASE Returned(e) /\ got' = [got EXCEPT ![e] = Append(@, Filled(e, n))]
  <2>1. Append(got[e], Filled(e, n)) \in Seq([1 .. MsgLen -> Bytes \cup {NoByte}])
    BY <1>4 DEF TypeOK
  <2>2. got' \in [Ends -> Seq([1 .. MsgLen -> Bytes \cup {NoByte}])]
    BY <1>9, <2>1 DEF TypeOK
  <2>3. call' \in [Ends -> {"none", "send", "recv"}] /\ count' \in [Ends -> 0 .. MsgLen - 1]
    BY <1>9, MsgLenAssumption DEF TypeOK, Returned
  <2> QED BY <1>6, <1>7, <2>2, <2>3 DEF TypeOK, recv_bytes
<1> QED BY <1>1, <1>8, <1>9

\* So do the steps that end a call or a connection.
LEMMA EndTypes ==
    ASSUME TypeOK, NEW e \in Ends, Close(e) \/ send_fails(e) \/ recv_fails(e)
    PROVE  TypeOK'
<1>1. Other(e) \in Ends /\ << >> \in Seq(Bytes) /\ 0 \in 0 .. MsgLen - 1
  BY TwoEnds, MsgLenAssumption
<1>2. Returned(e) /\ UNCHANGED <<buf, sent, got>>
  BY DEF Close, send_fails, recv_fails
<1>3. count' \in [Ends -> 0 .. MsgLen - 1] /\ call' \in [Ends -> {"none", "send", "recv"}]
  BY <1>1, <1>2 DEF TypeOK, Returned
<1>4. wire' = wire \/ wire' = [wire EXCEPT ![Other(e)] = << >>]
  BY DEF Close, send_fails, recv_fails
<1>5. wire' \in [Ends -> Seq(Bytes)]
  BY <1>1, <1>4 DEF TypeOK
<1>6. open' = open \/ open' = [open EXCEPT ![e] = FALSE]
  BY DEF Close, send_fails, recv_fails
<1>7. open' \in [Ends -> BOOLEAN]
  BY <1>6 DEF TypeOK
<1>8. reset' = reset \/ reset' = (reset \/ wire[Other(e)] # << >>)
  BY DEF Close, send_fails, recv_fails
<1>9. reset' \in BOOLEAN
  BY <1>8, Zenon DEF TypeOK
<1> QED BY <1>2, <1>3, <1>5, <1>7, <1>9 DEF TypeOK

\* Every step keeps the types.
LEMMA StepTypes == TypeOK /\ [Next]_vars => TypeOK'
<1> SUFFICES ASSUME TypeOK, [Next]_vars PROVE TypeOK'
  OBVIOUS
<1>1. CASE UNCHANGED vars
  BY <1>1 DEF TypeOK, vars
<1>2. ASSUME NEW e \in Ends, StartSend(e) \/ StartRecv(e)
      PROVE  TypeOK'
  <2>1. \E op \in {"send", "recv"} : call' = [call EXCEPT ![e] = op]
    BY <1>2 DEF StartSend, StartRecv
  <2>2. call' \in [Ends -> {"none", "send", "recv"}]
    BY <2>1 DEF TypeOK
  <2>3. count' = [count EXCEPT ![e] = 0] /\ UNCHANGED <<wire, buf, sent, got, open, reset>>
    BY <1>2 DEF StartSend, StartRecv
  <2>4. count' \in [Ends -> 0 .. MsgLen - 1]
    BY <2>3, MsgLenAssumption DEF TypeOK
  <2> QED BY <2>2, <2>3, <2>4 DEF TypeOK
<1>3. ASSUME NEW e \in Ends, Close(e) \/ send_fails(e) \/ recv_fails(e)
      PROVE  TypeOK'
  BY <1>3, EndTypes
<1>4. ASSUME NEW e \in Ends, send_bytes(e) \/ send_to_closed(e) \/ recv_bytes(e)
      PROVE  TypeOK'
  BY <1>4, SendBytesTypes, SendToClosedTypes, RecvBytesTypes
<1> QED BY <1>1, <1>2, <1>3, <1>4 DEF Next, send_tcp_msg, recv_tcp_msg

\* Whatever the sizes, the variables keep their types; a loop's count never reaches the
\* length of a message between two calls of the kernel.
THEOREM FramingTypeCorrect == Spec => []TypeOK
BY InitTypes, StepTypes, PTL DEF Spec

-----------------------------------------------------------------------------
(* The order of the bytes. *)

\* Sending the next bytes keeps a stream right at both ends.
LEMMA SendKeepsOrder ==
    ASSUME NEW w \in Seq(Bytes), NEW g, NEW b, NEW p, NEW m \in Nat,
           NEW s \in 0 .. MsgLen - 1, NEW n \in 1 .. MsgLen - s,
           Carries(w, g, b, p, m), EndsRight(w, g, p, s, m)
    PROVE  LET v == w \o Part(m + 1, s, n) IN
           /\ s + n < MsgLen => Carries(v, g, b, p, m) /\ EndsRight(v, g, p, s + n, m)
           /\ s + n = MsgLen => Carries(v, g, b, p, m + 1) /\ EndsRight(v, g, p, 0, m + 1)
<1> DEFINE k == m + 1
           v == w \o Part(k, s, n)
<1>1. /\ k \in Nat \ {0} /\ s \in Nat /\ n \in Nat \ {0} /\ s + n <= MsgLen
      /\ k - 1 = m
  BY MsgLenAssumption
<1>2. w # << >> => w[Len(w)] = IF s = 0 THEN <<k - 1, MsgLen>> ELSE <<k, s>>
  BY <1>1 DEF EndsRight
<1>3. InOrder(w)
  BY DEF Carries
<1> HIDE DEF k
<1>4. /\ v \in Seq(Bytes) /\ InOrder(v) /\ v # << >>
      /\ v[Len(v)] = <<k, s + n>>
      /\ v[1] = IF w = << >> THEN <<k, s + 1>> ELSE w[1]
      /\ Len(v) = Len(w) + n
      /\ \A i \in 1 .. Len(w) : v[i] = w[i]
      /\ \A i \in 1 .. n : v[Len(w) + i] = <<k, s + i>>
  <2>1. /\ w \in Seq(Bytes) /\ InOrder(w) /\ k \in Nat \ {0} /\ s \in Nat
        /\ n \in Nat \ {0} /\ s + n <= MsgLen
        /\ w # << >> => w[Len(w)] = IF s = 0 THEN <<k - 1, MsgLen>> ELSE <<k, s>>
    BY <1>1, <1>2, <1>3
  <2>2. Continued(v, w, k, s, n)
    BY <2>1, AppendKeepsOrder
  <2> HIDE DEF v
  <2> QED BY <2>2 DEF Continued
<1> USE DEF k
<1> HIDE DEF v
<1>5. v[1] = <<Len(g) + 1, p + 1>>
  <2>1. CASE w = << >>
    <3>1. Len(g) = m /\ p = s
      BY <2>1 DEF EndsRight
    <3>2. v[1] = <<m + 1, s + 1>>
      BY <2>1, <1>4
    <3> QED BY <3>1, <3>2
  <2>2. CASE w # << >>
    <3>1. w[1] = <<Len(g) + 1, p + 1>>
      BY <2>2 DEF Carries
    <3>2. v[1] = w[1]
      BY <2>2, <1>4
    <3> QED BY <3>1, <3>2
  <2> QED BY <2>1, <2>2
<1>6. ASSUME NEW i \in DOMAIN v, v[i][2] = MsgLen
      PROVE  v[i][1] <= m \/ (v[i][1] = m + 1 /\ s + n = MsgLen)
  <2>1. i \in 1 .. Len(w) + n /\ Len(w) \in Nat
    BY <1>4, <1>1
  <2>2. CASE i <= Len(w)
    BY <2>1, <2>2, <1>4, <1>6 DEF Carries
  <2>3. CASE i > Len(w)
    <3> DEFINE j == i - Len(w)
    <3>1. j \in 1 .. n /\ Len(w) + j = i
      BY <2>1, <2>3, <1>1
    <3>2. v[i] = <<m + 1, s + j>>
      BY <3>1, <1>4
    <3>3. s + j = MsgLen
      BY <3>2, <1>6
    <3> QED BY <3>1, <3>2, <3>3, <1>1, MsgLenAssumption
  <2> QED BY <2>1, <2>2, <2>3
<1>7. ASSUME NEW i \in DOMAIN v PROVE v[i][1] \in Nat
  <2>1. v[i] \in Bytes
    BY <1>4
  <2> QED BY <2>1 DEF Bytes
<1>8. ASSUME s + n < MsgLen
      PROVE  Carries(v, g, b, p, m) /\ EndsRight(v, g, p, s + n, m)
  <2>1. \A i \in DOMAIN v : v[i][2] = MsgLen => v[i][1] <= m
    BY <1>6, <1>8, <1>1, MsgLenAssumption
  <2>2. Carries(v, g, b, p, m)
    BY <2>1, <1>4, <1>5 DEF Carries
  <2> QED BY <2>2, <1>4, <1>1 DEF EndsRight
<1>9. ASSUME s + n = MsgLen
      PROVE  Carries(v, g, b, p, m + 1) /\ EndsRight(v, g, p, 0, m + 1)
  <2>1. \A i \in DOMAIN v : v[i][2] = MsgLen => v[i][1] <= m + 1
    BY <1>6, <1>7
  <2>2. Carries(v, g, b, p, m + 1)
    BY <2>1, <1>4, <1>5 DEF Carries
  <2> QED BY <2>2, <1>4, <1>9 DEF EndsRight
<1> QED BY <1>8, <1>9 DEF v

\* So does receiving them: a part of a message into the buffer, or the end of one.
LEMMA RecvKeepsOrder ==
    ASSUME NEW w \in Seq(Bytes), NEW T, NEW g \in Seq(T),
           NEW b \in [1 .. MsgLen -> Bytes \cup {NoByte}],
           NEW m \in Nat, NEW p \in 0 .. MsgLen - 1, NEW s \in 0 .. MsgLen - 1,
           NEW n \in 1 .. MsgLen - p, n <= Len(w),
           Carries(w, g, b, p, m)
    PROVE  LET v == SubSeq(w, n + 1, Len(w))
               c == [i \in 1 .. MsgLen |-> IF i \in p + 1 .. p + n THEN w[i - p] ELSE b[i]]
           IN
           /\ p + n < MsgLen =>
                /\ Carries(v, g, c, p + n, m)
                /\ EndsRight(w, g, p, s, m) => EndsRight(v, g, p + n, s, m)
           /\ p + n = MsgLen =>
                /\ Carries(v, Append(g, c), c, 0, m)
                /\ EndsRight(w, g, p, s, m) => EndsRight(v, Append(g, c), 0, s, m)
                /\ c = Message(Len(g) + 1) /\ Len(g) + 1 <= m
<1> DEFINE l == Len(w)
           v == SubSeq(w, n + 1, l)
           c == [i \in 1 .. MsgLen |-> IF i \in p + 1 .. p + n THEN w[i - p] ELSE b[i]]
           q == Len(g) + 1
<1>1. /\ l \in Nat /\ n \in 1 .. l /\ DOMAIN w = 1 .. l /\ w # << >> /\ l = Len(w)
      /\ n \in Nat \ {0} /\ p \in Nat /\ p + n <= MsgLen /\ p + n \in Nat
      /\ q \in Nat /\ q = Len(g) + 1 /\ DOMAIN g = 1 .. q - 1
  BY MsgLenAssumption
<1>2. /\ InOrder(w) /\ w[1] = <<q, p + 1>>
      /\ \A i \in 1 .. l : w[i][2] = MsgLen => w[i][1] <= m
      /\ \A i \in 1 .. p : b[i] = <<q, i>>
      /\ \A i \in DOMAIN g : g[i] = Message(i)
  BY <1>1 DEF Carries
<1>3. /\ v \in Seq(Bytes) /\ InOrder(v) /\ Len(v) = l - n
      /\ \A i \in 1 .. l - n : v[i] = w[n + i]
  BY <1>1, <1>2, DropKeepsOrder
<1>4. /\ \A j \in 1 .. n : w[j] = <<q, p + j>>
      /\ n < l => w[n + 1] = IF p + n = MsgLen THEN <<q + 1, 1>> ELSE <<q, p + n + 1>>
  <2> HIDE DEF q, v, c
  <2>1. InOrder(w) /\ w[1] = <<q, p + 1>> /\ n <= Len(w) /\ q \in Nat /\ p \in Nat
        /\ n \in Nat \ {0} /\ p + n <= MsgLen
    BY <1>1, <1>2
  <2> QED BY <2>1, HeadOfStream
<1> HIDE DEF v, q, l
<1>5. ASSUME NEW i \in 1 .. p + n PROVE i \in 1 .. MsgLen /\ c[i] = <<q, i>>
  <2>1. i \in 1 .. MsgLen
    BY <1>1, MsgLenAssumption
  <2>2. CASE i <= p
    <3>1. i \in 1 .. p /\ i \notin p + 1 .. p + n
      BY <2>2, <1>1
    <3>2. c[i] = b[i]
      BY <2>1, <3>1
    <3> QED BY <2>1, <3>1, <3>2, <1>2
  <2>3. CASE i > p
    <3> DEFINE j == i - p
    <3>1. j \in 1 .. n /\ p + j = i /\ i \in p + 1 .. p + n
      BY <2>3, <1>1
    <3>2. c[i] = w[j]
      BY <2>1, <3>1
    <3> HIDE DEF j
    <3>3. w[j] = <<q, p + j>>
      BY <3>1, <1>4
    <3> QED BY <2>1, <3>1, <3>2, <3>3
  <2>4. i \in Int /\ p \in Int
    BY <1>1
  <2> HIDE DEF c
  <2> QED BY <2>1, <2>2, <2>3, <2>4
<1> HIDE DEF c
<1>a. l \in Nat /\ n \in Nat /\ n > 0 /\ n <= l
  BY <1>1
<1>b. Len(v) = l - n /\ (v = << >> <=> Len(v) = 0)
  BY <1>3
<1>6. v # << >> => n < l /\ v[1] = w[n + 1] /\ v[Len(v)] = w[l]
  <2> SUFFICES ASSUME v # << >> PROVE n < l /\ v[1] = w[n + 1] /\ v[Len(v)] = w[l]
    OBVIOUS
  <2>1. l - n # 0
    BY <1>b
  <2>2. 1 \in 1 .. l - n /\ l - n \in 1 .. l - n /\ n + (l - n) = l /\ n < l
    BY <2>1, <1>a
  <2>3. v[1] = w[n + 1] /\ v[l - n] = w[n + (l - n)]
    BY <2>2, <1>3
  <2> QED BY <2>2, <2>3, <1>3
<1>7. v = << >> => n = l
  BY <1>a, <1>b
<1>8. \A i \in DOMAIN v : v[i][2] = MsgLen => v[i][1] <= m
  <2> TAKE i \in DOMAIN v
  <2>1. i \in 1 .. l - n /\ n + i \in 1 .. l
    BY <1>1, <1>3
  <2> QED BY <2>1, <1>2, <1>3
<1>9. ASSUME EndsRight(w, g, p, s, m)
      PROVE  w[l] = IF s = 0 THEN <<m, MsgLen>> ELSE <<m + 1, s>>
  BY <1>9, <1>1 DEF EndsRight
<1>10. ASSUME p + n < MsgLen
       PROVE  /\ Carries(v, g, c, p + n, m)
              /\ EndsRight(w, g, p, s, m) => EndsRight(v, g, p + n, s, m)
  <2>1. v # << >> => v[1] = <<q, (p + n) + 1>>
    BY <1>4, <1>6, <1>10
  <2>2. Carries(v, g, c, p + n, m)
    BY <2>1, <1>2, <1>3, <1>5, <1>8 DEF Carries
  <2>3. ASSUME EndsRight(w, g, p, s, m), v # << >>
        PROVE  EndsRight(v, g, p + n, s, m)
    BY <2>3, <1>6, <1>9 DEF EndsRight
  <2>4. ASSUME EndsRight(w, g, p, s, m), v = << >>
        PROVE  EndsRight(v, g, p + n, s, m)
    <3>1. w[l] = <<q, p + n>>
      BY <2>4, <1>1, <1>4, <1>7
    <3>2. w[l] = IF s = 0 THEN <<m, MsgLen>> ELSE <<m + 1, s>>
      BY <2>4, <1>9
    <3>3. s # 0
      BY <3>1, <3>2, <1>10, <1>1, MsgLenAssumption
    <3>4. w[l] = <<m + 1, s>>
      BY <3>2, <3>3
    <3>5. q = m + 1 /\ p + n = s
      BY <3>1, <3>4
    <3>6. Len(g) = m
      BY <3>5, <1>1
    <3> QED BY <2>4, <3>5, <3>6 DEF EndsRight
  <2> QED BY <2>2, <2>3, <2>4
<1>11. ASSUME p + n = MsgLen
       PROVE  /\ Carries(v, Append(g, c), c, 0, m)
              /\ EndsRight(w, g, p, s, m) => EndsRight(v, Append(g, c), 0, s, m)
              /\ c = Message(q) /\ q <= m
  <2>1. c = Message(q)
    <3>1. \A i \in 1 .. MsgLen : c[i] = <<q, i>>
      BY <1>5, <1>11
    <3>2. c = [i \in 1 .. MsgLen |-> <<q, i>>]
      BY <3>1 DEF c
    <3> QED BY <3>2 DEF Message
  <2>2. w[n] = <<q, MsgLen>>
    BY <1>1, <1>4, <1>11
  <2>3. q <= m
    BY <2>2, <1>1, <1>2
  <2> DEFINE h == Append(g, c)
  <2>4. Len(h) = q /\ DOMAIN h = 1 .. q /\ h[q] = c /\ \A i \in 1 .. q - 1 : h[i] = g[i]
    BY <1>1
  <2>5. \A i \in DOMAIN h : h[i] = Message(i)
    BY <2>1, <2>4, <1>1, <1>2
  <2> HIDE DEF h
  <2>a. Len(h) + 1 = q + 1 /\ 0 + 1 = 1
    BY <2>4
  <2>b. v # << >> => v[1] = <<q + 1, 1>>
    BY <1>4, <1>6, <1>11
  <2>6. v # << >> => v[1] = <<Len(h) + 1, 0 + 1>>
    BY <2>a, <2>b
  <2>7. Carries(v, h, c, 0, m)
    BY <2>5, <2>6, <1>3, <1>8 DEF Carries
  <2>8. ASSUME EndsRight(w, g, p, s, m), v # << >>
        PROVE  EndsRight(v, h, 0, s, m)
    BY <2>8, <1>6, <1>9 DEF EndsRight
  <2>9. ASSUME EndsRight(w, g, p, s, m), v = << >>
        PROVE  EndsRight(v, h, 0, s, m)
    <3>1. w[l] = <<q, MsgLen>>
      BY <2>2, <2>9, <1>7
    <3>2. w[l] = IF s = 0 THEN <<m, MsgLen>> ELSE <<m + 1, s>>
      BY <2>9, <1>9
    <3>3. s = 0
      <4>1. s # 0 => w[l] = <<m + 1, s>>
        BY <3>2
      <4>2. s # 0 => s = MsgLen
        BY <4>1, <3>1
      <4> QED BY <4>2, MsgLenAssumption
    <3>4. w[l] = <<m, MsgLen>>
      BY <3>2, <3>3
    <3>5. q = m
      BY <3>1, <3>4
    <3> QED BY <2>9, <3>3, <3>5, <2>4 DEF EndsRight
  <2> QED BY <2>1, <2>3, <2>7, <2>8, <2>9 DEF h
<1> QED BY <1>10, <1>11 DEF v, c, l, q

-----------------------------------------------------------------------------
(* The steps. *)

\* The inductive invariant.
IInv == TypeOK /\ StreamInOrder

\* What a step that leaves a direction alone has to keep.
LEMMA Frame ==
    ASSUME NEW f \in Ends, Flows(f),
           wire'[f] = wire[f], sent'[f] = sent[f],
           got'[Other(f)] = got[Other(f)], buf'[Other(f)] = buf[Other(f)],
           Within(Other(f), "recv")' = Within(Other(f), "recv"),
           Stands' => Stands /\ Within(f, "send")' = Within(f, "send"),
           call'[f] # "none" => open'[f]
    PROVE  Flows(f)'
BY DEF Flows

\* A call that starts has moved nothing, and one that returned has nothing left.
LEMMA StartKeepsWithin ==
    ASSUME TypeOK, NEW e \in Ends, NEW op \in {"send", "recv"}, call[e] = "none",
           call' = [call EXCEPT ![e] = op], count' = [count EXCEPT ![e] = 0]
    PROVE  \A f \in Ends, o \in {"send", "recv"} : Within(f, o)' = Within(f, o)
<1> TAKE f \in Ends, o \in {"send", "recv"}
<1>1. CASE f = e
  <2>1. Within(f, o) = 0
    BY <1>1 DEF Within
  <2>2. count'[f] = 0
    BY <1>1 DEF TypeOK
  <2> QED BY <2>1, <2>2 DEF Within
<1>2. CASE f # e
  <2>1. call'[f] = call[f] /\ count'[f] = count[f]
    BY <1>2 DEF TypeOK
  <2> QED BY <2>1 DEF Within
<1> QED BY <1>1, <1>2

\* A call that returned has moved nothing of a next message, and the other end is not touched.
LEMMA ReturnedLeavesNothing ==
    ASSUME TypeOK, NEW e \in Ends, Returned(e)
    PROVE  /\ \A o \in {"send", "recv"} : Within(e, o)' = 0
           /\ \A f \in Ends \ {e}, o \in {"send", "recv"} : Within(f, o)' = Within(f, o)
           /\ call'[e] = "none" /\ \A f \in Ends \ {e} : call'[f] = call[f]
<1>1. call'[e] = "none" /\ count'[e] = 0
  BY DEF TypeOK, Returned
<1>2. \A f \in Ends \ {e} : call'[f] = call[f] /\ count'[f] = count[f]
  BY DEF TypeOK, Returned
<1> QED BY <1>1, <1>2 DEF Within

\* Beginning a call changes neither direction.
LEMMA StartKeepsFlow ==
    ASSUME IInv, NEW e \in Ends, StartSend(e) \/ StartRecv(e), NEW f \in Ends
    PROVE  Flows(f)'
<1>1. PICK op \in {"send", "recv"} : call' = [call EXCEPT ![e] = op]
  BY DEF StartSend, StartRecv
<1>2. /\ open[e] /\ call[e] = "none" /\ count' = [count EXCEPT ![e] = 0]
      /\ UNCHANGED <<wire, buf, sent, got, open, reset>>
  BY DEF StartSend, StartRecv
<1>3. TypeOK /\ Flows(f) /\ Other(f) \in Ends
  BY TwoEnds DEF IInv, StreamInOrder
<1>4. \A g \in Ends, o \in {"send", "recv"} : Within(g, o)' = Within(g, o)
  BY <1>1, <1>2, <1>3, StartKeepsWithin
<1>5. call'[f] # "none" => open'[f]
  BY <1>1, <1>2, <1>3 DEF TypeOK, Flows
<1>6. Stands' => Stands
  BY <1>2 DEF Stands
<1> QED BY <1>2, <1>3, <1>4, <1>5, <1>6, Frame

\* The end of a connection or of a call: what flows towards e is dropped, or e sends no more.
LEMMA EndKeepsFlow ==
    ASSUME IInv, NEW e \in Ends, Close(e) \/ send_fails(e) \/ recv_fails(e), NEW f \in Ends
    PROVE  Flows(f)'
<1> DEFINE r == Other(f)
<1>1. TypeOK /\ Flows(f) /\ r \in Ends /\ r # f
  BY TwoEnds DEF IInv, StreamInOrder
<1>2. Returned(e) /\ UNCHANGED <<buf, sent, got>>
  BY DEF Close, send_fails, recv_fails
<1>3. /\ \A o \in {"send", "recv"} : Within(e, o)' = 0
      /\ \A g \in Ends \ {e}, o \in {"send", "recv"} : Within(g, o)' = Within(g, o)
      /\ call'[e] = "none" /\ \A g \in Ends \ {e} : call'[g] = call[g]
  BY <1>1, <1>2, ReturnedLeavesNothing
<1>4. ~ Stands'
  <2>1. reset' \/ ~ open'[e]
    BY <1>1 DEF Close, send_fails, recv_fails, TypeOK
  <2> QED BY <2>1 DEF Stands
<1>5. call'[f] # "none" => open'[f]
  <2>1. CASE f = e
    BY <2>1, <1>3
  <2>2. CASE f # e
    <3>1. open'[f] = open[f]
      BY <1>1, <2>2 DEF Close, send_fails, recv_fails, TypeOK
    <3> QED BY <3>1, <2>2, <1>1, <1>3 DEF Flows
  <2> QED BY <2>1, <2>2
<1>6. CASE r = e
  <2>1. CASE send_fails(e)
    <3>1. Within(r, "recv") = 0 /\ Within(r, "recv")' = 0 /\ wire'[f] = wire[f]
      BY <2>1, <1>3, <1>6 DEF send_fails, Within
    <3> QED BY <3>1, <1>1, <1>2, <1>4, <1>5, Frame
  <2>2. CASE Close(e) \/ recv_fails(e)
    <3>1. f = Other(e)
      BY <1>6, TwoEnds
    <3>2. wire'[f] = << >>
      BY <2>2, <3>1, <1>1 DEF Close, recv_fails, TypeOK
    <3>3. \A i \in 1 .. 0 : FALSE
      OBVIOUS
    <3>4. DOMAIN wire'[f] = {}
      BY <3>2
    <3>5. Within(r, "recv")' = 0
      BY <1>3, <1>6
    <3>6. Carries(wire'[f], got'[r], buf'[r], 0, sent'[f])
      BY <3>2, <3>3, <3>4, <1>1, <1>2 DEF Flows, Carries, InOrder
    <3> QED BY <3>5, <3>6, <1>4, <1>5 DEF Flows
  <2> QED BY <2>1, <2>2
<1>7. CASE r # e
  <2>1. f = e
    BY <1>7, OneOfTwo, TwoEnds
  <2>2. wire'[f] = wire[f]
    BY <2>1, <1>1 DEF Close, send_fails, recv_fails, TypeOK
  <2>3. Within(r, "recv")' = Within(r, "recv")
    BY <1>1, <1>3, <1>7
  <2> QED BY <2>2, <2>3, <1>1, <1>2, <1>4, <1>5, Frame
<1> QED BY <1>6, <1>7

\* What Moved does to the two ends.
LEMMA MovedWithin ==
    ASSUME TypeOK, NEW e \in Ends, NEW n \in Nat \ {0}, call[e] = "send", Moved(e, n)
    PROVE  /\ \A f \in Ends \ {e} : /\ \A o \in {"send", "recv"} : Within(f, o)' = Within(f, o)
                                    /\ sent'[f] = sent[f] /\ call'[f] = call[f]
           /\ Within(e, "recv") = 0 /\ Within(e, "recv")' = 0 /\ Within(e, "send") = count[e]
           /\ \/ /\ count[e] + n < MsgLen
                 /\ sent'[e] = sent[e] /\ Within(e, "send")' = count[e] + n
              \/ /\ count[e] + n = MsgLen
                 /\ sent'[e] = sent[e] + 1 /\ Within(e, "send")' = 0
           /\ call'[e] # "none" => call[e] # "none"
<1>1. CASE /\ count[e] + n < MsgLen
           /\ count' = [count EXCEPT ![e] = @ + n]
           /\ UNCHANGED <<call, sent>>
  <2>1. count'[e] = count[e] + n /\ call'[e] = "send" /\ sent'[e] = sent[e]
    BY <1>1 DEF TypeOK
  <2>2. \A f \in Ends \ {e} : count'[f] = count[f] /\ call'[f] = call[f] /\ sent'[f] = sent[f]
    BY <1>1 DEF TypeOK
  <2> QED BY <1>1, <2>1, <2>2 DEF Within
<1>2. CASE /\ count[e] + n = MsgLen
           /\ Returned(e)
           /\ sent' = [sent EXCEPT ![e] = @ + 1]
  <2>1. count'[e] = 0 /\ call'[e] = "none" /\ sent'[e] = sent[e] + 1
    BY <1>2 DEF TypeOK, Returned
  <2>2. \A f \in Ends \ {e} : count'[f] = count[f] /\ call'[f] = call[f] /\ sent'[f] = sent[f]
    BY <1>2 DEF TypeOK, Returned
  <2> QED BY <1>2, <2>1, <2>2 DEF Within
<1> QED BY <1>1, <1>2 DEF Moved

\* The bytes of one send are the next ones of the stream, wherever the kernel cut the last.
LEMMA SendKeepsFlow ==
    ASSUME IInv, NEW e \in Ends, send_bytes(e), NEW f \in Ends
    PROVE  Flows(f)'
<1> DEFINE r == Other(f)
<1>1. TypeOK /\ Flows(f) /\ Flows(e) /\ r \in Ends /\ r # f /\ Other(r) = f
  BY TwoEnds DEF IInv, StreamInOrder
<1>2. PICK n \in 1 .. MsgLen - count[e] :
        wire' = [wire EXCEPT ![e] = @ \o Chunk(e, n)] /\ Moved(e, n)
  BY DEF send_bytes
<1>3. /\ n \in Nat \ {0} /\ call[e] = "send" /\ open[e] /\ open[Other(e)] /\ ~ reset
      /\ UNCHANGED <<buf, got, open, reset>>
  BY <1>1, <1>2, MsgLenAssumption DEF send_bytes, TypeOK, Flows
<1>4. /\ \A g \in Ends \ {e} : /\ \A o \in {"send", "recv"} : Within(g, o)' = Within(g, o)
                               /\ sent'[g] = sent[g] /\ call'[g] = call[g]
      /\ Within(e, "recv") = 0 /\ Within(e, "recv")' = 0 /\ Within(e, "send") = count[e]
      /\ \/ /\ count[e] + n < MsgLen
            /\ sent'[e] = sent[e] /\ Within(e, "send")' = count[e] + n
         \/ /\ count[e] + n = MsgLen
            /\ sent'[e] = sent[e] + 1 /\ Within(e, "send")' = 0
      /\ call'[e] # "none" => call[e] # "none"
  BY <1>1, <1>2, <1>3, MovedWithin
<1>5. Stands /\ Stands'
  <2>1. \A g \in Ends : open[g]
    BY <1>3, OneOfTwo
  <2> QED BY <2>1, <1>3 DEF Stands
<1>6. call'[f] # "none" => open'[f]
  BY <1>1, <1>3, <1>4 DEF Flows
<1>7. CASE f # e
  <2>1. r = e
    BY <1>1, <1>7, OneOfTwo
  <2>2. wire'[f] = wire[f]
    BY <1>1, <1>2, <1>7 DEF TypeOK
  <2>3. Within(r, "recv")' = Within(r, "recv")
    BY <2>1, <1>4
  <2>4. sent'[f] = sent[f] /\ Within(f, "send")' = Within(f, "send")
    BY <1>4, <1>7
  <2> QED BY <2>2, <2>3, <2>4, <1>1, <1>3, <1>5, <1>6, Frame
<1>8. CASE f = e
  <2> DEFINE p == Within(r, "recv")
             s == count[e]
             w == wire[e]
             v == w \o Part(sent[e] + 1, s, n)
  <2>1. wire'[f] = v
    BY <1>1, <1>2, <1>8 DEF TypeOK, Chunk, Part
  <2>2. Within(r, "recv")' = p
    BY <1>1, <1>4, <1>8
  <2>3. w \in Seq(Bytes) /\ sent[e] \in Nat /\ s \in 0 .. MsgLen - 1
    BY DEF IInv, TypeOK
  <2>4. Carries(w, got[r], buf[r], p, sent[e]) /\ EndsRight(w, got[r], p, s, sent[e])
    BY <1>1, <1>4, <1>5, <1>8 DEF Flows
  <2> HIDE DEF p, s, w
  <2>5. /\ s + n < MsgLen => /\ Carries(v, got[r], buf[r], p, sent[e])
                             /\ EndsRight(v, got[r], p, s + n, sent[e])
        /\ s + n = MsgLen => /\ Carries(v, got[r], buf[r], p, sent[e] + 1)
                             /\ EndsRight(v, got[r], p, 0, sent[e] + 1)
    <3>1. n \in 1 .. MsgLen - s
      BY DEF s
    <3> QED BY <2>3, <2>4, <3>1, SendKeepsOrder
  <2> HIDE DEF v
  <2>6. \/ /\ s + n < MsgLen
           /\ sent'[f] = sent[e] /\ Within(f, "send")' = s + n
        \/ /\ s + n = MsgLen
           /\ sent'[f] = sent[e] + 1 /\ Within(f, "send")' = 0
    BY <1>4, <1>8 DEF s
  <2>7. /\ Carries(wire'[f], got'[r], buf'[r], Within(r, "recv")', sent'[f])
        /\ EndsRight(wire'[f], got'[r], Within(r, "recv")', Within(f, "send")', sent'[f])
    BY <2>1, <2>2, <2>5, <2>6, <1>3
  <2> QED BY <2>7, <1>6 DEF Flows
<1> QED BY <1>7, <1>8

\* Nothing that is sent to a closed end is received.
LEMMA SendToClosedKeepsFlow ==
    ASSUME IInv, NEW e \in Ends, send_to_closed(e), NEW f \in Ends
    PROVE  Flows(f)'
<1> DEFINE r == Other(f)
<1>1. TypeOK /\ Flows(f) /\ Flows(e) /\ r \in Ends /\ r # f /\ Other(r) = f
  BY TwoEnds DEF IInv, StreamInOrder
<1>2. PICK n \in 1 .. MsgLen - count[e] : Moved(e, n)
  BY DEF send_to_closed
<1>3. /\ n \in Nat \ {0} /\ call[e] = "send" /\ ~ open[Other(e)] /\ Other(e) \in Ends
      /\ UNCHANGED <<wire, buf, got, open>>
  BY <1>1, <1>2, TwoEnds, MsgLenAssumption DEF send_to_closed, TypeOK
<1>4. /\ \A g \in Ends \ {e} : /\ \A o \in {"send", "recv"} : Within(g, o)' = Within(g, o)
                               /\ sent'[g] = sent[g] /\ call'[g] = call[g]
      /\ Within(e, "recv") = 0 /\ Within(e, "recv")' = 0 /\ Within(e, "send") = count[e]
      /\ \/ /\ count[e] + n < MsgLen
            /\ sent'[e] = sent[e] /\ Within(e, "send")' = count[e] + n
         \/ /\ count[e] + n = MsgLen
            /\ sent'[e] = sent[e] + 1 /\ Within(e, "send")' = 0
      /\ call'[e] # "none" => call[e] # "none"
  BY <1>1, <1>2, <1>3, MovedWithin
<1>5. ~ Stands'
  BY <1>3 DEF Stands
<1>6. call'[f] # "none" => open'[f]
  BY <1>1, <1>3, <1>4 DEF Flows
<1>7. Within(r, "recv")' = Within(r, "recv")
  BY <1>1, <1>4
<1>8. sent'[f] = sent[f] \/ sent'[f] = sent[f] + 1
  BY <1>4
<1>9. ASSUME Carries(wire[f], got[r], buf[r], Within(r, "recv"), sent[f])
      PROVE  Carries(wire[f], got[r], buf[r], Within(r, "recv"), sent[f] + 1)
  <2>1. \A i \in DOMAIN wire[f] : wire[f][i][1] \in Nat /\ sent[f] \in Nat
    <3> TAKE i \in DOMAIN wire[f]
    <3>1. wire[f][i] \in Bytes /\ sent[f] \in Nat
      BY <1>1 DEF TypeOK
    <3> QED BY <3>1 DEF Bytes
  <2>2. \A i \in DOMAIN wire[f] : wire[f][i][1] <= sent[f] => wire[f][i][1] <= sent[f] + 1
    BY <2>1
  <2> QED BY <2>2, <1>9 DEF Carries
<1>10. Carries(wire'[f], got'[r], buf'[r], Within(r, "recv")', sent'[f])
  BY <1>1, <1>3, <1>7, <1>8, <1>9 DEF Flows
<1> QED BY <1>5, <1>6, <1>10 DEF Flows

\* What one recv of n bytes leaves, and that a complete message is the next one and was sent.
Got(e, n) ==
    LET d == Other(e)  c == Filled(e, n)
    IN  /\ wire' = [wire EXCEPT ![d] = SubSeq(@, n + 1, Len(@))]
        /\ buf' = [buf EXCEPT ![e] = c]
        /\ \/ /\ count[e] + n < MsgLen
              /\ count' = [count EXCEPT ![e] = @ + n]
              /\ UNCHANGED <<call, got>>
           \/ /\ count[e] + n = MsgLen
              /\ Returned(e)
              /\ got' = [got EXCEPT ![e] = Append(@, c)]

\* A step of recv_tcp_msg is one recv.
LEMMA RecvGets ==
    ASSUME NEW e \in Ends, recv_bytes(e)
    PROVE  /\ call[e] = "recv" /\ UNCHANGED <<sent, open, reset>>
           /\ \E n \in 1 .. MsgLen - count[e] : n <= Len(wire[Other(e)]) /\ Got(e, n)
BY DEF recv_bytes, Got

\* One recv takes the next bytes of the stream, and with the last byte of a message the whole
\* of it, which its sender has sent.
LEMMA RecvKeepsFlow ==
    ASSUME IInv, NEW e \in Ends, NEW n \in 1 .. MsgLen - count[e],
           call[e] = "recv", UNCHANGED <<sent, open, reset>>,
           n <= Len(wire[Other(e)]), Got(e, n)
    PROVE  /\ \A f \in Ends : Flows(f)'
           /\ count[e] + n = MsgLen => /\ Filled(e, n) = Message(Len(got[e]) + 1)
                                       /\ Len(got[e]) + 1 <= sent[Other(e)]
<1> DEFINE d == Other(e)
           w == wire[d]
           g == got[e]
           b == buf[e]
           p == count[e]
           s == Within(d, "send")
           m == sent[d]
           v == SubSeq(w, n + 1, Len(w))
           c == [i \in 1 .. MsgLen |-> IF i \in p + 1 .. p + n THEN w[i - p] ELSE b[i]]
<1>1. TypeOK /\ Flows(e) /\ Flows(d) /\ d \in Ends /\ d # e /\ Other(d) = e
  BY TwoEnds DEF IInv, StreamInOrder
<1>2. c = Filled(e, n)
  BY DEF Filled
<1>3. /\ w \in Seq(Bytes) /\ g \in Seq([1 .. MsgLen -> Bytes \cup {NoByte}])
      /\ b \in [1 .. MsgLen -> Bytes \cup {NoByte}] /\ m \in Nat /\ p \in 0 .. MsgLen - 1
  BY <1>1 DEF TypeOK
<1>4. s \in 0 .. MsgLen - 1
  <2>1. count[d] \in 0 .. MsgLen - 1 /\ 0 \in 0 .. MsgLen - 1
    BY <1>1, MsgLenAssumption DEF TypeOK
  <2> QED BY <2>1 DEF Within
<1>5. Within(e, "recv") = p /\ Within(e, "send") = 0
  BY DEF Within
<1>6. Carries(w, g, b, p, m) /\ (Stands => EndsRight(w, g, p, s, m))
  BY <1>1, <1>5 DEF Flows
<1>7. n \in 1 .. MsgLen - p /\ n <= Len(w)
  OBVIOUS
<1>8. wire'[d] = v /\ wire'[e] = wire[e] /\ buf'[e] = c /\ buf'[d] = buf[d]
      /\ sent'[d] = m /\ sent'[e] = sent[e]
  BY <1>1, <1>2 DEF Got, TypeOK
<1>9. Stands' <=> Stands
  BY DEF Stands
<1>10. \/ /\ p + n < MsgLen
          /\ got'[e] = g /\ Within(e, "recv")' = p + n
       \/ /\ p + n = MsgLen
          /\ got'[e] = Append(g, c) /\ Within(e, "recv")' = 0
  <2>1. CASE /\ p + n < MsgLen
             /\ count' = [count EXCEPT ![e] = @ + n]
             /\ UNCHANGED <<call, got>>
    <3>1. count'[e] = p + n /\ call'[e] = "recv" /\ got'[e] = g
      BY <2>1, <1>1 DEF TypeOK
    <3> QED BY <2>1, <3>1 DEF Within
  <2>2. CASE /\ p + n = MsgLen
             /\ Returned(e)
             /\ got' = [got EXCEPT ![e] = Append(@, c)]
    <3>1. Within(e, "recv")' = 0
      BY <2>2, <1>1, ReturnedLeavesNothing
    <3>2. got'[e] = Append(g, c)
      BY <2>2, <1>1 DEF TypeOK
    <3> QED BY <2>2, <3>1, <3>2
  <2> QED BY <2>1, <2>2, <1>2 DEF Got
<1>11. /\ Within(e, "send")' = 0 /\ got'[d] = got[d] /\ call'[d] = call[d]
       /\ \A o \in {"send", "recv"} : Within(d, o)' = Within(d, o)
       /\ call'[e] # "none" => call'[e] = call[e]
  <2>1. CASE count' = [count EXCEPT ![e] = @ + n] /\ UNCHANGED <<call, got>>
    <3>1. count'[d] = count[d] /\ call'[d] = call[d] /\ call'[e] = call[e] /\ got'[d] = got[d]
      BY <2>1, <1>1 DEF TypeOK
    <3> QED BY <3>1 DEF Within
  <2>2. CASE Returned(e) /\ got' = [got EXCEPT ![e] = Append(@, Filled(e, n))]
    <3>1. got'[d] = got[d]
      BY <2>2, <1>1 DEF TypeOK
    <3> QED BY <2>2, <3>1, <1>1, ReturnedLeavesNothing
  <2> QED BY <2>1, <2>2 DEF Got
<1>12. Flows(e)'
  <2>1. call'[e] # "none" => open'[e]
    BY <1>1, <1>11 DEF Flows
  <2>2. Within(e, "send")' = Within(e, "send")
    BY <1>5, <1>11
  <2>3. Within(d, "recv")' = Within(d, "recv")
    BY <1>11
  <2> QED BY <2>1, <2>2, <2>3, <1>1, <1>8, <1>9, <1>11, Frame
<1>13. call'[d] # "none" => open'[d]
  BY <1>1, <1>11 DEF Flows
<1>14. Within(d, "send")' = s
  BY <1>11
<1>15. /\ p + n < MsgLen =>
            /\ Carries(v, g, c, p + n, m)
            /\ EndsRight(w, g, p, s, m) => EndsRight(v, g, p + n, s, m)
       /\ p + n = MsgLen =>
            /\ Carries(v, Append(g, c), c, 0, m)
            /\ EndsRight(w, g, p, s, m) => EndsRight(v, Append(g, c), 0, s, m)
            /\ c = Message(Len(g) + 1) /\ Len(g) + 1 <= m
  <2> HIDE DEF d, w, g, b, p, s, m
  <2> QED BY <1>3, <1>4, <1>6, <1>7, RecvKeepsOrder
<1>16. /\ Carries(wire'[d], got'[e], buf'[e], Within(e, "recv")', sent'[d])
       /\ Stands' =>
            EndsRight(wire'[d], got'[e], Within(e, "recv")', Within(d, "send")', sent'[d])
  <2> HIDE DEF d, w, g, b, p, s, m, v, c
  <2> QED BY <1>6, <1>8, <1>9, <1>10, <1>14, <1>15
<1>17. Flows(d)'
  BY <1>1, <1>13, <1>16 DEF Flows
<1>18. \A f \in Ends : Flows(f)'
  BY <1>12, <1>17, OneOfTwo
<1>19. p + n = MsgLen => c = Message(Len(g) + 1) /\ Len(g) + 1 <= m
  BY <1>15
<1> QED BY <1>2, <1>18, <1>19

-----------------------------------------------------------------------------
(* The invariant. *)

\* Nothing is under way at first.
LEMMA InitInv == Init => IInv
<1> SUFFICES ASSUME Init PROVE IInv
  OBVIOUS
<1>1. TypeOK
  BY InitTypes
<1>2. ASSUME NEW f \in Ends PROVE Flows(f)
  <2>1. /\ wire[f] = << >> /\ got[Other(f)] = << >> /\ sent[f] = 0 /\ call[f] = "none"
        /\ call[Other(f)] = "none" /\ Other(f) \in Ends
    BY TwoEnds DEF Init
  <2>2. Within(f, "send") = 0 /\ Within(Other(f), "recv") = 0
    BY <2>1 DEF Within
  <2>3. DOMAIN << >> = {} /\ Len(<< >>) = 0 /\ \A i \in 1 .. 0 : FALSE
    OBVIOUS
  <2>4. Carries(<< >>, << >>, buf[Other(f)], 0, 0)
    BY <2>3 DEF Carries, InOrder
  <2>5. EndsRight(<< >>, << >>, 0, 0, 0)
    BY <2>3 DEF EndsRight
  <2> QED BY <2>1, <2>2, <2>4, <2>5 DEF Flows
<1> QED BY <1>1, <1>2 DEF IInv, StreamInOrder

\* IInv is inductive: each of the steps keeps both directions.
LEMMA StepInv == IInv /\ [Next]_vars => IInv'
<1> SUFFICES ASSUME IInv, [Next]_vars PROVE IInv'
  OBVIOUS
<1>1. TypeOK'
  BY StepTypes DEF IInv
<1>2. CASE UNCHANGED vars
  <2>1. ASSUME NEW f \in Ends PROVE Flows(f)'
    <3>1. Flows(f)
      BY DEF IInv, StreamInOrder
    <3>2. Within(Other(f), "recv")' = Within(Other(f), "recv")
          /\ Within(f, "send")' = Within(f, "send") /\ (Stands' => Stands)
      BY <1>2 DEF vars, Within, Stands
    <3>3. call'[f] # "none" => open'[f]
      BY <3>1, <1>2 DEF vars, Flows
    <3> QED BY <3>1, <3>2, <3>3, <1>2, Frame DEF vars
  <2> QED BY <2>1, <1>1 DEF IInv, StreamInOrder
<1>3. ASSUME NEW e \in Ends, StartSend(e) \/ StartRecv(e) PROVE IInv'
  BY <1>1, <1>3, StartKeepsFlow DEF IInv, StreamInOrder
<1>4. ASSUME NEW e \in Ends, Close(e) \/ send_fails(e) \/ recv_fails(e) PROVE IInv'
  BY <1>1, <1>4, EndKeepsFlow DEF IInv, StreamInOrder
<1>5. ASSUME NEW e \in Ends, send_bytes(e) PROVE IInv'
  BY <1>1, <1>5, SendKeepsFlow DEF IInv, StreamInOrder
<1>6. ASSUME NEW e \in Ends, send_to_closed(e) PROVE IInv'
  BY <1>1, <1>6, SendToClosedKeepsFlow DEF IInv, StreamInOrder
<1>7. ASSUME NEW e \in Ends, recv_bytes(e) PROVE IInv'
  <2>1. \A f \in Ends : Flows(f)'
    BY <1>7, RecvGets, RecvKeepsFlow
  <2> QED BY <2>1, <1>1 DEF IInv, StreamInOrder
<1> QED BY <1>2, <1>3, <1>4, <1>5, <1>6, <1>7 DEF Next, send_tcp_msg, recv_tcp_msg

\* For every size of a message and of the kernel's buffers: what is received are the messages
\* of the other end, in order and whole, and nothing is missing while the connection stands.
THEOREM MessagesStayInOrder == Spec => []StreamInOrder
<1>1. Spec => []IInv
  BY InitInv, StepInv, PTL DEF Spec
<1>2. IInv => StreamInOrder
  BY DEF IInv
<1> QED BY <1>1, <1>2, PTL

-----------------------------------------------------------------------------
(* The refinement. *)

\* The numbers of the messages g.
Numbers(g) == [n \in DOMAIN g |-> n]

\* The messages received are the ones from 1 on, in order.
Numbered == Received = [e \in Ends |-> Numbers(got[e])]

\* StreamInOrder makes it so.
LEMMA ReceivedIsNumbered == IInv => Numbered
<1> SUFFICES ASSUME IInv PROVE Numbered
  OBVIOUS
<1>1. ASSUME NEW e \in Ends, NEW n \in DOMAIN got[e] PROVE NumberOf(got[e][n]) = n
  <2>1. got[e][n] = Message(n)
    <3>1. Flows(Other(e)) /\ Other(Other(e)) = e
      BY TwoEnds DEF IInv, StreamInOrder
    <3> QED BY <3>1 DEF Flows, Carries
  <2>2. Message(n)[1] = <<n, 1>>
    <3>1. 1 \in 1 .. MsgLen
      BY MsgLenAssumption
    <3> QED BY <3>1 DEF Message
  <2>3. Message(n)[1][1] = n
    BY <2>2
  <2> QED BY <2>1, <2>3 DEF NumberOf
<1>2. \A e \in Ends : [n \in DOMAIN got[e] |-> NumberOf(got[e][n])] = Numbers(got[e])
  BY <1>1 DEF Numbers
<1> QED BY <1>2 DEF Received, Numbered

\* What is received changes with got only.
LEMMA SameReceived == UNCHANGED got => Received' = Received
BY DEF Received, NumberOf

\* The next message gets the next number.
LEMMA NumbersAppend ==
    ASSUME NEW T, NEW g \in Seq(T), NEW c \in T
    PROVE  /\ Numbers(Append(g, c)) = Append(Numbers(g), Len(Numbers(g)) + 1)
           /\ Len(Numbers(g)) = Len(g)
<1> DEFINE l == Len(g)
<1>1. DOMAIN g = 1 .. l /\ l \in Nat /\ DOMAIN Append(g, c) = 1 .. l + 1
  OBVIOUS
<1>2. Numbers(g) = [n \in 1 .. l |-> n] /\ Numbers(Append(g, c)) = [n \in 1 .. l + 1 |-> n]
  BY <1>1 DEF Numbers
<1> HIDE DEF l
<1>3. [n \in 1 .. l |-> n] \in Seq(Nat) /\ Len([n \in 1 .. l |-> n]) = l
  BY <1>1
<1>4. Append([n \in 1 .. l |-> n], l + 1) = [n \in 1 .. l + 1 |-> n]
  BY <1>1, <1>3
<1> QED BY <1>2, <1>3, <1>4 DEF l

\* The initial states are initial states of Channel.
LEMMA InitRefines == Init => C!Init
<1> SUFFICES ASSUME Init PROVE C!Init
  OBVIOUS
<1>1. IInv
  BY InitInv
<1>2. \A e \in Ends : Numbers(got[e]) = << >>
  BY DEF Init, Numbers
<1>3. Received = [e \in Ends |-> << >>]
  BY <1>1, <1>2, ReceivedIsNumbered DEF Numbered
<1> QED BY <1>3 DEF Init, C!Init, Ends, C!Ends

\* A call that is not over changes nothing, and the end of a loop is one step of Channel.
LEMMA SendRefines ==
    ASSUME IInv, NEW e \in Ends, send_bytes(e) \/ send_to_closed(e)
    PROVE  C!Next \/ UNCHANGED C!vars
<1>1. TypeOK /\ open[e] /\ call[e] = "send" /\ reset = FALSE /\ Other(e) \in Ends
  <2>1. TypeOK /\ Flows(e) /\ call[e] = "send" /\ ~ reset
    BY DEF IInv, StreamInOrder, send_bytes, send_to_closed
  <2>2. reset \in BOOLEAN
    BY <2>1 DEF TypeOK
  <2> QED BY <2>1, <2>2, TwoEnds DEF Flows
<1>2. UNCHANGED <<got, open>> /\ Received' = Received
  BY SameReceived DEF send_bytes, send_to_closed
<1>3. reset' \in BOOLEAN /\ (reset' => ~ open[Other(e)])
  <2>1. CASE send_bytes(e)
    BY <2>1, <1>1 DEF send_bytes
  <2>2. CASE send_to_closed(e)
    BY <2>2 DEF send_to_closed
  <2> QED BY <2>1, <2>2
<1>4. PICK n : Moved(e, n)
  BY DEF send_bytes, send_to_closed
<1>5. CASE UNCHANGED sent
  <2>1. CASE reset' = TRUE
    <3>1. C!Reset
      BY <2>1, <1>1, <1>2, <1>3, <1>5 DEF C!Reset, C!Ends, Ends
    <3> QED BY <3>1 DEF C!Next
  <2>2. CASE reset' = FALSE
    BY <2>2, <1>1, <1>2, <1>5 DEF C!vars
  <2> QED BY <2>1, <2>2, <1>3
<1>6. CASE sent' = [sent EXCEPT ![e] = @ + 1]
  <2>1. C!Other(e) = Other(e) /\ e \in C!Ends
    BY DEF C!Other, Other, C!Ends, Ends
  <2>2. C!Send(e)
    BY <2>1, <1>1, <1>2, <1>3, <1>6 DEF C!Send
  <2> QED BY <2>1, <2>2 DEF C!Next
<1> QED BY <1>4, <1>5, <1>6 DEF Moved

\* An end that closes does so in Channel, and a call that fails changes nothing there.
LEMMA EndRefines ==
    ASSUME IInv, NEW e \in Ends, Close(e) \/ send_fails(e) \/ recv_fails(e)
    PROVE  C!Next \/ UNCHANGED C!vars
<1>1. TypeOK /\ open[e] /\ reset \in BOOLEAN
  BY DEF IInv, StreamInOrder, Flows, TypeOK, Close, send_fails, recv_fails
<1>2. UNCHANGED <<sent, got>> /\ Received' = Received
  BY SameReceived DEF Close, send_fails, recv_fails
<1>3. CASE UNCHANGED <<open, reset>>
  BY <1>2, <1>3 DEF C!vars
<1>4. CASE open' = [open EXCEPT ![e] = FALSE] /\ reset' \in {reset, TRUE}
  <2>1. C!Close(e) /\ e \in C!Ends
    BY <1>1, <1>2, <1>4 DEF C!Close, C!Ends, Ends
  <2> QED BY <2>1 DEF C!Next
<1>5. CASE Close(e)
  <2>1. reset' = (reset \/ wire[Other(e)] # << >>) /\ open' = [open EXCEPT ![e] = FALSE]
    BY <1>5 DEF Close
  <2>2. reset' \in {reset, TRUE}
    BY <2>1, <1>1, Zenon
  <2> QED BY <2>1, <2>2, <1>4
<1> QED BY <1>3, <1>4, <1>5 DEF send_fails, recv_fails

\* The recv that completes a message is the Receive of Channel, every other one is no step.
LEMMA RecvRefines ==
    ASSUME IInv, Numbered', NEW e \in Ends, recv_bytes(e)
    PROVE  C!Next \/ UNCHANGED C!vars
<1> DEFINE c(n) == Filled(e, n)
<1>1. call[e] = "recv" /\ UNCHANGED <<sent, open, reset>>
  BY RecvGets
<1>2. PICK n \in 1 .. MsgLen - count[e] : n <= Len(wire[Other(e)]) /\ Got(e, n)
  BY RecvGets
<1>3. TypeOK /\ open[e]
  BY <1>1 DEF IInv, StreamInOrder, Flows
<1>4. CASE UNCHANGED got
  BY <1>1, <1>4, SameReceived DEF C!vars
<1>5. CASE count[e] + n = MsgLen /\ got' = [got EXCEPT ![e] = Append(@, c(n))]
  <2> DEFINE g == got[e]
  <2>1. c(n) = Message(Len(g) + 1) /\ Len(g) + 1 <= sent[Other(e)]
    BY <1>1, <1>2, <1>5, RecvKeepsFlow
  <2>2. c(n) \in [1 .. MsgLen -> Bytes \cup {NoByte}]
        /\ g \in Seq([1 .. MsgLen -> Bytes \cup {NoByte}])
    BY <1>2, <1>3, FilledTypes DEF TypeOK
  <2>3. /\ Numbers(Append(g, c(n))) = Append(Numbers(g), Len(Numbers(g)) + 1)
        /\ Len(Numbers(g)) = Len(g)
    BY <2>2, NumbersAppend
  <2>4. Received = [f \in Ends |-> Numbers(got[f])]
    BY ReceivedIsNumbered DEF Numbered
  <2>5. Received' = [f \in Ends |-> Numbers(got'[f])]
    BY DEF Numbered, Numbers
  <2>6. got'[e] = Append(g, c(n)) /\ \A f \in Ends \ {e} : got'[f] = got[f]
    BY <1>3, <1>5 DEF TypeOK
  <2> HIDE DEF c
  <2>7. Received' = [Received EXCEPT ![e] = Append(@, Len(@) + 1)]
    BY <2>3, <2>4, <2>5, <2>6
  <2>8. Len(Received[e]) < sent[Other(e)]
    <3>1. Len(Received[e]) = Len(g) /\ Len(g) \in Nat /\ sent[Other(e)] \in Nat
      BY <2>2, <2>3, <2>4, <1>3, TwoEnds DEF TypeOK
    <3> QED BY <3>1, <2>1
  <2>9. C!Other(e) = Other(e) /\ e \in C!Ends
    BY DEF C!Other, Other, C!Ends, Ends
  <2>10. C!Receive(e)
    BY <2>7, <2>8, <2>9, <1>1, <1>3 DEF C!Receive
  <2> QED BY <2>9, <2>10 DEF C!Next
<1> QED BY <1>2, <1>4, <1>5 DEF Got

\* Every step is a step of Channel or none.
LEMMA StepRefines == IInv /\ Numbered' /\ [Next]_vars => [C!Next]_C!vars
<1> SUFFICES ASSUME IInv, Numbered', [Next]_vars PROVE C!Next \/ UNCHANGED C!vars
  OBVIOUS
<1>1. CASE UNCHANGED vars
  BY <1>1, SameReceived DEF vars, C!vars
<1>2. ASSUME NEW e \in Ends, StartSend(e) \/ StartRecv(e)
      PROVE  UNCHANGED C!vars
  <2>1. UNCHANGED <<got, sent, open, reset>>
    BY <1>2 DEF StartSend, StartRecv
  <2> QED BY <2>1, SameReceived DEF C!vars
<1>3. ASSUME NEW e \in Ends, send_bytes(e) \/ send_to_closed(e)
      PROVE  C!Next \/ UNCHANGED C!vars
  BY <1>3, SendRefines
<1>4. ASSUME NEW e \in Ends, Close(e) \/ send_fails(e) \/ recv_fails(e)
      PROVE  C!Next \/ UNCHANGED C!vars
  BY <1>4, EndRefines
<1>5. ASSUME NEW e \in Ends, recv_bytes(e)
      PROVE  C!Next \/ UNCHANGED C!vars
  BY <1>5, RecvRefines
<1> QED BY <1>1, <1>2, <1>3, <1>4, <1>5 DEF Next, send_tcp_msg, recv_tcp_msg

\* The two byte loops implement the connection of whole messages on which Network, Server
\* and Subscriber rest, for every size of a message and of the kernel's buffers.
THEOREM FramingImplementsChannel == Spec => ImplementsChannel
<1>1. Spec => []IInv
  BY InitInv, StepInv, PTL DEF Spec
<1> QED BY <1>1, InitRefines, ReceivedIsNumbered, StepRefines, PTL
        DEF Spec, ImplementsChannel, C!Spec
=============================================================================
