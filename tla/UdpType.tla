------------------------------ MODULE UdpType ------------------------------
(***************************************************************************)
(* A datagram on its way through the server: recvfrom into the one buffer  *)
(* (src/src/server_utils.c), the parser (src/src/udp_type.c, with ipow of  *)
(* src/src/utils.c), the storage, and what a subscriber gets of it.  Bytes *)
(* are numbers below Base and all lengths are scaled down.                 *)
(***************************************************************************)
EXTENDS Integers, Sequences, SequencesExt

CONSTANTS
    Base,           \* the values of a byte (256)
    IntLen,         \* bytes of a uint32_t (4)
    ShortLen,       \* bytes of a uint16_t (2)
    TopicLen,       \* MAX_TOPIC_LEN (51)
    StringLen,      \* MAX_STRING_LEN (1501)
    Messages,       \* what publishers send
    MaxMsgs         \* bound: MaxMsgs messages are stored

VARIABLES
    buf,            \* the receive buffer, cleared only when the server starts
    udp_msgs,       \* the stored messages
    origin,         \* origin[i]: what was sent in the datagram behind udp_msgs[i]; Nothing
                    \* when none has come yet
    serving         \* no datagram has ended the service

vars == <<buf, udp_msgs, origin, serving>>

\* The power of two numbers.
Pow(base, exp) ==
    LET p[i \in Nat] == IF i = 0 THEN 1 ELSE p[i - 1] * base
    IN  p[exp]

Word == Pow(Base, IntLen)

ASSUME SizesAssumption ==
    /\ Base \in Nat \ {0, 1}
    /\ {IntLen, ShortLen, TopicLen, StringLen} \subseteq Nat \ {0}
    /\ IntLen + 2 < StringLen /\ ShortLen < StringLen

-----------------------------------------------------------------------------
(* The publishers (README, "UDP Client"): the topic, zeros up to the 50    *)
(* characters it may have, one byte of type, and the data of that type.    *)
INT        == 0
SHORT_REAL == 1
FLOAT      == 2
TEXT       == 3     \* STRING is taken by TLA+

Zeros(n) == [i \in 1 .. n |-> 0]

Hton(n, len) == [i \in 1 .. len |-> (n \div Pow(Base, len - i)) % Base]

Payload(m) ==
    CASE m.type = INT        -> <<m.sign>> \o Hton(m.num, IntLen)
      [] m.type = SHORT_REAL -> Hton(m.num, ShortLen)
      [] m.type = FLOAT      -> <<m.sign>> \o Hton(m.num, IntLen) \o <<m.exp>>
      [] OTHER               -> m.chars

Datagram(m) == m.topic \o Zeros(TopicLen - 1 - Len(m.topic)) \o <<m.type>> \o Payload(m)

Byte == 0 .. Base - 1

ASSUME MessagesAssumption ==
    \A m \in Messages :
        /\ m.topic \in Seq(Byte \ {0}) /\ Len(m.topic) < TopicLen
        /\ m.type \in Byte /\ m.sign \in Byte /\ m.exp \in Byte
        /\ m.num \in 0 .. (IF m.type = SHORT_REAL THEN Pow(Base, ShortLen) ELSE Word) - 1
        /\ m.chars \in Seq(Byte) /\ Len(m.chars) < StringLen

\* What the buffer of zeros the server starts with reads as.
Nothing == [topic |-> << >>, type |-> INT, sign |-> 0, num |-> 0, exp |-> 0, chars |-> << >>]

-----------------------------------------------------------------------------
(* utils.c and udp_type.c *)
Bytes(off, n) == SubSeq(buf', off + 1, off + n)

Ntoh(s) ==
    LET n[i \in 0 .. Len(s)] == IF i = 0 THEN 0 ELSE n[i - 1] * Base + s[i]
    IN  n[Len(s)]

\* The base is squared before the bit is looked at.
LoopBody_bug(l) ==
    IF l.exp = 0 THEN l
    ELSE LET sq == (l.base * l.base) % Word
         IN  [base |-> sq, exp |-> l.exp \div 2,
              base_to_exp |-> IF l.exp % 2 = 1 THEN (l.base_to_exp * sq) % Word
                                               ELSE l.base_to_exp]

\* A pass of the loop, as long as it goes on.  Every product wraps to 32 bits.
LoopBody(l) ==
    IF l.exp = 0 THEN l
    ELSE [base        |-> (l.base * l.base) % Word,
          exp         |-> l.exp \div 2,
          base_to_exp |-> IF l.exp % 2 = 1 THEN (l.base_to_exp * l.base) % Word
                                           ELSE l.base_to_exp]

\* There are at most exp passes.
ipow(base, exp) ==
    LET after[i \in 0 .. exp] == IF i = 0 THEN [base |-> base, exp |-> exp, base_to_exp |-> 1]
                                           ELSE LoopBody(after[i - 1])
    IN  after[exp].base_to_exp

\* What an int32_t holds of a number.
Wrap(n) == LET u == n % Word IN IF u < Word \div 2 THEN u ELSE u - Word

parse_udp_int_type(off) ==
    LET n == Wrap(Ntoh(Bytes(off + 1, IntLen)))
    IN  IF buf'[off + 1] # 0 THEN Wrap(-1 * n) ELSE n

\* Hundredths: the quotient is not rounded here.
parse_udp_short_real_type(off) == [num |-> Ntoh(Bytes(off, ShortLen)), den |-> 100]

\* The exponent is read one byte too far.
parse_udp_float_type_bug(off) ==
    LET n == Ntoh(Bytes(off + 1, IntLen))
    IN  [num |-> IF buf'[off + 1] # 0 THEN -1 * n ELSE n,
         den |-> ipow(10, buf'[off + 2 + IntLen + 1])]

parse_udp_float_type(off) ==
    LET n == Ntoh(Bytes(off + 1, IntLen))
    IN  [num |-> IF buf'[off + 1] # 0 THEN -1 * n ELSE n,
         den |-> ipow(10, buf'[off + 2 + IntLen])]

\* One character is lost.
parse_udp_string_type_bug(off) == Bytes(off, StringLen - 2)

\* All of MAX_STRING_LEN, whatever the datagram had.
parse_udp_string_type(off) == Bytes(off, StringLen)

ParsedData(type) ==
    CASE type = INT        -> parse_udp_int_type(TopicLen)
      [] type = SHORT_REAL -> parse_udp_short_real_type(TopicLen)
      [] type = FLOAT      -> parse_udp_float_type(TopicLen)
      [] type = TEXT       -> parse_udp_string_type(TopicLen)

\* The topic field takes the byte of the type along.
Parsed == LET type == buf'[TopicLen]
          IN  [topic |-> Bytes(0, TopicLen), type |-> type, data |-> ParsedData(type)]

\* A zero ends a C string.  The slot was cleared and memory behind the field stays zero.
CString(s) == LET ends == {i \in DOMAIN s : s[i] = 0}
              IN  IF ends = {} THEN s
                  ELSE SubSeq(s, 1, (CHOOSE i \in ends : \A j \in ends : i <= j) - 1)

\* The strings of the topic and of the value that a subscriber prints.
pack_topic_to_tcp_msg(msg) ==
    [topic |-> CString(msg.topic), type |-> msg.type,
     data  |-> IF msg.type = TEXT THEN CString(msg.data) ELSE msg.data]

\* The comparison stops at the end of the subscription.
IsAbout_bug(msg, topic) == IsPrefix(topic, CString(msg.topic))

\* The strcmp with the topic of a subscription.
IsAbout(msg, topic) == CString(msg.topic) = topic

-----------------------------------------------------------------------------
Init ==
    /\ buf = Zeros(TopicLen + StringLen)
    /\ udp_msgs = << >>
    /\ origin = << >>
    /\ serving = TRUE

\* An unknown type ends the main loop; the datagram is not stored.
add_server_udp_msg(m) ==
    IF buf'[TopicLen] \in {INT, SHORT_REAL, FLOAT, TEXT}
    THEN /\ udp_msgs' = Append(udp_msgs, Parsed)
         /\ origin' = Append(origin, m)
         /\ UNCHANGED serving
    ELSE serving' = FALSE /\ UNCHANGED <<udp_msgs, origin>>

\* recvfrom overwrites the head of the buffer.
recvfrom(d) == buf' = d \o SubSeq(buf, Len(d) + 1, Len(buf))

ReceiveDatagram(m) ==
    /\ serving /\ Len(udp_msgs) < MaxMsgs
    /\ recvfrom(Datagram(m))
    /\ add_server_udp_msg(m)

InBuf == IF origin = << >> THEN Nothing ELSE Last(origin)

\* -1 is not told from a length: the old buffer is parsed and stored once more, the zeros of
\* the start too.
ReceiveFails ==
    /\ serving /\ Len(udp_msgs) < MaxMsgs
    /\ UNCHANGED buf
    /\ add_server_udp_msg(InBuf)

\* An empty datagram takes the socket out of the poll vector.
ReceiveNothing ==
    /\ serving
    /\ serving' = FALSE
    /\ UNCHANGED <<buf, udp_msgs, origin>>

Next == ReceiveFails \/ ReceiveNothing \/ \E m \in Messages : ReceiveDatagram(m)

Spec == Init /\ [][Next]_vars

-----------------------------------------------------------------------------
(* Properties *)

\* The topic is followed by a zero: it is not of full length, or the type behind it is 0.
EndsInTime(m) == Len(m.topic) < TopicLen - 1 \/ m.type = 0

\* A message is found by the subscribers of the topic it was sent to, and by no others
\* (README: the topic is a "string of max 50 characters"), except that a topic of full
\* length with a type other than INT is found by nobody.  What a failing recvfrom stores before
\* the first datagram, which nobody sent, has the empty topic.
TopicAsSent ==
    \A i \in DOMAIN udp_msgs : \A m \in Messages :
        IsAbout(udp_msgs[i], m.topic) <=> m.topic = origin[i].topic /\ EndsInTime(origin[i])

Signed(m) == IF m.sign # 0 THEN -1 * m.num ELSE m.num

\* The number a subscriber prints is the one that was sent, whatever datagrams came before,
\* as long as an INT fits into 31 bits and the power of ten of a FLOAT into 32.
NumberAsSent ==
    \A i \in DOMAIN udp_msgs :
        LET m == origin[i]  data == pack_topic_to_tcp_msg(udp_msgs[i]).data IN
        CASE m.type = INT        -> m.num < Word \div 2 => data = Signed(m)
          [] m.type = SHORT_REAL -> data = [num |-> m.num, den |-> 100]
          [] m.type = FLOAT      -> Pow(10, m.exp) < Word =>
                                        data = [num |-> Signed(m), den |-> Pow(10, m.exp)]
          [] OTHER               -> TRUE

\* A text has its own end: a zero, or the full length, which leaves a byte of the field alone.
Terminated(m) == Len(m.chars) = StringLen - 1 \/ Contains(m.chars, 0)

\* The text a subscriber prints is the one that was sent, whatever longer text was in the
\* buffer before; a text that has no end of its own (the payloads: "type {STRING} -
\* value{Ana are mere}") is its beginning.
StringAsSent ==
    \A i \in DOMAIN udp_msgs :
        origin[i].type = TEXT =>
            LET sent    == CString(origin[i].chars)
                printed == pack_topic_to_tcp_msg(udp_msgs[i]).data
            IN  IF Terminated(origin[i]) THEN printed = sent ELSE IsPrefix(sent, printed)

\* The exact power, reduced after each factor.
Power(base, exp) ==
    LET p[i \in Nat] == IF i = 0 THEN 1 ELSE (p[i - 1] * base) % Word
    IN  p[exp]

\* ipow of whatever byte a datagram has left in the buffer is the power modulo 2^32: exact as
\* long as it fits, and not what its comment says ("return uint32_t base ^ exp") beyond that.
IpowIsThePower == \A i \in DOMAIN buf : ipow(10, buf[i]) = Power(10, buf[i])
=============================================================================
