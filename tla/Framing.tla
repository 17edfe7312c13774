------------------------------ MODULE Framing ------------------------------
(***************************************************************************)
(* The two loops of src/src/tcp_type.c over one TCP connection.  send and  *)
(* recv of the kernel move any number of bytes, at least one, and block    *)
(* when there is no room or nothing to read; the loops go on until a whole *)
(* tcp_msg_t has passed.  Each end is one thread, so it is in one call at  *)
(* a time: the server (src/src/server_utils.c) and a subscriber            *)
(* (src/src/subscriber_utils.c) that poll before they read.                *)
(*                                                                         *)
(* A byte is <<m, i>>: the i-th byte of the m-th message of its sender.    *)
(***************************************************************************)
EXTENDS Integers, Sequences

CONSTANTS
    MsgLen,     \* sizeof (tcp_msg_t)
    Capacity,   \* Capacity[e]: the bytes the kernel buffers on the way from the end e
    MaxMsgs     \* bound: MaxMsgs[e] messages are ever sent by the end e

Ends     == {"server", "subscriber"}
Other(e) == IF e = "server" THEN "subscriber" ELSE "server"

ASSUME MsgLenAssumption   == MsgLen \in Nat \ {0}
ASSUME CapacityAssumption == Capacity \in [Ends -> Nat \ {0}]
ASSUME MaxMsgsAssumption  == MaxMsgs \in [Ends -> Nat]

VARIABLES
    wire,       \* wire[e]: the bytes under way from the end e
    call,       \* call[e]: the function the thread of e is in
    count,      \* count[e]: bytes_send of that call, the bytes it has moved
    buf,        \* buf[e]: the recv_msg of the end, never cleared between two calls
    sent,       \* sent[e]: how many calls of send_tcp_msg returned OK
    got,        \* got[e]: what the calls of recv_tcp_msg that returned OK left in buf
    open,       \* open[e]: the descriptor of the end is open
    reset       \* the connection was reset

vars == <<wire, call, count, buf, sent, got, open, reset>>

Bytes      == (Nat \ {0}) \X (1 .. MsgLen)
NoByte     == <<0, 0>>
Message(m) == [i \in 1 .. MsgLen |-> <<m, i>>]

Init ==
    /\ wire = [e \in Ends |-> << >>]
    /\ call = [e \in Ends |-> "none"]
    /\ count = [e \in Ends |-> 0]
    /\ buf = [e \in Ends |-> [i \in 1 .. MsgLen |-> NoByte]]
    /\ sent = [e \in Ends |-> 0]
    /\ got = [e \in Ends |-> << >>]
    /\ open = [e \in Ends |-> TRUE]
    /\ reset = FALSE

-----------------------------------------------------------------------------
(* The callers. *)

\* A subscriber sends its ID first, then a command whenever one is typed; the server sends
\* to a subscriber it has registered.
StartSend(e) ==
    /\ open[e] /\ call[e] = "none"
    /\ e = "server" => got[e] # << >>
    /\ sent[e] < MaxMsgs[e]
    /\ call' = [call EXCEPT ![e] = "send"]
    /\ count' = [count EXCEPT ![e] = 0]
    /\ UNCHANGED <<wire, buf, sent, got, open, reset>>

Pollin(e) == wire[Other(e)] # << >> \/ ~ open[Other(e)] \/ reset

\* Both read when the poll reports something, except that the server waits for the ID
\* without a poll.
StartRecv(e) ==
    /\ open[e] /\ call[e] = "none"
    /\ \/ e = "subscriber" /\ sent[e] > 0 /\ Pollin(e)
       \/ e = "server" /\ (got[e] = << >> \/ Pollin(e))
    /\ call' = [call EXCEPT ![e] = "recv"]
    /\ count' = [count EXCEPT ![e] = 0]
    /\ UNCHANGED <<wire, buf, sent, got, open, reset>>

Returned(e) == call' = [call EXCEPT ![e] = "none"] /\ count' = [count EXCEPT ![e] = 0]

-----------------------------------------------------------------------------
(* send_tcp_msg *)

\* The loop also goes on when bytes_send = buf_len.
Moved_bug(e, n) == count' = [count EXCEPT ![e] = @ + n] /\ UNCHANGED <<call, sent>>

\* while (bytes_send < buf_len): the loop goes on, or returns OK with the last byte.
Moved(e, n) ==
    \/ /\ count[e] + n < MsgLen
       /\ count' = [count EXCEPT ![e] = @ + n]
       /\ UNCHANGED <<call, sent>>
    \/ /\ count[e] + n = MsgLen
       /\ Returned(e)
       /\ sent' = [sent EXCEPT ![e] = @ + 1]

Room(e) == Capacity[e] - Len(wire[e])

\* The message is sent from its start in every iteration.
Chunk_bug(e, n) == SubSeq(Message(sent[e] + 1), 1, n)

\* The bytes of the message from buf + bytes_send on.
Chunk(e, n) == SubSeq(Message(sent[e] + 1), count[e] + 1, count[e] + n)

send_bytes(e) ==
    /\ call[e] = "send" /\ open[Other(e)] /\ ~ reset
    /\ \E n \in 1 .. MsgLen - count[e] :
        /\ n <= Room(e)
        /\ wire' = [wire EXCEPT ![e] = @ \o Chunk(e, n)]
        /\ Moved(e, n)
    /\ UNCHANGED <<buf, got, open, reset>>

\* The other end is closed: the kernel takes the bytes, and the reset that answers them may
\* arrive before the next iteration.
send_to_closed(e) ==
    /\ call[e] = "send" /\ ~ open[Other(e)] /\ ~ reset
    /\ \E n \in 1 .. MsgLen - count[e] : Moved(e, n)
    /\ reset' \in BOOLEAN
    /\ UNCHANGED <<wire, buf, got, open>>

\* After a reset send returns -1 and the message is given up, or SIGPIPE ends the process.
send_fails(e) ==
    /\ call[e] = "send" /\ reset
    /\ Returned(e)
    /\ \/ UNCHANGED open
       \/ open' = [open EXCEPT ![e] = FALSE]
    /\ UNCHANGED <<wire, buf, sent, got, reset>>

send_tcp_msg(e) == send_bytes(e) \/ send_to_closed(e) \/ send_fails(e)

-----------------------------------------------------------------------------
(* recv_tcp_msg *)

\* What one recv left at buf + bytes_send.
Filled(e, n) == [i \in 1 .. MsgLen |-> IF i \in count[e] + 1 .. count[e] + n
                                       THEN wire[Other(e)][i - count[e]] ELSE buf[e][i]]

recv_bytes(e) ==
    /\ call[e] = "recv" /\ wire[Other(e)] # << >>
    /\ \E n \in 1 .. MsgLen - count[e] :
        /\ n <= Len(wire[Other(e)])
        /\ buf' = [buf EXCEPT ![e] = Filled(e, n)]
        /\ wire' = [wire EXCEPT ![Other(e)] = SubSeq(@, n + 1, Len(@))]
        /\ \/ /\ count[e] + n < MsgLen
              /\ count' = [count EXCEPT ![e] = @ + n]
              /\ UNCHANGED <<call, got>>
           \/ /\ count[e] + n = MsgLen
              /\ Returned(e)
              /\ got' = [got EXCEPT ![e] = Append(@, Filled(e, n))]
    /\ UNCHANGED <<sent, open, reset>>

\* The end of the stream inside a message is not noticed: the loop stops, the call is OK.
recv_fails_as_ok_bug(e) ==
    /\ call[e] = "recv"
    /\ reset \/ (wire[Other(e)] = << >> /\ ~ open[Other(e)])
    /\ Returned(e)
    /\ got' = [got EXCEPT ![e] = IF count[e] > 0 THEN Append(@, buf[e]) ELSE @]
    /\ open' = [open EXCEPT ![e] = FALSE]
    /\ wire' = [wire EXCEPT ![Other(e)] = << >>]
    /\ UNCHANGED <<buf, sent, reset>>

\* Only -1 ends the loop: at the end of the stream it turns for ever.
recv_fails_at_minus_one_bug(e) ==
    /\ call[e] = "recv" /\ reset
    /\ Returned(e)
    /\ open' = [open EXCEPT ![e] = FALSE]
    /\ wire' = [wire EXCEPT ![Other(e)] = << >>]
    /\ UNCHANGED <<buf, sent, got, reset>>

\* recv returns 0 at the end of the stream and -1 after a reset, which may overtake bytes
\* under way.  The callers close the connection then; a part of a message is dropped.
recv_fails(e) ==
    /\ call[e] = "recv"
    /\ reset \/ (wire[Other(e)] = << >> /\ ~ open[Other(e)])
    /\ Returned(e)
    /\ open' = [open EXCEPT ![e] = FALSE]
    /\ wire' = [wire EXCEPT ![Other(e)] = << >>]
    /\ UNCHANGED <<buf, sent, got, reset>>

recv_tcp_msg(e) == recv_bytes(e) \/ recv_fails(e)

-----------------------------------------------------------------------------
\* A process exits or is killed, wherever its thread is.  Unread bytes make the close a reset.
Close(e) ==
    /\ open[e]
    /\ open' = [open EXCEPT ![e] = FALSE]
    /\ Returned(e)
    /\ wire' = [wire EXCEPT ![Other(e)] = << >>]
    /\ reset' = (reset \/ wire[Other(e)] # << >>)
    /\ UNCHANGED <<buf, sent, got>>

Next == \E e \in Ends : \/ StartSend(e) \/ StartRecv(e) \/ Close(e)
                        \/ send_tcp_msg(e) \/ recv_tcp_msg(e)

Spec == Init /\ [][Next]_vars

\* A thread goes on with its call when the kernel lets it, reads what its poll reports, and
\* a subscriber sends its ID after connecting.  Nobody has to send anything else or to exit.
Fairness ==
    /\ \A e \in Ends : /\ WF_vars(send_tcp_msg(e)) /\ WF_vars(recv_tcp_msg(e))
                       /\ WF_vars(StartRecv(e))
    /\ WF_vars(sent["subscriber"] = 0 /\ StartSend("subscriber"))

FairSpec == Spec /\ Fairness

-----------------------------------------------------------------------------
TypeOK ==
    /\ wire \in [Ends -> Seq(Bytes)]
    /\ call \in [Ends -> {"none", "send", "recv"}]
    /\ count \in [Ends -> 0 .. MsgLen - 1]
    /\ buf \in [Ends -> [1 .. MsgLen -> Bytes \cup {NoByte}]]
    /\ sent \in [Ends -> Nat]
    /\ got \in [Ends -> Seq([1 .. MsgLen -> Bytes \cup {NoByte}])]
    /\ open \in [Ends -> BOOLEAN]
    /\ reset \in BOOLEAN

\* The bytes an end has moved in a call of op.
Within(e, op) == IF call[e] = op THEN count[e] ELSE 0

\* Bytes of one message follow each other, and the first byte of a message the last of the
\* one before: the stream has no gap, no repetition and no part of a message.
InOrder(w) ==
    /\ \A i \in DOMAIN w : \A k \in 0 .. MsgLen - w[i][2] :
            i + k <= Len(w) => w[i + k] = <<w[i][1], w[i][2] + k>>
    /\ \A i \in DOMAIN w :
            i < Len(w) /\ w[i][2] = MsgLen => w[i + 1] = <<w[i][1] + 1, 1>>

\* A stream w towards a receiver with the messages g, of whose next one b holds the first p
\* bytes, starts at the next byte, and holds no last byte of a message beyond the m sent.
Carries(w, g, b, p, m) ==
    /\ InOrder(w)
    /\ w # << >> => w[1] = <<Len(g) + 1, p + 1>>
    /\ \A i \in DOMAIN w : w[i][2] = MsgLen => w[i][1] <= m
    /\ \A i \in 1 .. p : b[i] = <<Len(g) + 1, i>>
    /\ \A n \in DOMAIN g : g[n] = Message(n)

\* It ends at the last byte moved by a sender of m messages and s bytes of the next one.
EndsRight(w, g, p, s, m) ==
    IF w = << >> THEN Len(g) = m /\ p = s
    ELSE w[Len(w)] = IF s = 0 THEN <<m, MsgLen>> ELSE <<m + 1, s>>

Stands == (\A e \in Ends : open[e]) /\ ~ reset

Flows(e) ==
    LET r == Other(e) IN
    /\ Carries(wire[e], got[r], buf[r], Within(r, "recv"), sent[e])
    /\ Stands => EndsRight(wire[e], got[r], Within(r, "recv"), Within(e, "send"), sent[e])
    /\ call[e] # "none" => open[e]

\* In both directions the messages received are the first ones sent, each whole, and what is
\* in the buffer and under way is the beginning of the next; nothing is missing at the
\* sender's end while the connection stands.  Only the owner of a descriptor uses it.
StreamInOrder == \A e \in Ends : Flows(e)

\* The number of a whole message, 0 if it is torn or put together from two.
NumberOf(m) == IF m = Message(m[1][1]) THEN m[1][1] ELSE 0

Received == [e \in Ends |-> [n \in DOMAIN got[e] |-> NumberOf(got[e][n])]]

C == INSTANCE Channel WITH received <- Received

\* The loops implement a connection of whole messages: whatever the kernel splits, and
\* wherever an end dies, a receiver gets the next message whole or none, and after a send
\* that failed no later one succeeds (README: "we ensure that we will always get a valid
\* message").
ImplementsChannel == C!Spec

\* Both ends are in send, neither has room, and so neither reads.
BothSend == \A e \in Ends : open[e] /\ call[e] = "send" /\ Room(e) = 0 /\ ~ reset

\* Every call of send_tcp_msg and recv_tcp_msg returns, unless the two ends come to send into
\* full buffers at the same time (README: "sending input to requests to server and fetching
\* topics data repeats until the connection is closed").
CallsReturn == \A e \in Ends : call[e] # "none" ~> call[e] = "none" \/ BothSend
=============================================================================
