------------------------------ MODULE Network ------------------------------
(***************************************************************************)
(* What surrounds the server: the sockets of the kernel, the subscribers   *)
(* at the other end of the TCP connections (src/src/subscriber*.c), the    *)
(* UDP publishers and the operator at the terminal.                        *)
(*                                                                         *)
(* A TCP message is always one whole tcp_msg_t (tcp_type.c sends and       *)
(* receives sizeof(tcp_msg_t) bytes), so a connection carries messages.    *)
(* The content of the messages towards a subscriber does not matter here:  *)
(* only how many of them it has not read yet.                              *)
(***************************************************************************)
EXTENDS Integers, Sequences, FiniteSets

CONSTANTS
    Ids,            \* subscriber IDs
    Topics,         \* topic names
    MaxFd,          \* highest descriptor the process may open
    MaxConns,       \* bound: connections ever made
    MaxPublish,     \* bound: datagrams ever sent
    MaxCmds,        \* bound: commands ever sent by subscribers
    SockBuf,        \* messages a connection buffers towards the subscriber
    DatagramTypes,  \* what publishers send: some of "topic", "unknown" and "empty"
    CommandNames,   \* what subscribers send: some of "subscribe", "unsubscribe", "other"
    Lines           \* what the operator types: some of "exit", "other", "part" and "end"

ASSUME BoundsAssumption  == /\ MaxFd \in Nat /\ MaxConns \in Nat /\ MaxPublish \in Nat
                            /\ MaxCmds \in Nat /\ SockBuf \in Nat \ {0}
ASSUME InputsAssumption  == /\ DatagramTypes \subseteq {"topic", "unknown", "empty"}
                            /\ CommandNames \subseteq {"subscribe", "unsubscribe", "other"}
                            /\ Lines \subseteq {"exit", "other", "part", "end"}

VARIABLES
    conn,           \* conn[c]: both ends of connection c
    backlog,        \* connections the kernel completed and the server has not accepted
    udpq,           \* datagrams in the buffer of the UDP socket
    published,      \* number of datagrams sent, bounded by MaxPublish
    commands,       \* number of commands sent, bounded by MaxCmds
    stdin           \* what the next fgets of the server's stdin finds

netVars == <<conn, backlog, udpq, published, commands, stdin>>

STDIN    == 0
UDP      == 3       \* the first descriptor init_server opens
LISTENER == 4       \* the second one
NoFd     == -1

\* accept() can return the number of the UDP socket once that socket is closed.
Fds   == {UDP} \cup (LISTENER + 1) .. MaxFd
Conns == 1 .. MaxConns

NoId    == "no ID"
NoTopic == "no topic"

ASSUME TopicsAssumption == NoTopic \notin Topics

Options  == {"NO_SF", "SF"}
IdMsg    == [cmd |-> "id"]
Commands == {m \in [cmd : {"subscribe"}, topic : Topics, sf : Options]
                     \cup [cmd : {"unsubscribe"}, topic : Topics]
                     \cup [cmd : {"other"}] : m.cmd \in CommandNames}

\* A datagram of type "topic" parses, one of type "unknown" has a type byte the parser
\* does not know, an "empty" one has no bytes.
Datagrams == {d \in [type : {"topic"}, topic : Topics]
                      \cup [type : {"unknown", "empty"}] : d.type \in DatagramTypes}

(***************************************************************************)
(* peer: the subscriber's end.  "aborted" is a close that left messages    *)
(* unread, which the kernel turns into a reset instead of a FIN.           *)
(* err: what the server's end learned from a reset.  "reset" fails one     *)
(* call, after it (or after a reset that follows a FIN) a send raises      *)
(* SIGPIPE.                                                                *)
(***************************************************************************)
Connections == [peer   : {"free", "connecting", "open", "closed", "aborted"},
                id     : Ids \cup {NoId},
                fd     : Fds \cup {NoFd},
                inbox  : Seq(Commands \cup {IdMsg}),
                unread : 0 .. SockBuf,
                err    : {"none", "reset", "pipe"}]

FreeConn == [peer |-> "free", id |-> NoId, fd |-> NoFd,
             inbox |-> << >>, unread |-> 0, err |-> "none"]

NetInit == /\ conn      = [c \in Conns |-> FreeConn]
           /\ backlog   = << >>
           /\ udpq      = << >>
           /\ published = 0
           /\ commands  = 0
           /\ stdin     = "nothing"

Running(c)  == conn[c].peer \in {"connecting", "open"}
PeerGone(c) == conn[c].peer \in {"closed", "aborted"}
ConnsOf(fd) == {c \in Conns : conn[c].fd = fd}

InBacklog(c) == \E n \in DOMAIN backlog : backlog[n] = c

\* The server closed its end, or went away with the connection still unaccepted.
ServerGone(c) == conn[c].peer # "free" /\ conn[c].fd = NoFd /\ ~ InBacklog(c)

-----------------------------------------------------------------------------
(* The subscribers. *)

\* init_client_tcp_socket: connect() ...  Connections are numbered in the order made.
Connect(c, id) ==
    /\ conn[c].peer = "free"
    /\ \A d \in Conns : d < c => conn[d].peer # "free"
    /\ conn' = [conn EXCEPT ![c].peer = "connecting", ![c].id = id]
    /\ backlog' = Append(backlog, c)
    /\ UNCHANGED <<udpq, published, commands, stdin>>

\* ... and then the ID is sent.
SendId(c) ==
    /\ conn[c].peer = "connecting"
    /\ conn' = [conn EXCEPT ![c].peer = "open", ![c].inbox = Append(@, IdMsg)]
    /\ UNCHANGED <<backlog, udpq, published, commands, stdin>>

\* process_subscribe_cmd, process_unsubscribe_cmd.
SendCommand(c) ==
    /\ conn[c].peer = "open"
    /\ ~ ServerGone(c)
    /\ commands < MaxCmds
    /\ \E m \in Commands : conn' = [conn EXCEPT ![c].inbox = Append(@, m)]
    /\ commands' = commands + 1
    /\ UNCHANGED <<backlog, udpq, published, stdin>>

\* process_ready_fds of the subscriber: a message is printed (in a round without a request
\* on its stdin) ...
ReadMessage(c) ==
    /\ conn[c].peer = "open"
    /\ conn[c].unread > 0
    /\ conn' = [conn EXCEPT ![c].unread = @ - 1]
    /\ UNCHANGED <<backlog, udpq, published, commands, stdin>>

\* ... and the end of the connection ends the subscriber.  The server's close is a reset
\* when it left commands unread, and a reset may overtake the messages under way.
ReadEnd(c) ==
    /\ Running(c)
    /\ ServerGone(c)
    /\ conn[c].unread = 0 \/ conn[c].inbox # << >>
    /\ conn' = [conn EXCEPT ![c].peer = "closed"]
    /\ UNCHANGED <<backlog, udpq, published, commands, stdin>>

\* The subscriber exits (or is killed).  A close with unread messages drops them and resets
\* the connection; the reset may or may not have arrived by the server's next send.
Exit(c) ==
    /\ Running(c)
    /\ \/ /\ conn[c].unread = 0
          /\ conn' = [conn EXCEPT ![c].peer = "closed"]
       \/ /\ conn[c].unread > 0
          /\ \E e \in {"none", "reset"} :
                conn' = [conn EXCEPT ![c].peer = "aborted", ![c].unread = 0, ![c].err = e]
    /\ UNCHANGED <<backlog, udpq, published, commands, stdin>>

(* The publishers and the operator. *)
Publish(d) ==
    /\ published < MaxPublish
    /\ published' = published + 1
    /\ udpq' = Append(udpq, d)
    /\ UNCHANGED <<conn, backlog, commands, stdin>>

\* A line is what one fgets returns: the operator's, or MAX_CMD_LEN - 1 bytes of a longer one,
\* which stdio may have read ahead long before poll reports the bytes that let it return.
\* "part" is the beginning of a line, "end" the end of the input, which stays.
TypeLine(line) ==
    /\ \/ stdin = "nothing"
       \/ stdin = "part" /\ line \in {"exit", "other"}
    /\ stdin' = line
    /\ UNCHANGED <<conn, backlog, udpq, published, commands>>

-----------------------------------------------------------------------------
(* The server's end of the sockets, as changes of conn. *)

\* A read on the connection returns data, the end of the stream or an error: not at all
\* while the subscriber is connected and silent.
Readable(c) == conn[c].inbox # << >> \/ PeerGone(c)

Accepted(c, fd) == [conn EXCEPT ![c].fd = fd]
Received(c)     == [conn EXCEPT ![c].inbox = Tail(@)]
ClosedFd(fd)    == [c \in Conns |-> IF conn[c].fd = fd
                                    THEN [conn[c] EXCEPT !.fd = NoFd, !.err = "none"]
                                    ELSE conn[c]]
AllClosed       == [c \in Conns |-> [conn[c] EXCEPT !.fd = NoFd]]

(***************************************************************************)
(* send_tcp_msg on the connection behind fd.  A live connection takes the  *)
(* message when there is room (the call blocks until there is).  A dead    *)
(* one still takes it until the answering reset has arrived; after that    *)
(* the call does not return.                                               *)
(***************************************************************************)
RaisesSIGPIPE(fd) == \E c \in ConnsOf(fd) : conn[c].err = "pipe"

send_tcp_msg(fd, result) ==
    \/ \E c \in ConnsOf(fd) :
        \/ /\ Running(c)
           /\ conn[c].unread < SockBuf
           /\ result = "OK"
           /\ conn' = [conn EXCEPT ![c].unread = @ + 1]
        \/ /\ PeerGone(c)
           /\ conn[c].err = "none"
           /\ result = "OK"
           /\ \E e \in {"none", IF conn[c].peer = "closed" THEN "pipe" ELSE "reset"} :
                 conn' = [conn EXCEPT ![c].err = e]
        \/ /\ conn[c].err = "reset"
           /\ result = "FAILED"
           /\ conn' = [conn EXCEPT ![c].err = "pipe"]
    \/ /\ ConnsOf(fd) = {}
       /\ result = "FAILED"
       /\ conn' = conn
=============================================================================
