----------------------------- MODULE Subscriber -----------------------------
(***************************************************************************)
(* One subscriber (src/src/subscriber.c, subscriber_utils.c): a thread     *)
(* that connects, sends its ID and then polls the stdin and the socket.    *)
(* Around it are whoever writes to the stdin, stdio's buffer between the   *)
(* two, and the server, which may go away at any moment.                   *)
(*                                                                         *)
(* The calls on the socket move whole messages (Framing).                  *)
(***************************************************************************)
EXTENDS Integers, Sequences, SequencesExt, FiniteSets

CONSTANTS
    Id,             \* the ID the subscriber was started with
    Topics,
    Stdins,         \* what the stdin may be: some of "terminal", "pipe" and "file"
    Chunks,         \* what one fgets may return: a line, or the next MAX_CLIENT_CMD_LEN - 1
                    \* bytes of a longer one
    Failures,       \* whether the calls that set the subscriber up may fail
    MaxLines,       \* bound: chunks ever typed
    MaxMessages,    \* bound: messages the server ever sends
    RequestBuf,     \* requests the connection buffers towards the server
    SockBuf         \* messages it buffers towards the subscriber

VARIABLES
    pc,             \* where the thread is
    revents,        \* what the last poll reported: some of "stdin" and "socket"
    cmd,            \* the chunk in client->cmd
    kind,           \* stdin: what it is
    piped,          \* stdin: what was written and not read
    stdio,          \* stdin: what stdio has read ahead
    ended,          \* stdin: nobody will write to it any more
    server,         \* the server's end of the connection
    requests,       \* what was sent to the server and not read by it
    unread,         \* how many messages are under way to the subscriber
    err,            \* what the socket learned from a reset
    (* The rest is read by properties only. *)
    script,         \* the chunks typed
    read,           \* how many of them fgets returned
    sent,           \* the requests the server's end took
    messages,       \* how many messages the server sent
    printed         \* how many were printed

process  == <<pc, revents, cmd>>
input    == <<kind, piped, stdio, ended>>
socket   == <<server, requests, unread, err>>
history  == <<script, read, sent, messages, printed>>
vars     == <<process, input, socket, history>>

\* A chunk is a command name, the exact one or the beginning of a longer word, what follows
\* it, and whether the line has more.  A piece is less than fgets waits for.
Piece  == [name |-> "piece", exact |-> FALSE, topic |-> "none", sf |-> "none", more |-> TRUE]
NoLine == [name |-> "none", exact |-> FALSE, topic |-> "none", sf |-> "none", more |-> FALSE]
IdMsg  == [cmd |-> "id"]

ASSUME BoundsAssumption == /\ MaxLines \in Nat /\ MaxMessages \in Nat
                           /\ RequestBuf \in Nat \ {0} /\ SockBuf \in Nat \ {0}
ASSUME ChunksAssumption == /\ \A chunk \in Chunks : /\ chunk.exact \in BOOLEAN
                                                   /\ chunk.topic \in Topics \cup {"none"}
                                                   /\ chunk.more \in BOOLEAN
                           /\ Piece \notin Chunks

\* All chunks of a line but the last have more.
Lines == {line \in SeqOf(Chunks, MaxLines) \ {<< >>} :
             \A n \in DOMAIN line : line[n].more <=> n < Len(line)}

Now(place) == pc = place
Goto(place) == pc' = place

\* The input is a file, and then all of it is there, or nothing is typed yet.
Init ==
    /\ pc = "init_client" /\ revents = {} /\ cmd = NoLine
    /\ kind \in Stdins
    /\ \/ kind # "file" /\ script = << >> /\ ended = FALSE
       \/ kind = "file" /\ script \in SeqOf(Chunks, MaxLines) /\ ended = TRUE
    /\ piped = script /\ stdio = << >>
    /\ server \in {"down", "listening"}
    /\ requests = << >> /\ unread = 0 /\ err = "none"
    /\ read = 0 /\ sent = << >> /\ messages = 0 /\ printed = 0

-----------------------------------------------------------------------------
(* init_client *)

\* An allocation or a call before connect fails.
init_client_fails ==
    /\ Now("init_client") /\ Failures
    /\ Goto("failed")
    /\ UNCHANGED <<revents, cmd, input, socket, history>>

\* The ID is not sent.
connect_bug ==
    /\ Now("init_client")
    /\ \/ server = "listening" /\ server' = "backlog" /\ Goto("init_poll_vec")
       \/ server # "listening" /\ UNCHANGED server /\ Goto("failed")
    /\ UNCHANGED <<revents, cmd, input, requests, unread, err, history>>

connect ==
    /\ Now("init_client")
    /\ \/ server = "listening" /\ server' = "backlog" /\ Goto("send_id")
       \/ server # "listening" /\ UNCHANGED server /\ Goto("failed")
    /\ UNCHANGED <<revents, cmd, input, requests, unread, err, history>>

\* After a reset the call fails, and with it the subscriber.
send_id ==
    /\ Now("send_id")
    /\ \/ /\ err = "none"
          /\ requests' = Append(requests, IdMsg) /\ sent' = Append(sent, IdMsg)
          /\ Goto("init_poll_vec")
       \/ err # "none" /\ UNCHANGED <<requests, sent>> /\ Goto("failed")
    /\ UNCHANGED <<revents, cmd, input, server, unread, err, script, read, messages, printed>>

\* A failure closes the connection.
init_client_poll_vec ==
    /\ Now("init_poll_vec")
    /\ Goto("wait_for_ready_fds") \/ (Failures /\ Goto("failed"))
    /\ UNCHANGED <<revents, cmd, input, socket, history>>

-----------------------------------------------------------------------------
(* The main loop: poll, one chunk of the stdin or else one message.        *)

\* At the end of a pipe poll reports POLLHUP, which nobody looks at; a file is always
\* readable.
StdinReadable  == piped # << >> \/ kind = "file" \/ (kind = "terminal" /\ ended)
SocketReadable == unread > 0 \/ server \in {"closed", "reset"}

\* The socket is polled for POLLOUT too, so the loop keeps turning; a round with nothing to
\* read changes nothing.
wait_for_ready_fds ==
    /\ Now("wait_for_ready_fds")
    /\ StdinReadable \/ SocketReadable
    /\ revents' = {f \in {"stdin", "socket"} : \/ f = "stdin" /\ StdinReadable
                                               \/ f = "socket" /\ SocketReadable}
    /\ Goto("get_cmd_line")
    /\ UNCHANGED <<cmd, input, socket, history>>

\* poll fails.
poll_fails ==
    /\ Now("wait_for_ready_fds") /\ Failures
    /\ Goto("free_client")
    /\ UNCHANGED <<revents, cmd, input, socket, history>>

\* The events are not looked at.
get_cmd_line_bug ==
    /\ Now("get_cmd_line")
    /\ Goto("fgets")
    /\ UNCHANGED <<revents, cmd, input, socket, history>>

get_cmd_line ==
    /\ Now("get_cmd_line")
    /\ IF "stdin" \in revents THEN Goto("fgets") ELSE Goto("process_ready_fds")
    /\ UNCHANGED <<revents, cmd, input, socket, history>>

LinesIn(s) == {n \in DOMAIN s : s[n] # Piece}

\* stdio has not enough: it takes what is there, as much as its buffer holds, and of a
\* terminal at most one line.
fgets_reads ==
    /\ Now("fgets") /\ LinesIn(stdio) = {} /\ piped # << >>
    /\ \E n \in 1 .. Len(piped) :
       /\ kind = "terminal" => \A m \in 1 .. n - 1 : piped[m].more
       /\ stdio' = stdio \o SubSeq(piped, 1, n)
       /\ piped' = SubSeq(piped, n + 1, Len(piped))
    /\ UNCHANGED <<process, kind, ended, socket, history>>

\* The names are compared up to their own length: a longer word passes.
Dispatch(line) ==
    CASE line.name = "subscribe"   -> Goto("process_subscribe_cmd")
      [] line.name = "unsubscribe" -> Goto("process_unsubscribe_cmd")
      [] line.name = "exit"        -> Goto("free_client")
      [] OTHER                     -> Goto("process_ready_fds")

\* What stdio read ahead is thrown away (a fflush of the stdin).
fgets_returns_bug ==
    /\ Now("fgets")
    /\ \E n \in LinesIn(stdio) :
        /\ \A m \in LinesIn(stdio) : n <= m
        /\ stdio' = << >>
        /\ cmd' = stdio[n]
        /\ Dispatch(stdio[n])
    /\ read' = read + 1
    /\ UNCHANGED <<revents, kind, piped, ended, socket, script, sent, messages, printed>>

\* A line, or the MAX_CLIENT_CMD_LEN - 1 bytes that fit of a longer one, which is taken for
\* a command of its own; so is the rest of that line.
fgets_returns ==
    /\ Now("fgets")
    /\ \E n \in LinesIn(stdio) :
        /\ \A m \in LinesIn(stdio) : n <= m
        /\ stdio' = SubSeq(stdio, n + 1, Len(stdio))
        /\ cmd' = stdio[n]
        /\ Dispatch(stdio[n])
    /\ read' = read + 1
    /\ UNCHANGED <<revents, kind, piped, ended, socket, script, sent, messages, printed>>

\* The result of fgets is not looked at: the line before is taken for a new one.
fgets_ends_bug ==
    /\ Now("fgets") /\ stdio = << >> /\ piped = << >> /\ ended
    /\ Dispatch(cmd)
    /\ UNCHANGED <<revents, cmd, input, socket, history>>

\* The end of the input counts as a line.
fgets_ends_as_line_bug ==
    /\ Now("fgets") /\ stdio = << >> /\ piped = << >> /\ ended
    /\ Goto("process_ready_fds")
    /\ read' = read + 1
    /\ UNCHANGED <<revents, cmd, input, socket, script, sent, messages, printed>>

\* NULL at the end of the input is NONE.
fgets_ends ==
    /\ Now("fgets") /\ stdio = << >> /\ piped = << >> /\ ended
    /\ Goto("process_ready_fds")
    /\ UNCHANGED <<revents, cmd, input, socket, history>>

-----------------------------------------------------------------------------
(* The commands. *)

\* send_tcp_msg: it waits for room; after the server's close it is OK until the reset that
\* answers it has arrived, then SIGPIPE ends the process.
send_tcp_msg(m) ==
    \/ /\ server \in {"backlog", "accepted"}
       /\ Len(requests) < RequestBuf
       /\ requests' = Append(requests, m) /\ sent' = Append(sent, m)
       /\ Goto("wait_for_ready_fds")
       /\ UNCHANGED err
    \/ /\ server \in {"closed", "reset"}
       /\ \/ err = "none"  /\ err' \in {"none", "pipe"} /\ Goto("wait_for_ready_fds")
          \/ err = "reset" /\ err' = "pipe"             /\ Goto("wait_for_ready_fds")
          \/ err = "pipe"  /\ UNCHANGED err             /\ Goto("killed")
       /\ UNCHANGED <<requests, sent>>

Command(line, m) ==
    \/ line.topic = "none" /\ Goto("wait_for_ready_fds") /\ UNCHANGED <<requests, sent, err>>
    \/ line.topic # "none" /\ send_tcp_msg(m)

\* The name is sent as it was typed, and the server knows the exact ones only.
NameSent(line) == IF line.exact THEN line.name ELSE "other"

\* No number, and any number up to 0, is NO_SF.
Option(line) == IF line.sf = "1" THEN "SF" ELSE "NO_SF"

process_subscribe_cmd ==
    /\ Now("process_subscribe_cmd")
    /\ Command(cmd, IF NameSent(cmd) = "other" THEN [cmd |-> "other"]
                    ELSE [cmd |-> "subscribe", topic |-> cmd.topic, sf |-> Option(cmd)])
    /\ UNCHANGED <<revents, cmd, input, server, unread, script, read, messages, printed>>

process_unsubscribe_cmd ==
    /\ Now("process_unsubscribe_cmd")
    /\ Command(cmd, IF NameSent(cmd) = "other" THEN [cmd |-> "other"]
                    ELSE [cmd |-> "unsubscribe", topic |-> cmd.topic])
    /\ UNCHANGED <<revents, cmd, input, server, unread, script, read, messages, printed>>

-----------------------------------------------------------------------------
(* The socket. *)

\* The socket is read only when there is a line too.
reads_with_stdin_bug ==
    /\ Now("process_ready_fds")
    /\ \/ /\ revents # {"stdin", "socket"}
          /\ Goto("wait_for_ready_fds")
          /\ UNCHANGED <<unread, printed>>
       \/ /\ revents = {"stdin", "socket"} /\ unread > 0
          /\ unread' = unread - 1 /\ printed' = printed + 1
          /\ Goto("wait_for_ready_fds")
       \/ /\ revents = {"stdin", "socket"} /\ unread = 0
          /\ Goto("free_client")
          /\ UNCHANGED <<unread, printed>>
    /\ UNCHANGED <<revents, cmd, input, server, requests, err, script, read, sent, messages>>

\* One message is printed, or recv fails and the loop ends.  A reset may overtake messages.
process_ready_fds ==
    /\ Now("process_ready_fds")
    /\ \/ /\ "socket" \notin revents
          /\ Goto("wait_for_ready_fds")
          /\ UNCHANGED <<unread, printed>>
       \/ /\ "socket" \in revents /\ unread > 0
          /\ unread' = unread - 1 /\ printed' = printed + 1
          /\ Goto("wait_for_ready_fds")
       \/ /\ "socket" \in revents
          /\ server = "reset" \/ (server = "closed" /\ unread = 0)
          /\ Goto("free_client")
          /\ UNCHANGED <<unread, printed>>
    /\ UNCHANGED <<revents, cmd, input, server, requests, err, script, read, sent, messages>>

free_client ==
    /\ Now("free_client")
    /\ Goto("exited")
    /\ UNCHANGED <<revents, cmd, input, socket, history>>

Ended == pc \in {"exited", "killed", "failed"}

SubscriberStep ==
    \/ init_client_fails \/ connect \/ send_id \/ init_client_poll_vec
    \/ wait_for_ready_fds \/ poll_fails \/ get_cmd_line
    \/ fgets_reads \/ fgets_returns \/ fgets_ends
    \/ process_subscribe_cmd \/ process_unsubscribe_cmd
    \/ process_ready_fds \/ free_client

-----------------------------------------------------------------------------
(* Whoever types, and the server. *)

\* A terminal delivers whole lines, a pipe any part of one.
Delivered == IF kind = "terminal" THEN Lines ELSE {<<chunk>> : chunk \in Chunks}

TypeLine(line) ==
    /\ ~ ended /\ line \in Delivered /\ Len(script) + Len(line) <= MaxLines
    /\ piped' = piped \o line
    /\ script' = script \o line
    /\ UNCHANGED <<process, kind, stdio, ended, socket, read, sent, messages, printed>>

Unfinished == stdio \o piped # << >> /\ Last(stdio \o piped) = Piece

\* A pipe may deliver the beginning of a chunk; TypeLine then writes the rest of it.
TypePiece ==
    /\ kind = "pipe" /\ ~ ended /\ ~ Unfinished /\ Len(script) < MaxLines
    /\ piped' = Append(piped, Piece)
    /\ UNCHANGED <<process, kind, stdio, ended, socket, history>>

\* The end of the input also ends the last line.
EndInput ==
    /\ ~ ended /\ ~ Unfinished
    /\ ended' = TRUE
    /\ UNCHANGED <<process, kind, piped, stdio, socket, history>>

ServerAccepts ==
    /\ server = "backlog"
    /\ server' = "accepted"
    /\ UNCHANGED <<process, input, requests, unread, err, history>>

ServerReads ==
    /\ server = "accepted" /\ requests # << >>
    /\ requests' = Tail(requests)
    /\ UNCHANGED <<process, input, server, unread, err, history>>

ServerSends ==
    /\ server = "accepted" /\ ~ Ended
    /\ messages < MaxMessages /\ unread < SockBuf
    /\ unread' = unread + 1 /\ messages' = messages + 1
    /\ UNCHANGED <<process, input, server, requests, err, script, read, sent, printed>>

\* The server closes this connection or ends: with requests unread that is a reset.
ServerCloses ==
    /\ \/ /\ server = "accepted" /\ requests = << >>
          /\ server' = "closed" /\ UNCHANGED err
       \/ /\ server = "backlog" \/ (server = "accepted" /\ requests # << >>)
          /\ server' = "reset" /\ err' = "reset"
       \/ /\ server = "listening"
          /\ server' = "down" /\ UNCHANGED err
    /\ UNCHANGED <<process, input, requests, unread, history>>

Next ==
    \/ SubscriberStep
    \/ \E line \in Lines \cup {<<chunk>> : chunk \in Chunks} : TypeLine(line)
    \/ TypePiece \/ EndInput
    \/ ServerAccepts \/ ServerReads \/ ServerSends \/ ServerCloses

Spec == Init /\ [][Next]_vars

\* The subscriber's thread runs, and the server accepts and reads or goes away: it does not
\* wait for ever for this or another subscriber.  Nobody has to type, to finish a line, to
\* send a message or to leave; but MaxLines ends the typing.
FairSpec == Spec /\ WF_vars(SubscriberStep) /\ WF_vars(ServerAccepts) /\ WF_vars(ServerReads)

-----------------------------------------------------------------------------
Places == {"init_client", "send_id", "init_poll_vec", "wait_for_ready_fds", "get_cmd_line",
           "fgets", "process_subscribe_cmd", "process_unsubscribe_cmd", "process_ready_fds",
           "free_client", "exited", "killed", "failed"}

Requests == [cmd : {"subscribe"}, topic : Topics, sf : {"SF", "NO_SF"}]
                \cup [cmd : {"unsubscribe"}, topic : Topics] \cup [cmd : {"other", "id"}]

\* The variables have their types, and stdio never holds more than there was.
TypeOK ==
    /\ pc \in Places /\ revents \subseteq {"stdin", "socket"} /\ cmd \in Chunks \cup {NoLine}
    /\ kind \in Stdins /\ piped \in Seq(Chunks \cup {Piece})
    /\ stdio \in Seq(Chunks \cup {Piece})
    /\ ended \in BOOLEAN
    /\ server \in {"down", "listening", "backlog", "accepted", "closed", "reset"}
    /\ requests \in Seq(Requests) /\ Len(requests) <= RequestBuf
    /\ unread \in 0 .. SockBuf /\ err \in {"none", "reset", "pipe"}
    /\ script \in Seq(Chunks) /\ read \in 0 .. Len(script) /\ sent \in Seq(Requests)
    /\ messages \in 0 .. MaxMessages /\ printed \in 0 .. messages

\* The request a chunk stands for, if any.
IsRequest(line) == line.name \in {"subscribe", "unsubscribe"} /\ line.topic # "none"

RequestOf(line) ==
    IF ~ IsRequest(line) THEN << >>
    ELSE <<IF ~ line.exact THEN [cmd |-> "other"]
           ELSE IF line.name = "subscribe"
                THEN [cmd |-> "subscribe", topic |-> line.topic, sf |-> Option(line)]
                ELSE [cmd |-> "unsubscribe", topic |-> line.topic]>>

RequestsOf(lines) == FlattenSeq([n \in DOMAIN lines |-> RequestOf(lines[n])])

\* What the server is asked are the ID and then the chunks in the order they were typed, each
\* once, although poll, stdio and the command buffer each hold a part of them: all chunks but
\* the one the thread is at, until the server goes away.  A line that fgets returns whole is
\* one chunk; of a line of MAX_CLIENT_CMD_LEN bytes or more every part is a command of its own.
\* A word longer than a command's name is sent as well (RequestOf), although the comment of
\* get_cmd_line says that a name that is not valid is not processed.
AsksWhatWasTyped ==
    LET busy  == pc \in {"process_subscribe_cmd", "process_unsubscribe_cmd"}
        asked == <<IdMsg>> \o RequestsOf(SubSeq(script, 1, IF busy THEN read - 1 ELSE read))
    IN  IF server \in {"closed", "reset"} THEN IsPrefix(sent, asked)
        ELSE sent # << >> => sent = asked

WaitsForALine == pc = "fgets" /\ LinesIn(stdio) = {} /\ LinesIn(piped) = {} /\ ~ ended

\* The thread calls fgets and recv only when they return (README: it uses "IO multiplexing
\* in order not to stop to a blocking recv or fgets function call"): of fgets this is so but
\* for a line that a pipe has begun to deliver.
NeverBlocksOnInput ==
    /\ WaitsForALine => Unfinished
    /\ pc = "process_ready_fds" /\ "socket" \in revents => SocketReadable

\* The connection as Network has it: seen from the server, a subscriber.
Peer ==
    IF server \in {"down", "listening"} THEN "free"
    ELSE IF pc = "send_id" THEN "connecting"
    ELSE IF ~ Ended        THEN "open"
    ELSE IF unread = 0     THEN "closed" ELSE "aborted"

TheConnection == [peer |-> Peer, id |-> IF Peer = "free" THEN "no ID" ELSE Id,
                  fd |-> IF server = "accepted" THEN 5 ELSE -1,
                  inbox |-> requests, unread |-> IF Ended THEN 0 ELSE unread, err |-> "none"]

N == INSTANCE Network WITH
        Ids <- {Id}, MaxFd <- 5, MaxConns <- 1, MaxPublish <- 0, MaxCmds <- MaxLines,
        DatagramTypes <- {}, CommandNames <- {"subscribe", "unsubscribe", "other"}, Lines <- {},
        conn <- <<TheConnection>>, backlog <- IF server = "backlog" THEN <<1>> ELSE << >>,
        udpq <- << >>, published <- 0, commands <- IF sent = << >> THEN 0 ELSE Len(sent) - 1,
        stdin <- "nothing"

\* Every step of the program, which is one that moves pc, is a step of the subscriber that the
\* server's model assumes, or none: it connects, then sends its ID, then commands of the
\* protocol, reads what is there and leaves when the connection ends or when it likes.
IsASubscriberOfNetwork ==
    [][pc' # pc =>
         \/ N!Connect(1, Id) \/ N!SendId(1) \/ N!SendCommand(1) \/ N!ReadMessage(1)
         \/ N!ReadEnd(1) \/ N!Exit(1) \/ UNCHANGED N!netVars]_vars

\* What is typed is read, unless the subscriber ends or waits for the end of a line.  Poll
\* looks at the descriptor and not at what stdio has read ahead of it, so a line may stay in
\* the stdio buffer if it came through a pipe, and of a terminal the rest of a long one.
LinesAreRead ==
    \A n \in 1 .. MaxLines :
        Len(script) >= n ~> \/ read >= n \/ Ended \/ WaitsForALine
                            \/ /\ read + Cardinality(LinesIn(stdio)) >= n
                               /\ \/ kind = "pipe"
                                  \/ kind = "terminal" /\ n > 1 /\ script[n - 1].more

\* Of an input that ends or pauses (MaxLines) nothing but a line that was begun and not
\* finished keeps the subscriber from printing the messages it was sent and from ending with
\* its connection, although poll goes on reporting the end of the input and the line that is
\* read in a round may leave others in the stdio buffer.  The input has to pause: a round with
\* a subscribe or unsubscribe line does not look at the socket (subscriber.c, main), so one
\* such line after the other would keep the subscriber from it for ever.
StuckOnlyInALine ==
    /\ \A n \in 1 .. MaxMessages :
            messages >= n ~> printed >= n \/ Ended \/ WaitsForALine
    /\ server \in {"down", "closed", "reset"} ~> Ended \/ WaitsForALine
=============================================================================
