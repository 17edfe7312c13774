-------------------------- MODULE SubscriberProofs --------------------------
(***************************************************************************)
(* A subscriber for any chunks, any number of them and any kind of stdin:  *)
(* its one thread calls fgets and recv only when they return, but for the  *)
(* line of a pipe that has no end yet; the server is asked what was typed, *)
(* in order and once; and to the server it is the subscriber of Network.   *)
(***************************************************************************)
EXTENDS Subscriber, SequenceLemmas

Pieces == Chunks \cup {Piece}

\* What is typed at once.
Typed == \E line \in Lines \cup {<<chunk>> : chunk \in Chunks} : TypeLine(line)

\* The thread is on its way to fgets.
WantsALine == pc = "fgets" \/ (pc = "get_cmd_line" /\ "stdin" \in revents)

\* What poll said of the stdin: something is there, or the end.
StdinOK == WantsALine => ended = TRUE \/ piped # << >> \/ stdio # << >>

\* What it said of the socket still holds when recv is called, after the call of fgets.
SocketOK == pc \in {"get_cmd_line", "fgets", "process_ready_fds"} /\ "socket" \in revents
                => SocketReadable

SubInv ==
    /\ piped \in Seq(Pieces) /\ stdio \in Seq(Pieces) /\ unread \in Nat
    /\ kind = "file" => ended = TRUE
    /\ StdinOK /\ SocketOK

-----------------------------------------------------------------------------
\* It is a sequence of chunks.
LEMMA TypedChunks ==
    ASSUME Typed
    PROVE  \E line \in Seq(Chunks) : TypeLine(line)
<1>1. PICK line \in Lines \cup {<<chunk>> : chunk \in Chunks} : TypeLine(line)
  BY DEF Typed
<1>2. CASE line \in Lines
  <2>1. line \in SeqOf(Chunks, MaxLines)
    BY <1>2 DEF Lines
  <2>2. PICK m \in 0 .. MaxLines : line \in [1 .. m -> Chunks]
    BY <2>1 DEF SeqOf
  <2>3. m \in Nat
    BY <2>2, BoundsAssumption
  <2>4. line \in Seq(Chunks)
    BY <2>2, <2>3, SeqDef
  <2> QED BY <1>1, <2>4
<1>3. CASE line \in {<<chunk>> : chunk \in Chunks}
  <2>1. PICK chunk \in Chunks : line = <<chunk>>
    BY <1>3
  <2>2. <<chunk>> \in Seq(Chunks)
    OBVIOUS
  <2> QED BY <1>1, <2>1, <2>2
<1> QED BY <1>1, <1>2, <1>3

\* A file is there whole when the subscriber starts.
LEMMA InitSubInv == Init => SubInv
<1> SUFFICES ASSUME Init PROVE SubInv
  OBVIOUS
<1>1. script \in Seq(Chunks)
  <2>1. CASE script = << >>
    BY <2>1, EmptySeq
  <2>2. CASE script \in SeqOf(Chunks, MaxLines)
    <3>1. PICK m \in 0 .. MaxLines : script \in [1 .. m -> Chunks]
      BY <2>2 DEF SeqOf
    <3>2. m \in Nat
      BY <3>1
    <3> QED BY <3>1, <3>2, SeqDef
  <2> QED BY <2>1, <2>2 DEF Init
<1>2. Chunks \subseteq Pieces
  BY DEF Pieces
<1>3. piped \in Seq(Pieces) /\ stdio \in Seq(Pieces)
  <2>1. script \in Seq(Pieces)
    BY <1>1, <1>2, SeqDef
  <2> QED BY <2>1, EmptySeq DEF Init
<1> QED BY <1>3 DEF Init, SubInv, StdinOK, WantsALine, SocketOK

\* stdio takes some or all of what was written to the stdin.
LEMMA ReadKeeps ==
    ASSUME SubInv, fgets_reads
    PROVE  SubInv'
<1>1. piped \in Seq(Pieces) /\ stdio \in Seq(Pieces) /\ piped # << >>
  BY DEF SubInv, fgets_reads
<1>3. PICK n \in 1 .. Len(piped) :
            /\ stdio' = stdio \o SubSeq(piped, 1, n)
            /\ piped' = SubSeq(piped, n + 1, Len(piped))
  BY DEF fgets_reads
<1>2. Len(piped) \in Nat
  BY <1>1, LenProperties
<1>4. SubSeq(piped, 1, n) \in Seq(Pieces) /\ Len(SubSeq(piped, 1, n)) = n
      /\ SubSeq(piped, n + 1, Len(piped)) \in Seq(Pieces)
  BY <1>1, <1>2
<1> DEFINE s == SubSeq(piped, 1, n)
<1> HIDE DEF s
<1>5. stdio' \in Seq(Pieces) /\ Len(stdio') = Len(stdio) + n
  BY <1>1, <1>3, <1>4, ConcatProperties DEF s
<1>6. stdio' # << >>
  BY <1>1, <1>2, <1>5, LenProperties
<1>7. UNCHANGED <<process, kind, ended, server, unread>>
  BY DEF fgets_reads, socket
<1>8. SocketOK'
  BY <1>7 DEF SubInv, SocketOK, SocketReadable, process
<1> QED BY <1>3, <1>4, <1>5, <1>6, <1>7, <1>8 DEF SubInv, StdinOK, process

\* fgets returns a line, and the thread goes on to the socket or to a command.
LEMMA ReturnKeeps ==
    ASSUME SubInv, fgets_returns
    PROVE  SubInv'
<1>1. /\ pc = "fgets" /\ stdio \in Seq(Pieces)
      /\ UNCHANGED <<revents, kind, piped, ended, server, unread>>
  BY DEF fgets_returns, Now, SubInv, socket
<1>2. PICK n \in LinesIn(stdio) :
        stdio' = SubSeq(stdio, n + 1, Len(stdio)) /\ Dispatch(stdio[n])
  BY DEF fgets_returns
<1>3. n \in 1 .. Len(stdio) /\ Len(stdio) \in Nat
  BY <1>1, <1>2, LenProperties DEF LinesIn
<1>4. stdio' \in Seq(Pieces)
  BY <1>1, <1>2, <1>3
<1>5. pc' \in {"process_subscribe_cmd", "process_unsubscribe_cmd", "free_client",
               "process_ready_fds"}
  BY <1>2 DEF Dispatch, Goto
<1>6. StdinOK' /\ SocketOK'
  BY <1>1, <1>5 DEF SubInv, StdinOK, WantsALine, SocketOK, SocketReadable
<1> QED BY <1>1, <1>4, <1>5, <1>6 DEF SubInv

\* The other steps of the thread leave the stdin alone.
LEMMA ThreadKeeps ==
    ASSUME SubInv,
           \/ init_client_fails \/ connect \/ send_id \/ init_client_poll_vec
           \/ wait_for_ready_fds \/ poll_fails \/ get_cmd_line \/ fgets_ends
           \/ process_subscribe_cmd \/ process_unsubscribe_cmd
           \/ process_ready_fds \/ free_client
    PROVE  SubInv'
<1>1. UNCHANGED input
  BY DEF init_client_fails, connect, send_id, init_client_poll_vec, wait_for_ready_fds,
         poll_fails, get_cmd_line, fgets_ends, process_subscribe_cmd, process_unsubscribe_cmd,
         process_ready_fds, free_client
<1>2. ASSUME pc' \in {"failed", "send_id", "init_poll_vec", "wait_for_ready_fds",
                      "free_client", "exited", "killed"},
             unread' \in Nat
      PROVE  SubInv'
  BY <1>1, <1>2 DEF SubInv, StdinOK, WantsALine, SocketOK, input
<1>3. unread \in Nat
  BY DEF SubInv
<1>4. CASE init_client_fails \/ connect \/ send_id \/ init_client_poll_vec \/ poll_fails
           \/ free_client
  BY <1>2, <1>3, <1>4 DEF init_client_fails, connect, send_id, init_client_poll_vec, poll_fails,
                          free_client, Goto, socket
<1>5. CASE process_subscribe_cmd \/ process_unsubscribe_cmd
  <2>1. \E m : Command(cmd, m)
    BY <1>5 DEF process_subscribe_cmd, process_unsubscribe_cmd
  <2>2. pc' \in {"wait_for_ready_fds", "killed"}
    BY <2>1 DEF Command, send_tcp_msg, Goto
  <2>3. unread' = unread
    BY <1>5 DEF process_subscribe_cmd, process_unsubscribe_cmd
  <2> QED BY <1>2, <1>3, <2>2, <2>3
<1>6. CASE process_ready_fds
  <2>1. pc' \in {"wait_for_ready_fds", "free_client"}
        /\ (unread' = unread \/ (unread > 0 /\ unread' = unread - 1))
    BY <1>6 DEF process_ready_fds, Goto
  <2> QED BY <1>2, <1>3, <2>1
<1>7. CASE wait_for_ready_fds
  <2>1. /\ pc' = "get_cmd_line" /\ UNCHANGED <<server, unread>>
        /\ "stdin" \in revents' => StdinReadable
        /\ "socket" \in revents' => SocketReadable
    BY <1>7 DEF wait_for_ready_fds, Goto, socket
  <2>2. StdinOK'
    BY <1>1, <2>1 DEF SubInv, StdinOK, WantsALine, StdinReadable, input
  <2>3. SocketOK'
    BY <2>1 DEF SocketOK, SocketReadable
  <2> QED BY <1>1, <2>1, <2>2, <2>3 DEF SubInv, input
<1>8. CASE get_cmd_line \/ fgets_ends
  <2>1. /\ pc \in {"get_cmd_line", "fgets"} /\ pc' \in {"fgets", "process_ready_fds"}
        /\ UNCHANGED <<revents, server, unread>>
        /\ pc' = "fgets" => WantsALine
    BY <1>8 DEF get_cmd_line, fgets_ends, Now, Goto, socket, WantsALine
  <2>2. StdinOK'
    BY <1>1, <2>1 DEF SubInv, StdinOK, WantsALine, input
  <2>3. SocketOK'
    BY <2>1 DEF SubInv, SocketOK, SocketReadable
  <2> QED BY <1>1, <2>1, <2>2, <2>3 DEF SubInv, input
<1> QED BY <1>4, <1>5, <1>6, <1>7, <1>8

\* Whoever types only adds to the stdin, or ends it.
LEMMA TypingKeeps ==
    ASSUME SubInv, Typed \/ TypePiece \/ EndInput
    PROVE  SubInv'
<1>0. (\E line \in Seq(Chunks) : TypeLine(line)) \/ TypePiece \/ EndInput
  BY TypedChunks
<1>1. UNCHANGED <<process, kind, stdio, server, unread>>
  BY <1>0 DEF TypeLine, TypePiece, EndInput, socket
<1>3. piped \in Seq(Pieces)
  BY DEF SubInv
<1>2. \/ ended' = ended /\ kind # "file" /\ \E u \in Seq(Pieces) : piped' = piped \o u
      \/ ended' = TRUE /\ piped' = piped
  <2>1. CASE \E line \in Seq(Chunks) : TypeLine(line)
    <3>1. PICK line \in Seq(Chunks) : TypeLine(line)
      BY <2>1
    <3>2. line \in Seq(Pieces)
      BY SeqMonotonic, Chunks \subseteq Pieces DEF Pieces
    <3> QED BY <3>1, <3>2 DEF TypeLine, SubInv
  <2>2. CASE TypePiece
    <3>1. <<Piece>> \in Seq(Pieces) /\ Append(piped, Piece) = piped \o <<Piece>>
      BY <1>3, AppendIsConcat DEF Pieces
    <3> QED BY <2>2, <3>1 DEF TypePiece, SubInv
  <2>3. CASE EndInput
    BY <2>3 DEF EndInput
  <2> QED BY <1>0, <2>1, <2>2, <2>3
<1>4. piped' \in Seq(Pieces) /\ (piped # << >> => piped' # << >>)
  <2>1. ASSUME NEW u \in Seq(Pieces), piped' = piped \o u
        PROVE  piped' \in Seq(Pieces) /\ (piped # << >> => piped' # << >>)
    <3>1. /\ piped' \in Seq(Pieces) /\ Len(piped') = Len(piped) + Len(u)
          /\ Len(piped) \in Nat /\ Len(u) \in Nat
      BY <1>3, <2>1, ConcatProperties, LenProperties
    <3>2. piped # << >> => Len(piped) > 0
      BY <1>3, EmptySeq
    <3>3. Len(<< >>) = 0
      BY EmptySeq
    <3> QED BY <3>1, <3>2, <3>3
  <2> QED BY <1>2, <1>3, <2>1
<1>5. StdinOK'
  BY <1>1, <1>2, <1>4 DEF SubInv, StdinOK, WantsALine, process
<1>6. SocketOK'
  BY <1>1 DEF SubInv, SocketOK, SocketReadable, process
<1> QED BY <1>1, <1>2, <1>4, <1>5, <1>6 DEF SubInv, process

\* The server only adds to the socket, or ends the connection.
LEMMA ServerSideKeeps ==
    ASSUME SubInv, ServerAccepts \/ ServerReads \/ ServerSends \/ ServerCloses
    PROVE  SubInv'
<1>1. UNCHANGED <<process, input>>
  BY DEF ServerAccepts, ServerReads, ServerSends, ServerCloses
<1>2. server \in {"closed", "reset"} => server' = server
  BY DEF ServerAccepts, ServerReads, ServerSends, ServerCloses
<1>3. unread' \in Nat /\ unread' >= unread
  BY DEF ServerAccepts, ServerReads, ServerSends, ServerCloses, SubInv
<1>4. unread \in Nat
  BY DEF SubInv
<1>5. SocketReadable => SocketReadable'
  BY <1>2, <1>3, <1>4 DEF SocketReadable
<1> QED BY <1>1, <1>2, <1>3, <1>5 DEF SubInv, StdinOK, WantsALine, SocketOK, process, input

\* The invariant of the loop.
LEMMA AlwaysSubInv == Spec => []SubInv
<1>1. SubInv /\ [Next]_vars => SubInv'
  <2> SUFFICES ASSUME SubInv, [Next]_vars PROVE SubInv'
    OBVIOUS
  <2>1. CASE UNCHANGED vars
    BY <2>1 DEF SubInv, StdinOK, WantsALine, SocketOK, SocketReadable, vars, process, input,
                socket
  <2>2. CASE SubscriberStep
    BY <2>2, ReadKeeps, ReturnKeeps, ThreadKeeps DEF SubscriberStep
  <2> QED BY <2>1, <2>2, TypingKeeps, ServerSideKeeps DEF Next, Typed
<1> QED BY <1>1, InitSubInv, PTL DEF Spec

-----------------------------------------------------------------------------
\* The thread of a subscriber calls fgets only when there is a line or the end of the input, or
\* a line that a pipe has begun to deliver, and recv only when there is a message or the end
\* of the connection, with whatever is typed and sent between the poll and the calls.
THEOREM ThreadDoesNotBlock == Spec => []NeverBlocksOnInput
<1>1. SubInv => NeverBlocksOnInput
  <2> SUFFICES ASSUME SubInv PROVE NeverBlocksOnInput
    OBVIOUS
  <2>1. pc = "process_ready_fds" /\ "socket" \in revents => SocketReadable
    BY DEF SubInv, SocketOK
  <2>2. ASSUME WaitsForALine PROVE Unfinished
    <3> DEFINE s == stdio \o piped
    <3>1. /\ pc = "fgets" /\ LinesIn(stdio) = {} /\ LinesIn(piped) = {} /\ ~ ended
          /\ piped # << >> \/ stdio # << >>
      BY <2>2 DEF WaitsForALine, SubInv, StdinOK, WantsALine
    <3>2. piped \in Seq(Pieces) /\ stdio \in Seq(Pieces)
      BY DEF SubInv
    <3>3. Len(piped) \in Nat /\ Len(stdio) \in Nat
          /\ DOMAIN piped = 1 .. Len(piped) /\ DOMAIN stdio = 1 .. Len(stdio)
      BY <3>2, LenProperties
    <3>4. (\A n \in 1 .. Len(piped) : piped[n] = Piece)
          /\ \A n \in 1 .. Len(stdio) : stdio[n] = Piece
      BY <3>1, <3>3 DEF LinesIn
    <3>5. s \in Seq(Pieces) /\ Len(s) = Len(stdio) + Len(piped)
          /\ \A n \in 1 .. Len(stdio) + Len(piped) :
               s[n] = IF n <= Len(stdio) THEN stdio[n] ELSE piped[n - Len(stdio)]
      BY <3>2, ConcatProperties
    <3> HIDE DEF s
    <3>6. Len(piped) > 0 \/ Len(stdio) > 0
      BY <3>1, <3>2, <3>3, EmptySeq
    <3>7. s[Len(s)] = Piece /\ Len(s) > 0
      BY <3>3, <3>4, <3>5, <3>6
    <3>8. s # << >>
      BY <3>7, EmptySeq
    <3> QED BY <3>7, <3>8 DEF Unfinished, Last, s
  <2> QED BY <2>1, <2>2 DEF NeverBlocksOnInput
<1> QED BY <1>1, AlwaysSubInv, PTL

-----------------------------------------------------------------------------
(***************************************************************************)
(* The lines on their way to the thread.  The lines typed and not read are *)
(* those of the input, in order: place n of the script is place f[n] of    *)
(* what stdio and the stdin still hold, whose other places are pieces.     *)
(***************************************************************************)
Carries(s, r, t) ==
    \E f \in [r + 1 .. Len(t) -> 1 .. Len(s)] :
        /\ \A i, j \in r + 1 .. Len(t) : i < j => f[i] < f[j]
        /\ \A i \in r + 1 .. Len(t) : s[f[i]] = t[i]
        /\ \A n \in LinesIn(s) : \E i \in r + 1 .. Len(t) : f[i] = n

InputOK == Carries(stdio \o piped, read, script)

Busy == pc \in {"process_subscribe_cmd", "process_unsubscribe_cmd"}

\* The command the thread is at is the line read last.
CmdOK == Busy => /\ read > 0 /\ cmd = script[read]
                 /\ cmd.name = IF pc = "process_subscribe_cmd" THEN "subscribe"
                                                               ELSE "unsubscribe"

\* The ID is the first thing sent, before a line is read, and there is a server to send it to.
StartOK ==
    /\ pc \in {"init_client", "send_id"} => sent = << >> /\ requests = << >>
    /\ pc \notin {"init_client", "send_id", "failed"} => sent # << >>
    /\ pc \in {"init_client", "send_id", "init_poll_vec"} => read = 0
    /\ pc = "init_client" => server \in {"down", "listening"}
    /\ server \in {"down", "listening"}
            => pc \in {"init_client", "failed"} /\ sent = << >> /\ unread = 0

\* A line becomes at most one request.
SentOK == Len(sent) <= IF Busy THEN read ELSE read + 1

Counts == messages = printed + unread /\ Len(script) <= MaxLines

SubTypes == TypeOK /\ Counts

-----------------------------------------------------------------------------
(* The commands. *)

\* What a line is sent as.
Request(line) ==
    IF ~ line.exact THEN [cmd |-> "other"]
    ELSE IF line.name = "subscribe"
         THEN [cmd |-> "subscribe", topic |-> line.topic, sf |-> Option(line)]
         ELSE [cmd |-> "unsubscribe", topic |-> line.topic]

\* It is a request of the protocol, and the one that the line stands for.
LEMMA RequestTypes ==
    ASSUME NEW line \in Chunks, line.name \in {"subscribe", "unsubscribe"}
    PROVE  /\ line.topic = "none" => RequestOf(line) = << >>
           /\ line.topic # "none" => /\ Request(line) \in Requests
                                     /\ RequestOf(line) = <<Request(line)>>
<1>1. line.exact \in BOOLEAN /\ line.topic \in Topics \cup {"none"}
  BY ChunksAssumption
<1>2. ASSUME line.topic = "none" PROVE RequestOf(line) = << >>
  BY <1>2 DEF RequestOf, IsRequest
<1>3. ASSUME line.topic # "none" PROVE Request(line) \in Requests
  BY <1>1, <1>3 DEF Request, Requests, Option
<1>4. ASSUME line.topic # "none" PROVE RequestOf(line) = <<Request(line)>>
  BY <1>1, <1>4 DEF RequestOf, IsRequest, Request
<1> QED BY <1>2, <1>3, <1>4

\* What the handlers of the two commands do.
Handled(line) ==
    \/ /\ RequestOf(line) = << >>
       /\ pc' = "wait_for_ready_fds" /\ UNCHANGED <<requests, sent, err>>
    \/ /\ RequestOf(line) = <<Request(line)>> /\ Request(line) \in Requests
       /\ server \in {"backlog", "accepted"} /\ Len(requests) < RequestBuf
       /\ requests' = Append(requests, Request(line))
       /\ sent' = Append(sent, Request(line))
       /\ pc' = "wait_for_ready_fds" /\ UNCHANGED err
    \/ /\ RequestOf(line) = <<Request(line)>> /\ Request(line) \in Requests
       /\ server \in {"closed", "reset"}
       /\ pc' \in {"wait_for_ready_fds", "killed"} /\ err' \in {"none", "reset", "pipe"}
       /\ UNCHANGED <<requests, sent>>

\* They handle the line read last.
LEMMA CommandHandled ==
    ASSUME TypeOK, CmdOK, process_subscribe_cmd \/ process_unsubscribe_cmd
    PROVE  /\ Busy /\ read \in 1 .. Len(script) /\ cmd = script[read] /\ cmd \in Chunks
           /\ UNCHANGED <<revents, cmd, input, server, unread, script, read, messages, printed>>
           /\ Handled(cmd)
<1>1. /\ Busy
      /\ UNCHANGED <<revents, cmd, input, server, unread, script, read, messages, printed>>
  BY DEF process_subscribe_cmd, process_unsubscribe_cmd, Now, Busy
<1>2. read \in 1 .. Len(script) /\ cmd = script[read] /\ cmd \in Chunks
  <2>1. read > 0 /\ cmd = script[read]
    BY <1>1 DEF CmdOK
  <2>2. script \in Seq(Chunks) /\ read \in 0 .. Len(script) /\ Len(script) \in Nat
    BY LenProperties DEF TypeOK
  <2>3. read \in 1 .. Len(script)
    BY <2>1, <2>2
  <2> QED BY <2>1, <2>2, <2>3, ElementOfSeq
<1>3. Command(cmd, Request(cmd)) /\ cmd.name \in {"subscribe", "unsubscribe"}
  <2>1. cmd.exact \in BOOLEAN
    BY <1>2, ChunksAssumption
  <2>2. CASE process_subscribe_cmd
    <3>1. cmd.name = "subscribe"
      BY <2>2 DEF CmdOK, Busy, process_subscribe_cmd, Now
    <3>2. Command(cmd, IF NameSent(cmd) = "other" THEN [cmd |-> "other"]
                       ELSE [cmd |-> "subscribe", topic |-> cmd.topic, sf |-> Option(cmd)])
      BY <2>2 DEF process_subscribe_cmd
    <3>3. NameSent(cmd) = "other" <=> ~ cmd.exact
      BY <2>1, <3>1 DEF NameSent
    <3> QED BY <2>1, <3>1, <3>2, <3>3 DEF Request
  <2>3. CASE process_unsubscribe_cmd
    <3>1. cmd.name = "unsubscribe"
      BY <2>3 DEF CmdOK, Busy, process_unsubscribe_cmd, Now
    <3>2. Command(cmd, IF NameSent(cmd) = "other" THEN [cmd |-> "other"]
                       ELSE [cmd |-> "unsubscribe", topic |-> cmd.topic])
      BY <2>3 DEF process_unsubscribe_cmd
    <3>3. NameSent(cmd) = "other" <=> ~ cmd.exact
      BY <2>1, <3>1 DEF NameSent
    <3> QED BY <2>1, <3>1, <3>2, <3>3 DEF Request
  <2> QED BY <2>2, <2>3
<1>4. CASE cmd.topic = "none"
  <2>1. RequestOf(cmd) = << >>
    BY <1>2, <1>3, <1>4, RequestTypes
  <2> QED BY <1>1, <1>2, <1>3, <1>4, <2>1 DEF Command, Goto, Handled
<1>5. CASE cmd.topic # "none"
  <2>1. RequestOf(cmd) = <<Request(cmd)>> /\ Request(cmd) \in Requests
    BY <1>2, <1>3, <1>5, RequestTypes
  <2>2. send_tcp_msg(Request(cmd))
    BY <1>3, <1>5 DEF Command
  <2>3. err \in {"none", "reset", "pipe"}
    BY DEF TypeOK
  <2>4. Handled(cmd)
    BY <2>1, <2>2, <2>3 DEF send_tcp_msg, Goto, Handled
  <2> QED BY <1>1, <1>2, <2>4
<1> QED BY <1>4, <1>5

-----------------------------------------------------------------------------
(* The lines. *)

\* New lines are behind the others.
LEMMA LinesAdded ==
    ASSUME NEW s \in Seq(Pieces), NEW t \in Seq(Chunks), NEW r \in 0 .. Len(t),
           Carries(s, r, t), NEW lines \in Seq(Chunks)
    PROVE  Carries(s \o lines, r, t \o lines)
<1>1. PICK f \in [r + 1 .. Len(t) -> 1 .. Len(s)] :
        /\ \A i, j \in r + 1 .. Len(t) : i < j => f[i] < f[j]
        /\ \A i \in r + 1 .. Len(t) : s[f[i]] = t[i]
        /\ \A n \in LinesIn(s) : \E i \in r + 1 .. Len(t) : f[i] = n
  BY DEF Carries
<1> DEFINE u == s \o lines
           v == t \o lines
           a == Len(s)
           b == Len(t)
           l == Len(lines)
           D == r + 1 .. b + l
           g == [i \in D |-> IF i <= b THEN f[i] ELSE a + (i - b)]
<1>0. lines \in Seq(Pieces)
  BY SeqMonotonic, Chunks \subseteq Pieces DEF Pieces
<1>2. /\ a \in Nat /\ b \in Nat /\ l \in Nat /\ r \in Nat /\ r <= b
      /\ DOMAIN s = 1 .. a
      /\ Len(u) = a + l /\ DOMAIN u = 1 .. a + l /\ Len(v) = b + l
      /\ \A n \in 1 .. a + l : u[n] = IF n <= a THEN s[n] ELSE lines[n - a]
      /\ \A i \in 1 .. b + l : v[i] = IF i <= b THEN t[i] ELSE lines[i - b]
  <2>1. a \in Nat /\ b \in Nat /\ l \in Nat /\ DOMAIN s = 1 .. a
    BY LenProperties
  <2>2. /\ u \in Seq(Pieces) /\ Len(u) = a + l
        /\ \A n \in 1 .. a + l : u[n] = IF n <= a THEN s[n] ELSE lines[n - a]
    BY <1>0, ConcatProperties
  <2>3. /\ v \in Seq(Chunks) /\ Len(v) = b + l
        /\ \A i \in 1 .. b + l : v[i] = IF i <= b THEN t[i] ELSE lines[i - b]
    BY ConcatProperties
  <2>4. DOMAIN u = 1 .. a + l
    BY <2>2, LenProperties
  <2> HIDE DEF u, v
  <2> QED BY <2>1, <2>2, <2>3, <2>4
<1> HIDE DEF u, v, l
<1>3. /\ \A i \in r + 1 .. b : i \in D /\ g[i] = f[i] /\ f[i] \in 1 .. a
      /\ \A i \in b + 1 .. b + l : i \in D /\ g[i] = a + (i - b)
      /\ \A i \in D : i \in r + 1 .. b \/ i \in b + 1 .. b + l
      /\ D \subseteq Int /\ D = r + 1 .. Len(v)
  <2>1. ASSUME NEW i \in r + 1 .. b PROVE i \in D /\ g[i] = f[i] /\ f[i] \in 1 .. a
    <3>1. i \in D /\ i <= b
      BY <1>2
    <3> QED BY <3>1
  <2>2. ASSUME NEW i \in b + 1 .. b + l PROVE i \in D /\ g[i] = a + (i - b)
    <3>1. i \in D /\ ~ (i <= b)
      BY <1>2
    <3> QED BY <3>1
  <2>3. \A i \in D : i \in r + 1 .. b \/ i \in b + 1 .. b + l
    BY <1>2
  <2>4. D \subseteq Int /\ D = r + 1 .. Len(v)
    BY <1>2
  <2> QED BY <2>1, <2>2, <2>3, <2>4
<1>4. g \in [D -> 1 .. Len(u)]
  <2>1. ASSUME NEW i \in D PROVE g[i] \in 1 .. Len(u)
    <3> HIDE DEF g, D
    <3>1. CASE i \in r + 1 .. b
      BY <1>2, <1>3, <3>1
    <3>2. CASE i \in b + 1 .. b + l
      BY <1>2, <1>3, <3>2
    <3> QED BY <1>3, <3>1, <3>2
  <2> QED BY <2>1
<1> HIDE DEF g, D
<1>5. \A i, j \in D : i < j => g[i] < g[j]
  <2> SUFFICES ASSUME NEW i \in D, NEW j \in D, i < j
               PROVE  g[i] < g[j]
    OBVIOUS
  <2>1. CASE i \in r + 1 .. b /\ j \in r + 1 .. b
    BY <1>1, <1>3, <2>1
  <2>2. CASE i \in r + 1 .. b /\ j \in b + 1 .. b + l
    BY <1>2, <1>3, <2>2
  <2>3. CASE i \in b + 1 .. b + l /\ j \in b + 1 .. b + l
    BY <1>2, <1>3, <2>3
  <2>4. ~ (i \in b + 1 .. b + l /\ j \in r + 1 .. b)
    BY <1>2, <1>3
  <2> QED BY <1>3, <2>1, <2>2, <2>3, <2>4
<1>6. \A i \in D : u[g[i]] = v[i]
  <2> SUFFICES ASSUME NEW i \in D PROVE u[g[i]] = v[i]
    OBVIOUS
  <2>1. CASE i \in r + 1 .. b
    <3>1. f[i] \in 1 .. a + l /\ f[i] <= a /\ g[i] = f[i] /\ i \in 1 .. b + l /\ i <= b
      BY <1>2, <1>3, <2>1
    <3>2. u[f[i]] = s[f[i]] /\ v[i] = t[i]
      BY <1>2, <3>1
    <3> QED BY <1>1, <2>1, <3>1, <3>2
  <2>2. CASE i \in b + 1 .. b + l
    <3>1. /\ g[i] = a + (i - b) /\ a + (i - b) \in 1 .. a + l /\ ~ (a + (i - b) <= a)
          /\ (a + (i - b)) - a = i - b /\ i \in 1 .. b + l /\ ~ (i <= b)
      BY <1>2, <1>3, <2>2
    <3>2. u[a + (i - b)] = lines[(a + (i - b)) - a] /\ v[i] = lines[i - b]
      BY <1>2, <3>1
    <3> QED BY <3>1, <3>2
  <2> QED BY <1>3, <2>1, <2>2
<1>7. ASSUME NEW n \in LinesIn(u) PROVE \E i \in D : g[i] = n
  <2>1. n \in 1 .. a + l /\ u[n] # Piece
    BY <1>2 DEF LinesIn
  <2>2. CASE n <= a
    <3>1. n \in LinesIn(s)
      BY <1>2, <2>1, <2>2 DEF LinesIn
    <3>2. PICK i \in r + 1 .. b : f[i] = n
      BY <1>1, <3>1
    <3> QED BY <1>3, <3>2
  <2>3. CASE ~ (n <= a)
    <3>1. b + (n - a) \in b + 1 .. b + l /\ a + ((b + (n - a)) - b) = n
      BY <1>2, <2>1, <2>3
    <3> QED BY <1>3, <3>1
  <2> QED BY <2>2, <2>3
<1>8. Carries(u, r, v)
  BY <1>3, <1>4, <1>5, <1>6, <1>7 DEF Carries
<1> QED BY <1>8 DEF u, v

\* A piece does not count.
LEMMA PieceAdded ==
    ASSUME NEW s \in Seq(Pieces), NEW t \in Seq(Chunks), NEW r \in 0 .. Len(t),
           Carries(s, r, t)
    PROVE  Carries(Append(s, Piece), r, t)
<1>1. PICK f \in [r + 1 .. Len(t) -> 1 .. Len(s)] :
        /\ \A i, j \in r + 1 .. Len(t) : i < j => f[i] < f[j]
        /\ \A i \in r + 1 .. Len(t) : s[f[i]] = t[i]
        /\ \A n \in LinesIn(s) : \E i \in r + 1 .. Len(t) : f[i] = n
  BY DEF Carries
<1> DEFINE u == Append(s, Piece)
<1>2. /\ Len(s) \in Nat /\ DOMAIN s = 1 .. Len(s)
      /\ Len(u) = Len(s) + 1 /\ DOMAIN u = 1 .. Len(s) + 1
      /\ \A n \in 1 .. Len(s) : u[n] = s[n]
      /\ u[Len(s) + 1] = Piece
  <2>1. Piece \in Pieces
    BY DEF Pieces
  <2> QED BY <2>1, AppendProperties, LenProperties
<1> HIDE DEF u
<1>3. f \in [r + 1 .. Len(t) -> 1 .. Len(u)]
  BY <1>2
<1>4. \A i \in r + 1 .. Len(t) : u[f[i]] = t[i]
  BY <1>1, <1>2
<1>5. ASSUME NEW n \in LinesIn(u) PROVE \E i \in r + 1 .. Len(t) : f[i] = n
  <2>1. n \in 1 .. Len(s) + 1 /\ u[n] # Piece
    BY <1>2 DEF LinesIn
  <2>2. n \in LinesIn(s)
    BY <1>2, <2>1 DEF LinesIn
  <2> QED BY <1>1, <2>2
<1>6. Carries(u, r, t)
  BY <1>1, <1>3, <1>4, <1>5 DEF Carries
<1> QED BY <1>6 DEF u

\* The first line of the input is the next one of the script, and behind it are the others.
LEMMA LineTaken ==
    ASSUME NEW s \in Seq(Pieces), NEW t \in Seq(Chunks), NEW r \in 0 .. Len(t),
           Carries(s, r, t), NEW n \in LinesIn(s), \A m \in LinesIn(s) : n <= m
    PROVE  /\ r < Len(t) /\ s[n] = t[r + 1]
           /\ Carries(SubSeq(s, n + 1, Len(s)), r + 1, t)
<1>1. PICK f \in [r + 1 .. Len(t) -> 1 .. Len(s)] :
        /\ \A i, j \in r + 1 .. Len(t) : i < j => f[i] < f[j]
        /\ \A i \in r + 1 .. Len(t) : s[f[i]] = t[i]
        /\ \A m \in LinesIn(s) : \E i \in r + 1 .. Len(t) : f[i] = m
  BY DEF Carries
<1>2. /\ Len(s) \in Nat /\ Len(t) \in Nat /\ DOMAIN s = 1 .. Len(s) /\ n \in 1 .. Len(s)
      /\ r \in Nat
  BY LenProperties DEF LinesIn
<1>3. \A i \in r + 1 .. Len(t) : f[i] \in LinesIn(s) /\ f[i] \in 1 .. Len(s)
  <2> SUFFICES ASSUME NEW i \in r + 1 .. Len(t)
               PROVE  f[i] \in LinesIn(s) /\ f[i] \in 1 .. Len(s)
    OBVIOUS
  <2>1. i \in 1 .. Len(t) /\ f[i] \in 1 .. Len(s) /\ s[f[i]] = t[i]
    BY <1>1, <1>2
  <2>2. t[i] \in Chunks
    BY <2>1, ElementOfSeq
  <2> QED BY <1>2, <2>1, <2>2, ChunksAssumption DEF LinesIn
<1>4. PICK k \in r + 1 .. Len(t) : f[k] = n
  BY <1>1
<1>5. r + 1 \in r + 1 .. Len(t) /\ k \in Int
  BY <1>2, <1>4
<1>6. f[r + 1] = n
  <2>1. n <= f[r + 1] /\ f[r + 1] \in 1 .. Len(s)
    BY <1>3, <1>5
  <2>2. k # r + 1 => f[r + 1] < f[k]
    BY <1>1, <1>2, <1>4, <1>5
  <2> QED BY <1>2, <1>4, <2>1, <2>2
<1>7. s[n] = t[r + 1]
  BY <1>1, <1>5, <1>6
<1> DEFINE u == SubSeq(s, n + 1, Len(s))
           D == (r + 1) + 1 .. Len(t)
           g == [i \in D |-> f[i] - n]
<1>8. /\ Len(u) = Len(s) - n /\ DOMAIN u = 1 .. Len(s) - n
      /\ \A m \in 1 .. Len(s) - n : u[m] = s[n + m]
  <2>1. u \in Seq(Pieces) /\ Len(u) = Len(s) - n /\ \A m \in 1 .. Len(s) - n : u[m] = s[n + m]
    <3>1. n \in 0 .. Len(s)
      BY <1>2
    <3> HIDE DEF D, g
    <3> QED BY <3>1, RestOfSeq
  <2> HIDE DEF u
  <2>2. DOMAIN u = 1 .. Len(u)
    BY <2>1, LenProperties
  <2> QED BY <2>1, <2>2
<1> HIDE DEF u
<1>9. \A i \in D : /\ i \in r + 1 .. Len(t) /\ g[i] = f[i] - n
                                       /\ f[i] \in 1 .. Len(s) /\ f[i] > n
  BY <1>1, <1>2, <1>3, <1>5, <1>6
<1>10. g \in [D -> 1 .. Len(u)]
  BY <1>2, <1>8, <1>9
<1> HIDE DEF g, D
<1>11. \A i, j \in D : i < j => g[i] < g[j]
  BY <1>1, <1>2, <1>9
<1>12. \A i \in D : u[g[i]] = t[i]
  <2> SUFFICES ASSUME NEW i \in D PROVE u[g[i]] = t[i]
    OBVIOUS
  <2>1. i \in r + 1 .. Len(t) /\ g[i] = f[i] - n /\ f[i] \in 1 .. Len(s) /\ f[i] > n
    BY <1>9
  <2>2. s[f[i]] = t[i]
    BY <1>1, <2>1
  <2> HIDE DEF D
  <2> DEFINE x == f[i]
             y == g[i]
  <2>3. y = x - n /\ x \in 1 .. Len(s) /\ x > n
    BY <2>1
  <2> HIDE DEF x, y
  <2>4. y \in 1 .. Len(s) - n /\ n + y = x
    BY <1>2, <2>3
  <2>5. g[i] \in 1 .. Len(s) - n /\ n + g[i] = f[i]
    BY <2>4 DEF x, y
  <2> QED BY <1>8, <2>2, <2>5
<1>13. ASSUME NEW m \in LinesIn(u) PROVE \E i \in D : g[i] = m
  <2>1. m \in 1 .. Len(s) - n /\ u[m] # Piece
    BY <1>8 DEF LinesIn
  <2>2. n + m \in LinesIn(s)
    BY <1>2, <1>8, <2>1 DEF LinesIn
  <2>3. PICK i \in r + 1 .. Len(t) : f[i] = n + m
    BY <1>1, <2>2
  <2>4. i # r + 1
    BY <1>2, <1>6, <2>1, <2>3
  <2>5. i \in D
    BY <1>2, <2>4 DEF D
  <2> QED BY <1>2, <1>9, <2>1, <2>3, <2>5
<1>14. Carries(u, r + 1, t)
  BY <1>10, <1>11, <1>12, <1>13 DEF Carries, D
<1> QED BY <1>2, <1>5, <1>7, <1>14 DEF u

-----------------------------------------------------------------------------
(* Every step keeps the types and what was said of the lines. *)

Progress == SubTypes /\ InputOK /\ CmdOK /\ StartOK /\ SentOK

\* The input and the script are sequences of lines and pieces.
LEMMA InputTypes ==
    ASSUME TypeOK
    PROVE  /\ script \in Seq(Chunks) /\ read \in 0 .. Len(script) /\ Len(script) \in Nat
           /\ piped \in Seq(Pieces) /\ stdio \in Seq(Pieces) /\ stdio \o piped \in Seq(Pieces)
           /\ sent \in Seq(Requests) /\ Len(sent) \in Nat
           /\ requests \in Seq(Requests) /\ Len(requests) \in Nat
<1>1. /\ script \in Seq(Chunks) /\ read \in 0 .. Len(script)
      /\ piped \in Seq(Pieces) /\ stdio \in Seq(Pieces)
      /\ sent \in Seq(Requests) /\ requests \in Seq(Requests)
  BY DEF TypeOK, Pieces
<1> QED BY <1>1, LenProperties, ConcatProperties

\* The thread goes on without a command.
LEMMA QuietKeeps ==
    ASSUME Progress, UNCHANGED <<cmd, input, socket, history>>, ~ Busy, ~ Busy',
           pc' \in Places \ {"init_client", "send_id", "init_poll_vec"},
           revents' \subseteq {"stdin", "socket"},
           pc \in {"init_client", "send_id"} => pc' = "failed",
           pc = "failed" => pc' = "failed"
    PROVE  Progress'
<1>1. UNCHANGED <<kind, piped, stdio, ended, server, requests, unread, err, script, read,
                  sent, messages, printed, cmd>>
  BY DEF input, socket, history
<1>2. TypeOK'
  BY <1>1 DEF Progress, SubTypes, TypeOK
<1>3. Counts' /\ InputOK' /\ CmdOK' /\ SentOK'
  BY <1>1 DEF Progress, SubTypes, Counts, InputOK, CmdOK, SentOK
<1>4. StartOK'
  BY <1>1 DEF Progress, StartOK
<1> QED BY <1>2, <1>3, <1>4 DEF Progress, SubTypes

\* These are the steps of that kind.
LEMMA QuietSteps ==
    ASSUME Progress,
           \/ init_client_fails \/ init_client_poll_vec \/ wait_for_ready_fds \/ poll_fails
           \/ get_cmd_line \/ fgets_ends \/ free_client
    PROVE  Progress'
<1>1. /\ UNCHANGED <<cmd, input, socket, history>>
      /\ pc \in {"init_client", "init_poll_vec", "wait_for_ready_fds", "get_cmd_line", "fgets",
                 "free_client"}
      /\ pc' \in {"failed", "wait_for_ready_fds", "get_cmd_line", "free_client", "fgets",
                  "process_ready_fds", "exited"}
      /\ pc = "init_client" => pc' = "failed"
      /\ revents' = revents \/ revents' \subseteq {"stdin", "socket"}
  BY DEF init_client_fails, init_client_poll_vec, wait_for_ready_fds, poll_fails, get_cmd_line,
         fgets_ends, free_client, Now, Goto
<1>2. revents' \subseteq {"stdin", "socket"}
  BY <1>1 DEF Progress, SubTypes, TypeOK
<1>3. ~ Busy /\ ~ Busy' /\ pc' \in Places \ {"init_client", "send_id", "init_poll_vec"}
  BY <1>1 DEF Busy, Places
<1> QED BY <1>1, <1>2, <1>3, QuietKeeps

\* The subscriber connects, or fails to.
LEMMA ConnectKeeps ==
    ASSUME Progress, connect
    PROVE  Progress'
<1>1. /\ UNCHANGED <<revents, cmd, input, requests, unread, err, history>>
      /\ pc = "init_client"
      /\ \/ server' = "backlog" /\ pc' = "send_id"
         \/ UNCHANGED server /\ pc' = "failed"
  BY DEF connect, Now, Goto
<1>2. UNCHANGED <<kind, piped, stdio, ended, requests, unread, err, script, read,
                  sent, messages, printed, revents, cmd>>
  BY <1>1 DEF input, history
<1>3. TypeOK'
  BY <1>1, <1>2 DEF Progress, SubTypes, TypeOK, Places
<1>4. Counts' /\ InputOK' /\ CmdOK' /\ SentOK'
  BY <1>1, <1>2 DEF Progress, SubTypes, Counts, InputOK, CmdOK, SentOK, Busy
<1>5. StartOK'
  BY <1>1, <1>2 DEF Progress, StartOK
<1> QED BY <1>3, <1>4, <1>5 DEF Progress, SubTypes

\* The ID is sent, or not.
LEMMA SendIdKeeps ==
    ASSUME Progress, send_id
    PROVE  Progress'
<1>1. /\ UNCHANGED <<revents, cmd, input, server, unread, err, script, read, messages, printed>>
      /\ pc = "send_id" /\ sent = << >> /\ requests = << >> /\ read = 0
      /\ \/ /\ requests' = Append(requests, IdMsg) /\ sent' = Append(sent, IdMsg)
            /\ pc' = "init_poll_vec"
         \/ UNCHANGED <<requests, sent>> /\ pc' = "failed"
  BY DEF send_id, Now, Goto, Progress, StartOK
<1>2. UNCHANGED <<kind, piped, stdio, ended>>
  BY <1>1 DEF input
<1>3. IdMsg \in Requests
  BY DEF IdMsg, Requests
<1> DEFINE one == Append(<< >>, IdMsg)
<1>4. << >> \in Seq(Requests) /\ Len(<< >>) = 0
  BY EmptySeq
<1>5. one \in Seq(Requests) /\ Len(one) = 1
  BY <1>3, <1>4, AppendProperties
<1>6. \/ requests' = one /\ sent' = one /\ pc' = "init_poll_vec"
      \/ requests' = << >> /\ sent' = << >> /\ pc' = "failed"
  BY <1>1
<1> HIDE DEF one
<1>7. RequestBuf >= 1 /\ RequestBuf \in Nat
  BY BoundsAssumption
<1>8. /\ Len(requests') <= RequestBuf /\ requests' \in Seq(Requests)
      /\ sent' \in Seq(Requests) /\ Len(sent') <= 1
      /\ pc' = "init_poll_vec" => sent' # << >>
  <2>1. CASE requests' = one /\ sent' = one /\ pc' = "init_poll_vec"
    <3>1. one # << >>
      BY <1>4, <1>5
    <3>2. Len(requests') = 1 /\ Len(sent') = 1
      BY <1>5, <2>1
    <3>3. requests' \in Seq(Requests) /\ sent' \in Seq(Requests) /\ sent' # << >>
      BY <1>5, <2>1, <3>1
    <3>4. QED
      BY <1>7, <3>2, <3>3
  <2>2. CASE requests' = << >> /\ sent' = << >> /\ pc' = "failed"
    <3>1. Len(requests') = 0 /\ Len(sent') = 0
      BY <1>4, <2>2
    <3>2. QED
      BY <1>4, <1>7, <2>2, <3>1
  <2>3. QED
    BY <1>6, <2>1, <2>2
<1>9. TypeOK'
  BY <1>1, <1>2, <1>6, <1>8 DEF Progress, SubTypes, TypeOK, Places
<1>10. Counts' /\ InputOK' /\ CmdOK'
  BY <1>1, <1>2, <1>6 DEF Progress, SubTypes, Counts, InputOK, CmdOK, Busy
<1>11. SentOK'
  BY <1>1, <1>6, <1>8 DEF SentOK, Busy
<1>12. StartOK'
  BY <1>1, <1>6, <1>8 DEF Progress, StartOK
<1> QED BY <1>9, <1>10, <1>11, <1>12 DEF Progress, SubTypes

\* stdio reads ahead: nothing is lost between the two.
LEMMA ReadAheadKeeps ==
    ASSUME Progress, fgets_reads, SubInv'
    PROVE  Progress'
<1>0. PICK n \in 1 .. Len(piped) :
            /\ stdio' = stdio \o SubSeq(piped, 1, n)
            /\ piped' = SubSeq(piped, n + 1, Len(piped))
  BY DEF fgets_reads
<1>1. /\ UNCHANGED <<process, kind, ended, socket, history>>
      /\ pc = "fgets" /\ piped # << >>
      /\ stdio' = stdio \o SubSeq(piped, 1, n) /\ piped' = SubSeq(piped, n + 1, Len(piped))
  BY <1>0 DEF fgets_reads, Now
<1>2. UNCHANGED <<pc, revents, cmd, server, requests, unread, err, script, read, sent,
                  messages, printed>>
  BY <1>1 DEF process, socket, history
<1>3. TypeOK
  BY DEF Progress, SubTypes
<1>4. piped \in Seq(Pieces) /\ stdio \in Seq(Pieces)
  BY <1>3, InputTypes
<1>5. n \in 1 .. Len(piped) /\ Len(piped) \in Nat
  BY <1>4, LenProperties
<1>6. stdio' \o piped' = stdio \o piped
  <2> DEFINE a == SubSeq(piped, 1, n)
             b == SubSeq(piped, n + 1, Len(piped))
  <2>1. a \o b = SubSeq(piped, 1, Len(piped))
    <3>1. /\ 1 \in 1 .. Len(piped) + 1 /\ n \in 1 - 1 .. Len(piped)
          /\ Len(piped) \in n .. Len(piped)
      BY <1>5
    <3> QED BY <1>4, <3>1, ConcatAdjacentSubSeq
  <2>2. a \in Seq(Pieces) /\ b \in Seq(Pieces)
    BY <1>4, <1>5
  <2>3. SubSeq(piped, 1, Len(piped)) = piped
    BY <1>4, SubSeqFull
  <2> HIDE DEF a, b
  <2>4. (stdio \o a) \o b = stdio \o (a \o b)
    <3>1. \A u, v, w \in Seq(Pieces) : (u \o v) \o w = u \o (v \o w)
      BY ConcatAssociative
    <3> QED BY <1>4, <2>2, <3>1, Zenon
  <2>5. stdio' = stdio \o a /\ piped' = b
    BY <1>1 DEF a, b
  <2> QED BY <2>1, <2>3, <2>4, <2>5, Zenon
<1>7. stdio' \in Seq(Pieces) /\ piped' \in Seq(Pieces)
  BY DEF SubInv
<1>8. TypeOK'
  BY <1>1, <1>2, <1>3, <1>7 DEF TypeOK, Pieces
<1>9. InputOK'
  BY <1>2, <1>6 DEF Progress, InputOK
<1>10. Counts' /\ CmdOK' /\ StartOK' /\ SentOK'
  BY <1>1, <1>2 DEF Progress, SubTypes, Counts, CmdOK, StartOK, SentOK, Busy
<1> QED BY <1>8, <1>9, <1>10 DEF Progress, SubTypes

\* What fgets returns is the next line of the script.
LEMMA NextLine ==
    ASSUME TypeOK, InputOK, fgets_returns
    PROVE  /\ read < Len(script) /\ cmd' = script[read + 1] /\ cmd' \in Chunks
           /\ Dispatch(cmd') /\ read' = read + 1 /\ InputOK'
           /\ UNCHANGED <<revents, kind, piped, ended, socket, script, sent, messages, printed>>
<1>1. PICK n \in LinesIn(stdio) : /\ \A m \in LinesIn(stdio) : n <= m
                                  /\ stdio' = SubSeq(stdio, n + 1, Len(stdio))
                                  /\ cmd' = stdio[n] /\ Dispatch(stdio[n])
  BY DEF fgets_returns
<1>2. /\ read' = read + 1
      /\ UNCHANGED <<revents, kind, piped, ended, socket, script, sent, messages, printed>>
  BY DEF fgets_returns
<1>3. /\ script \in Seq(Chunks) /\ read \in 0 .. Len(script) /\ Len(script) \in Nat
      /\ piped \in Seq(Pieces) /\ stdio \in Seq(Pieces) /\ stdio \o piped \in Seq(Pieces)
  BY InputTypes
<1> DEFINE s == stdio \o piped
<1>4. /\ n \in 1 .. Len(stdio) /\ stdio[n] # Piece /\ DOMAIN stdio = 1 .. Len(stdio)
      /\ Len(stdio) \in Nat /\ Len(piped) \in Nat
  BY <1>1, <1>3, LenProperties DEF LinesIn
<1>5. /\ Len(s) = Len(stdio) + Len(piped) /\ DOMAIN s = 1 .. Len(s)
      /\ \A i \in 1 .. Len(stdio) + Len(piped) :
           s[i] = IF i <= Len(stdio) THEN stdio[i] ELSE piped[i - Len(stdio)]
  BY <1>3, ConcatProperties, LenProperties
<1> HIDE DEF s
<1>6. s[n] = stdio[n] /\ n \in LinesIn(s)
  BY <1>4, <1>5 DEF LinesIn
<1>7. ASSUME NEW m \in LinesIn(s) PROVE n <= m
  <2>1. m \in 1 .. Len(stdio) + Len(piped) /\ s[m] # Piece
    BY <1>5 DEF LinesIn
  <2>2. CASE m <= Len(stdio)
    <3>1. m \in LinesIn(stdio)
      BY <1>4, <1>5, <2>1, <2>2 DEF LinesIn
    <3> QED BY <1>1, <3>1
  <2>3. CASE ~ (m <= Len(stdio))
    BY <1>4, <2>1, <2>3
  <2> QED BY <2>2, <2>3
<1>8. Carries(s, read, script)
  BY DEF InputOK, s
<1>9. /\ read < Len(script) /\ s[n] = script[read + 1]
      /\ Carries(SubSeq(s, n + 1, Len(s)), read + 1, script)
  <2>1. s \in Seq(Pieces)
    BY <1>3 DEF s
  <2> QED BY <1>3, <1>6, <1>7, <1>8, <2>1, LineTaken
<1>10. SubSeq(s, n + 1, Len(s)) = stdio' \o piped
  <2>1. n \in 0 .. Len(stdio)
    BY <1>4
  <2> QED BY <1>1, <1>3, <2>1, RestOfConcat DEF s
<1>11. InputOK'
  BY <1>2, <1>9, <1>10 DEF InputOK
<1>12. script[read + 1] \in Chunks
  BY <1>3, <1>9, ElementOfSeq
<1> QED BY <1>1, <1>2, <1>6, <1>9, <1>11, <1>12

\* The thread goes on with the line.
LEMMA ReturnsLine ==
    ASSUME Progress, fgets_returns, SubInv'
    PROVE  Progress'
<1>1. /\ read < Len(script) /\ cmd' = script[read + 1] /\ cmd' \in Chunks
      /\ Dispatch(cmd') /\ read' = read + 1 /\ InputOK'
      /\ UNCHANGED <<revents, kind, piped, ended, socket, script, sent, messages, printed>>
  BY NextLine DEF Progress, SubTypes
<1>2. UNCHANGED <<server, requests, unread, err>> /\ pc = "fgets"
  BY <1>1 DEF socket, fgets_returns, Now
<1>3. /\ script \in Seq(Chunks) /\ read \in 0 .. Len(script) /\ Len(script) \in Nat
      /\ Len(sent) \in Nat
  BY InputTypes DEF Progress, SubTypes
<1>4. /\ pc' \in {"process_subscribe_cmd", "process_unsubscribe_cmd", "free_client",
                  "process_ready_fds"}
      /\ pc' = "process_subscribe_cmd" => cmd'.name = "subscribe"
      /\ pc' = "process_unsubscribe_cmd" => cmd'.name = "unsubscribe"
  BY <1>1 DEF Dispatch, Goto
<1>5. stdio' \in Seq(Pieces)
  BY DEF SubInv
<1>6. TypeOK'
  BY <1>1, <1>2, <1>3, <1>4, <1>5 DEF Progress, SubTypes, TypeOK, Pieces, Places
<1>7. Counts' /\ StartOK'
  BY <1>1, <1>2, <1>4 DEF Progress, SubTypes, Counts, StartOK
<1>8. CmdOK'
  BY <1>1, <1>3, <1>4 DEF CmdOK, Busy
<1>9. SentOK'
  <2>1. ~ Busy
    BY <1>2 DEF Busy
  <2>2. Len(sent) <= read + 1
    BY <2>1 DEF Progress, SentOK
  <2>3. Len(sent') <= read'
    BY <1>1, <2>2
  <2> QED BY <1>1, <1>3, <2>2, <2>3 DEF SentOK
<1> QED BY <1>1, <1>6, <1>7, <1>8, <1>9 DEF Progress, SubTypes

\* A command sends one request or none.
LEMMA CommandKeeps ==
    ASSUME Progress, process_subscribe_cmd \/ process_unsubscribe_cmd
    PROVE  Progress'
<1>1. /\ Busy /\ read \in 1 .. Len(script) /\ cmd = script[read] /\ cmd \in Chunks
      /\ UNCHANGED <<revents, cmd, input, server, unread, script, read, messages, printed>>
      /\ Handled(cmd)
  BY CommandHandled DEF Progress, SubTypes
<1>2. UNCHANGED <<kind, piped, stdio, ended>>
  BY <1>1 DEF input
<1>3. TypeOK /\ sent \in Seq(Requests) /\ requests \in Seq(Requests) /\ Len(sent) <= read
      /\ Len(sent) \in Nat /\ Len(requests) \in Nat
  BY <1>1, InputTypes DEF Progress, SubTypes, SentOK
<1>4. /\ sent' \in Seq(Requests) /\ Len(sent') \in Nat /\ Len(sent') <= read + 1
      /\ requests' \in Seq(Requests) /\ Len(requests') <= RequestBuf
      /\ sent # << >> => sent' # << >>
  <2>1. CASE UNCHANGED <<requests, sent>>
    BY <1>1, <1>3, <2>1 DEF TypeOK
  <2>2. CASE /\ Request(cmd) \in Requests /\ Len(requests) < RequestBuf
             /\ requests' = Append(requests, Request(cmd))
             /\ sent' = Append(sent, Request(cmd))
    <3> DEFINE m == Request(cmd)
    <3> HIDE DEF m
    <3>1. /\ sent' \in Seq(Requests) /\ Len(sent') = Len(sent) + 1
          /\ requests' \in Seq(Requests) /\ Len(requests') = Len(requests) + 1
      BY <1>3, <2>2, AppendProperties DEF m
    <3>2. sent' # << >>
      BY <1>3, <3>1, EmptySeq
    <3> QED BY <1>1, <1>3, <2>2, <3>1, <3>2, BoundsAssumption
  <2> QED BY <1>1, <2>1, <2>2 DEF Handled
<1>5. /\ pc' \in {"wait_for_ready_fds", "killed"} /\ err' \in {"none", "reset", "pipe"}
  BY <1>1, <1>3 DEF Handled, TypeOK
<1>6. TypeOK'
  BY <1>1, <1>2, <1>3, <1>4, <1>5 DEF TypeOK, Places
<1>7. Counts' /\ InputOK' /\ CmdOK' /\ SentOK'
  BY <1>1, <1>2, <1>4, <1>5 DEF Progress, SubTypes, Counts, InputOK, CmdOK, SentOK, Busy
<1>8. StartOK'
  BY <1>1, <1>2, <1>4, <1>5 DEF Progress, StartOK, Busy
<1> QED BY <1>6, <1>7, <1>8 DEF Progress, SubTypes

\* A message is printed, or the loop ends.
LEMMA SocketKeeps ==
    ASSUME Progress, process_ready_fds
    PROVE  Progress'
<1>1. /\ UNCHANGED <<revents, cmd, input, server, requests, err, script, read, sent, messages>>
      /\ pc = "process_ready_fds" /\ pc' \in {"wait_for_ready_fds", "free_client"}
      /\ \/ UNCHANGED <<unread, printed>>
         \/ unread > 0 /\ unread' = unread - 1 /\ printed' = printed + 1
  BY DEF process_ready_fds, Now, Goto
<1>2. UNCHANGED <<kind, piped, stdio, ended>>
  BY <1>1 DEF input
<1>3. /\ unread \in 0 .. SockBuf /\ printed \in 0 .. messages /\ messages \in 0 .. MaxMessages
      /\ messages = printed + unread
  BY DEF Progress, SubTypes, TypeOK, Counts
<1>4. /\ unread' \in 0 .. SockBuf /\ printed' \in 0 .. messages
      /\ messages = printed' + unread'
  BY <1>1, <1>3, BoundsAssumption
<1>5. TypeOK'
  BY <1>1, <1>2, <1>4 DEF Progress, SubTypes, TypeOK, Places
<1>6. Counts' /\ InputOK' /\ CmdOK' /\ SentOK'
  BY <1>1, <1>2, <1>4 DEF Progress, SubTypes, Counts, InputOK, CmdOK, SentOK, Busy
<1>7. StartOK'
  BY <1>1, <1>2, <1>3, <1>4 DEF Progress, StartOK
<1> QED BY <1>5, <1>6, <1>7 DEF Progress, SubTypes

\* Whoever types adds to the input and the script alike.
LEMMA TypingProgress ==
    ASSUME Progress, Typed \/ TypePiece \/ EndInput
    PROVE  Progress'
<1>0. (\E line \in Seq(Chunks) : TypeLine(line)) \/ TypePiece \/ EndInput
  BY TypedChunks
<1>1. UNCHANGED <<process, kind, stdio, socket, read, sent, messages, printed>>
  BY <1>0 DEF TypeLine, TypePiece, EndInput, history
<1>2. UNCHANGED <<pc, revents, cmd, server, requests, unread, err>>
  BY <1>1 DEF process, socket
<1>3. /\ script \in Seq(Chunks) /\ read \in 0 .. Len(script) /\ Len(script) \in Nat
      /\ piped \in Seq(Pieces) /\ stdio \in Seq(Pieces) /\ stdio \o piped \in Seq(Pieces)
  BY InputTypes DEF Progress, SubTypes
<1>4. ASSUME /\ script' \in Seq(Chunks) /\ Len(script') \in Nat /\ Len(script') <= MaxLines
             /\ read \in 0 .. Len(script') /\ piped' \in Seq(Pieces) /\ ended' \in BOOLEAN
             /\ InputOK'
             /\ \A n \in 1 .. Len(script) : script'[n] = script[n]
      PROVE  Progress'
  <2>1. TypeOK'
    BY <1>1, <1>2, <1>4 DEF Progress, SubTypes, TypeOK, Pieces
  <2>2. Counts' /\ StartOK' /\ SentOK'
    BY <1>1, <1>2, <1>4 DEF Progress, SubTypes, Counts, StartOK, SentOK, Busy
  <2>3. CmdOK'
    BY <1>1, <1>2, <1>3, <1>4 DEF Progress, CmdOK, Busy
  <2> QED BY <1>4, <2>1, <2>2, <2>3 DEF Progress, SubTypes
<1>5. CASE \E line \in Seq(Chunks) : TypeLine(line)
  <2>1. PICK line \in Seq(Chunks) : TypeLine(line)
    BY <1>5
  <2>2. /\ piped' = piped \o line /\ script' = script \o line
        /\ Len(script) + Len(line) <= MaxLines /\ UNCHANGED ended
    BY <2>1 DEF TypeLine
  <2>3. line \in Seq(Pieces) /\ Len(line) \in Nat
    BY SeqMonotonic, LenProperties, Chunks \subseteq Pieces DEF Pieces
  <2>4. /\ script' \in Seq(Chunks) /\ Len(script') = Len(script) + Len(line)
        /\ \A n \in 1 .. Len(script) : script'[n] = script[n]
    <3>1. /\ script' \in Seq(Chunks) /\ Len(script') = Len(script) + Len(line)
          /\ \A n \in 1 .. Len(script) + Len(line) :
                script'[n] = IF n <= Len(script) THEN script[n] ELSE line[n - Len(script)]
      BY <1>3, <2>2, ConcatProperties
    <3>2. \A n \in 1 .. Len(script) : n \in 1 .. Len(script) + Len(line) /\ n <= Len(script)
      BY <1>3, <2>3
    <3> QED BY <3>1, <3>2
  <2>5. piped' \in Seq(Pieces) /\ stdio \o piped' = (stdio \o piped) \o line
    <3>1. piped \o line \in Seq(Pieces)
      BY <1>3, <2>3, ConcatProperties
    <3>2. (stdio \o piped) \o line = stdio \o (piped \o line)
      BY <1>3, <2>3, ConcatAssociative
    <3> QED BY <2>2, <3>1, <3>2, Zenon
  <2>6. Carries((stdio \o piped) \o line, read, script \o line)
    <3> DEFINE s == stdio \o piped
    <3>1. Carries(s, read, script) /\ s \in Seq(Pieces)
      BY <1>3 DEF Progress, InputOK
    <3> HIDE DEF s
    <3>2. Carries(s \o line, read, script \o line)
      BY <1>3, <3>1, LinesAdded
    <3> QED BY <3>2 DEF s
  <2>7. InputOK'
    BY <1>1, <2>2, <2>5, <2>6 DEF InputOK
  <2>8. ended' \in BOOLEAN
    BY <2>2 DEF Progress, SubTypes, TypeOK
  <2>9. Len(script') <= MaxLines /\ Len(script') \in Nat /\ read \in 0 .. Len(script')
    BY <1>3, <2>2, <2>3, <2>4, BoundsAssumption
  <2> QED BY <1>4, <2>4, <2>5, <2>7, <2>8, <2>9
<1>6. CASE TypePiece
  <2>1. piped' = Append(piped, Piece) /\ UNCHANGED <<script, ended>> /\ Piece \in Pieces
    BY <1>6 DEF TypePiece, history, Pieces
  <2>2. piped' \in Seq(Pieces)
    BY <1>3, <2>1, AppendProperties
  <2>3. stdio \o piped' = Append(stdio \o piped, Piece)
    BY <1>3, <2>1, AppendToConcat
  <2>4. Carries(Append(stdio \o piped, Piece), read, script)
    <3> DEFINE s == stdio \o piped
    <3>1. Carries(s, read, script) /\ s \in Seq(Pieces)
      BY <1>3 DEF Progress, InputOK
    <3> HIDE DEF s
    <3>2. Carries(Append(s, Piece), read, script)
      BY <1>3, <3>1, PieceAdded
    <3> QED BY <3>2 DEF s
  <2>5. InputOK'
    BY <1>1, <2>1, <2>3, <2>4 DEF InputOK
  <2>6. ended' \in BOOLEAN /\ Len(script') <= MaxLines
    BY <2>1 DEF Progress, SubTypes, TypeOK, Counts
  <2> QED BY <1>3, <1>4, <2>1, <2>2, <2>5, <2>6
<1>7. CASE EndInput
  <2>1. UNCHANGED <<piped, script>> /\ ended' = TRUE
    BY <1>7 DEF EndInput, history
  <2>2. InputOK' /\ Len(script') <= MaxLines
    BY <1>1, <2>1 DEF Progress, SubTypes, InputOK, Counts
  <2> QED BY <1>3, <1>4, <2>1, <2>2
<1> QED BY <1>0, <1>5, <1>6, <1>7

\* The server takes requests, sends messages and goes away.
LEMMA ServerSideProgress ==
    ASSUME Progress, ServerAccepts \/ ServerReads \/ ServerSends \/ ServerCloses
    PROVE  Progress'
<1>1. UNCHANGED <<process, input, script, read, sent, printed>>
  BY DEF ServerAccepts, ServerReads, ServerSends, ServerCloses, history
<1>2. UNCHANGED <<pc, revents, cmd, kind, piped, stdio, ended, script, read, sent, printed>>
  BY <1>1 DEF process, input
<1>3. /\ \/ requests' = requests
         \/ requests # << >> /\ requests' = Tail(requests) /\ server = "accepted"
      /\ \/ UNCHANGED <<unread, messages>>
         \/ /\ server = "accepted" /\ messages < MaxMessages /\ unread < SockBuf
            /\ unread' = unread + 1 /\ messages' = messages + 1 /\ server' = server
      /\ server' \in {server, "accepted", "closed", "reset", "down"}
      /\ server' = "down" => server \in {"down", "listening"}
      /\ server \in {"down", "listening"} => server' \in {"down", "listening"}
      /\ err' \in {err, "reset"}
  BY DEF ServerAccepts, ServerReads, ServerSends, ServerCloses, history
<1>4. TypeOK /\ requests \in Seq(Requests) /\ Len(requests) \in Nat
  BY InputTypes DEF Progress, SubTypes
<1>5. /\ requests' \in Seq(Requests) /\ Len(requests') <= RequestBuf
      /\ requests = << >> => requests' = << >>
  <2>1. Len(requests) <= RequestBuf /\ RequestBuf \in Nat
    BY <1>4, BoundsAssumption DEF TypeOK
  <2>2. CASE requests' = requests
    BY <1>4, <2>1, <2>2
  <2>3. CASE requests # << >> /\ requests' = Tail(requests)
    <3>1. requests' \in Seq(Requests) /\ Len(requests') = Len(requests) - 1
      BY <1>4, <2>3, HeadTailProperties
    <3> QED BY <1>4, <2>1, <2>3, <3>1
  <2> QED BY <1>3, <2>2, <2>3
<1>6. /\ unread' \in 0 .. SockBuf /\ messages' \in 0 .. MaxMessages
      /\ printed \in 0 .. messages' /\ messages' = printed + unread'
  <2>1. /\ unread \in 0 .. SockBuf /\ messages \in 0 .. MaxMessages
        /\ printed \in 0 .. messages /\ messages = printed + unread
    BY <1>4 DEF TypeOK, Progress, SubTypes, Counts
  <2> QED BY <1>3, <2>1, BoundsAssumption
<1>7. TypeOK'
  <2>1. /\ server' \in {"down", "listening", "backlog", "accepted", "closed", "reset"}
        /\ err' \in {"none", "reset", "pipe"}
    BY <1>3, <1>4 DEF TypeOK
  <2> QED BY <1>2, <1>4, <1>5, <1>6, <2>1 DEF TypeOK
<1>8. Counts' /\ InputOK' /\ CmdOK' /\ SentOK'
  BY <1>2, <1>6 DEF Progress, SubTypes, Counts, InputOK, CmdOK, SentOK, Busy
<1>9. StartOK'
  BY <1>2, <1>3, <1>5 DEF Progress, StartOK
<1> QED BY <1>7, <1>8, <1>9 DEF Progress, SubTypes

\* A subscriber starts with the whole input before it.
LEMMA InitProgress == Init => Progress
<1> SUFFICES ASSUME Init PROVE Progress
  OBVIOUS
<1>1. /\ pc = "init_client" /\ revents = {} /\ cmd = NoLine /\ kind \in Stdins
      /\ piped = script /\ stdio = << >> /\ server \in {"down", "listening"}
      /\ requests = << >> /\ unread = 0 /\ err = "none"
      /\ read = 0 /\ sent = << >> /\ messages = 0 /\ printed = 0
      /\ ended \in BOOLEAN
  BY DEF Init
<1>2. script \in Seq(Chunks) /\ Len(script) <= MaxLines /\ Len(script) \in Nat
  <2>1. CASE script = << >>
    <3>1. script \in Seq(Chunks) /\ Len(script) = 0
      BY <2>1, EmptySeq
    <3> QED BY <3>1, BoundsAssumption
  <2>2. CASE script \in SeqOf(Chunks, MaxLines)
    <3>1. PICK m \in 0 .. MaxLines : script \in [1 .. m -> Chunks]
      BY <2>2 DEF SeqOf
    <3>2. m \in Nat /\ MaxLines \in Nat
      BY BoundsAssumption
    <3>3. script \in Seq(Chunks)
      BY <3>1, <3>2, SeqDef
    <3>4. Len(script) = m
      <4>1. DOMAIN script = 1 .. m /\ DOMAIN script = 1 .. Len(script) /\ Len(script) \in Nat
        BY <3>1, <3>3, LenProperties
      <4> QED BY <3>2, <4>1
    <3> QED BY <3>2, <3>3, <3>4
  <2> QED BY <2>1, <2>2 DEF Init
<1>3. << >> \in Seq(Requests) /\ Len(<< >>) = 0 /\ << >> \in Seq(Pieces)
  BY EmptySeq
<1>4. script \in Seq(Pieces)
  <2>1. Chunks \subseteq Pieces
    BY DEF Pieces
  <2> QED BY <1>2, <2>1, SeqMonotonic
<1>5. TypeOK
  BY <1>1, <1>2, <1>3, <1>4, BoundsAssumption DEF TypeOK, Places, Pieces
<1>6. Counts /\ CmdOK /\ StartOK /\ SentOK
  BY <1>1, <1>2, <1>3 DEF Counts, CmdOK, StartOK, SentOK, Busy
<1>7. Carries(script, 0, script)
  <2> DEFINE f == [i \in 0 + 1 .. Len(script) |-> i]
  <2>1. f \in [0 + 1 .. Len(script) -> 1 .. Len(script)]
    BY <1>2
  <2>2. \A i \in 0 + 1 .. Len(script) : f[i] = i
    OBVIOUS
  <2> HIDE DEF f
  <2>3. \A n \in LinesIn(script) : n \in 0 + 1 .. Len(script)
    BY <1>2, LenProperties DEF LinesIn
  <2> QED BY <2>1, <2>2, <2>3 DEF Carries
<1>8. InputOK
  <2>1. stdio \o piped = script
    BY <1>1, <1>4, ConcatEmptySeq
  <2> QED BY <1>1, <1>7, <2>1 DEF InputOK
<1> QED BY <1>5, <1>6, <1>8 DEF Progress, SubTypes

\* Every step of the thread, of whoever types and of the server keeps the invariant.
LEMMA ProgressStep ==
    ASSUME SubInv', Progress, [Next]_vars
    PROVE  Progress'
<1>1. CASE UNCHANGED vars
  <2>1. UNCHANGED <<pc, revents, cmd, kind, piped, stdio, ended, server, requests, unread,
                    err, script, read, sent, messages, printed>>
    BY <1>1 DEF vars, process, input, socket, history
  <2>2. TypeOK' /\ Counts' /\ InputOK' /\ CmdOK' /\ StartOK' /\ SentOK'
    BY <2>1 DEF Progress, SubTypes, TypeOK, Counts, InputOK, CmdOK, StartOK, SentOK, Busy
  <2> QED BY <2>2 DEF Progress, SubTypes
<1>2. CASE SubscriberStep
  BY <1>2, QuietSteps, ConnectKeeps, SendIdKeeps, ReadAheadKeeps, ReturnsLine, CommandKeeps,
     SocketKeeps DEF SubscriberStep
<1> QED BY <1>1, <1>2, TypingProgress, ServerSideProgress DEF Next, Typed

\* So it holds throughout.
LEMMA AlwaysProgress == Spec => [](SubInv /\ Progress)
<1>1. (SubInv /\ Progress) /\ [Next]_vars /\ SubInv' => (SubInv /\ Progress)'
  BY ProgressStep
<1> QED BY <1>1, InitProgress, InitSubInv, AlwaysSubInv, PTL DEF Spec

\* The variables of the subscriber have their types: the lines read are never more than the
\* lines typed, the messages printed never more than those sent, and the buffers of the
\* connection keep their sizes (subscriber_utils.c: process_ready_fds, get_cmd_line).
THEOREM SubscriberTypes == Spec => []TypeOK
<1>1. Progress => TypeOK
  BY DEF Progress, SubTypes
<1> QED BY <1>1, AlwaysProgress, PTL

-----------------------------------------------------------------------------
(* What the server is asked. *)

\* The lines the thread is done with, and the requests of the first k lines.
Taken == IF Busy THEN read - 1 ELSE read

AskedFor(lines, k) == <<IdMsg>> \o RequestsOf(SubSeq(lines, 1, k))

\* What a line is sent as is one request, or none, for any line.
LEMMA RequestOfTypes ==
    ASSUME NEW line \in Chunks
    PROVE  RequestOf(line) \in Seq(Requests)
<1>1. CASE IsRequest(line)
  <2>1. line.name \in {"subscribe", "unsubscribe"} /\ line.topic # "none"
    BY <1>1 DEF IsRequest
  <2>2. Request(line) \in Requests /\ RequestOf(line) = <<Request(line)>>
    BY <2>1, RequestTypes
  <2> QED BY <2>2
<1>2. CASE ~ IsRequest(line)
  BY <1>2, EmptySeq DEF RequestOf
<1> QED BY <1>1, <1>2

\* The requests of some lines, one sequence for each line.
Pieced(lines) == [n \in DOMAIN lines |-> RequestOf(lines[n])]

\* Laid end to end they are the requests of the lines.
LEMMA RequestsOfTypes ==
    ASSUME NEW s \in Seq(Chunks)
    PROVE  /\ Pieced(s) \in Seq(Seq(Requests)) /\ Len(Pieced(s)) = Len(s)
           /\ RequestsOf(s) = FlattenSeq(Pieced(s)) /\ RequestsOf(s) \in Seq(Requests)
<1>1. Len(s) \in Nat /\ DOMAIN s = 1 .. Len(s)
  BY LenProperties
<1>2. \A n \in 1 .. Len(s) : RequestOf(s[n]) \in Seq(Requests)
  BY RequestOfTypes, ElementOfSeq
<1>3. Pieced(s) \in [1 .. Len(s) -> Seq(Requests)]
  BY <1>1, <1>2 DEF Pieced
<1>4. Pieced(s) \in Seq(Seq(Requests))
  BY <1>1, <1>3, SeqDef
<1>5. Len(Pieced(s)) = Len(s)
  <2> DEFINE l == Len(Pieced(s))
             k == Len(s)
  <2>1. DOMAIN Pieced(s) = 1 .. l /\ l \in Nat
    BY <1>4, LenProperties
  <2>2. l \in Nat /\ k \in Nat /\ 1 .. l = 1 .. k
    BY <1>1, <1>3, <2>1
  <2> HIDE DEF l, k
  <2>3. l = k
    BY <2>2
  <2> QED BY <2>3 DEF l, k
<1>6. RequestsOf(s) = FlattenSeq(Pieced(s))
  BY DEF RequestsOf, Pieced
<1>7. FlattenSeq(Pieced(s)) \in Seq(Requests)
  <2>1. << >> \in Seq(Requests)
    BY EmptySeq
  <2> QED BY <1>4, <2>1, FlattenAppend
<1> QED BY <1>4, <1>5, <1>6, <1>7

\* One more line is one more request, or none.
LEMMA RequestsOfAppend ==
    ASSUME NEW s \in Seq(Chunks), NEW line \in Chunks
    PROVE  RequestsOf(Append(s, line)) = RequestsOf(s) \o RequestOf(line)
<1> DEFINE u == Append(s, line)
           p == Pieced(s)
           q == Pieced(u)
           e == RequestOf(line)
           v == Append(p, e)
<1>1. /\ Len(s) \in Nat /\ DOMAIN s = 1 .. Len(s) /\ DOMAIN u = 1 .. Len(s) + 1
      /\ u \in Seq(Chunks) /\ Len(u) = Len(s) + 1
      /\ \A n \in 1 .. Len(s) : u[n] = s[n]
      /\ u[Len(s) + 1] = line
  BY AppendProperties, LenProperties
<1> HIDE DEF u
<1>2. /\ p \in Seq(Seq(Requests)) /\ Len(p) = Len(s) /\ RequestsOf(s) = FlattenSeq(p)
  BY RequestsOfTypes
<1>3. /\ q \in Seq(Seq(Requests)) /\ Len(q) = Len(s) + 1 /\ RequestsOf(u) = FlattenSeq(q)
  BY <1>1, RequestsOfTypes
<1>4. /\ \A n \in 1 .. Len(s) : p[n] = RequestOf(s[n])
      /\ \A n \in 1 .. Len(s) + 1 : q[n] = RequestOf(u[n])
  BY <1>1 DEF Pieced
<1> HIDE DEF p, q
<1>5. e \in Seq(Requests)
  BY RequestOfTypes
<1>6. /\ v \in Seq(Seq(Requests)) /\ Len(v) = Len(s) + 1
      /\ \A n \in 1 .. Len(s) : v[n] = p[n]
      /\ v[Len(s) + 1] = e
  <2> HIDE DEF e
  <2> QED BY <1>2, <1>5, AppendProperties
<1> HIDE DEF v
<1>7. ASSUME NEW n \in 1 .. Len(q) PROVE q[n] = v[n]
  <2>1. n \in 1 .. Len(s) \/ n = Len(s) + 1
    BY <1>1, <1>3
  <2>2. CASE n \in 1 .. Len(s)
    <3>1. n \in 1 .. Len(s) + 1
      BY <1>1, <2>2
    <3> QED BY <1>1, <1>4, <1>6, <2>2, <3>1
  <2>3. CASE n = Len(s) + 1
    <3>1. n \in 1 .. Len(s) + 1
      BY <1>1, <2>3
    <3> QED BY <1>1, <1>4, <1>6, <2>3, <3>1
  <2> QED BY <2>1, <2>2, <2>3
<1>8. q = v
  BY <1>3, <1>6, <1>7, SeqEqual
<1>9. FlattenSeq(Append(p, e)) = FlattenSeq(p) \o e
  BY <1>2, <1>5, FlattenAppend
<1> QED BY <1>2, <1>3, <1>8, <1>9 DEF u, v, e

\* The first k lines are the same when more are typed, and one line further there is what
\* it is sent as.
LEMMA AskedProperties ==
    ASSUME NEW s \in Seq(Chunks), NEW k \in 0 .. Len(s)
    PROVE  /\ AskedFor(s, k) \in Seq(Requests) /\ AskedFor(s, 0) = <<IdMsg>>
           /\ \A line \in Seq(Chunks) : AskedFor(s \o line, k) = AskedFor(s, k)
           /\ k < Len(s) => /\ RequestOf(s[k + 1]) \in Seq(Requests)
                            /\ AskedFor(s, k + 1) = AskedFor(s, k) \o RequestOf(s[k + 1])
<1>1. Len(s) \in Nat /\ k \in Int /\ k <= Len(s) /\ 0 <= k
  BY LenProperties
<1> DEFINE f == SubSeq(s, 1, k)
<1>2. f \in Seq(Chunks)
  <2>1. \A i \in 1 .. k : s[i] \in Chunks
    BY <1>1, ElementOfSeq
  <2> QED BY <1>1, <2>1, SubSeqProperties
<1> HIDE DEF f
<1>3. RequestsOf(f) \in Seq(Requests)
  BY <1>2, RequestsOfTypes
<1>4. <<IdMsg>> \in Seq(Requests)
  BY DEF IdMsg, Requests
<1>5. AskedFor(s, k) \in Seq(Requests)
  BY <1>3, <1>4, ConcatProperties DEF AskedFor, f
<1>6. AskedFor(s, 0) = <<IdMsg>>
  <2>1. SubSeq(s, 1, 0) = << >>
    BY SubSeqEmpty
  <2>2. RequestsOf(<< >>) = << >>
    <3> DEFINE g == [n \in DOMAIN << >> |-> RequestOf(<< >>[n])]
    <3>1. g = << >>
      OBVIOUS
    <3> HIDE DEF g
    <3>2. FlattenSeq(g) = << >>
      BY <3>1, EmptySeq DEF FlattenSeq
    <3> QED BY <3>2 DEF RequestsOf, g
  <2> QED BY <1>4, <2>1, <2>2, ConcatEmptySeq DEF AskedFor
<1>7. ASSUME NEW line \in Seq(Chunks) PROVE SubSeq(s \o line, 1, k) = f
  BY FrontOfConcat DEF f
<1>8. ASSUME k < Len(s)
      PROVE  /\ RequestOf(s[k + 1]) \in Seq(Requests)
             /\ AskedFor(s, k + 1) = AskedFor(s, k) \o RequestOf(s[k + 1])
  <2> DEFINE e == s[k + 1]
  <2>1. e \in Chunks
    BY <1>1, <1>8, ElementOfSeq
  <2>2. SubSeq(s, 1, k + 1) = f \o <<e>>
    <3>1. 1 \in 1 .. Len(s) /\ k + 1 \in 1 .. Len(s) /\ (k + 1) - 1 = k
      BY <1>1, <1>8
    <3> QED BY <3>1, SubSeqRecursiveSecond DEF f
  <2> HIDE DEF e
  <2>3. f \o <<e>> = Append(f, e)
    BY <1>2, <2>1, AppendIsConcat
  <2>4. /\ RequestsOf(f) \in Seq(Requests) /\ RequestOf(e) \in Seq(Requests)
        /\ RequestsOf(Append(f, e)) = RequestsOf(f) \o RequestOf(e)
    BY <1>2, <1>3, <2>1, RequestOfTypes, RequestsOfAppend
  <2>5. (<<IdMsg>> \o RequestsOf(f)) \o RequestOf(e)
            = <<IdMsg>> \o (RequestsOf(f) \o RequestOf(e))
    BY <1>4, <2>4, ConcatAssociative
  <2> QED BY <2>2, <2>3, <2>4, <2>5 DEF AskedFor, f, e
<1> QED BY <1>5, <1>6, <1>7, <1>8 DEF AskedFor, f

\* The property in these terms.
LEMMA AskedIs ==
    AsksWhatWasTyped <=> IF server \in {"closed", "reset"}
                         THEN IsPrefix(sent, AskedFor(script, Taken))
                         ELSE sent # << >> => sent = AskedFor(script, Taken)
BY DEF AsksWhatWasTyped, AskedFor, Taken, Busy

\* It is kept where nothing is sent and no line is handled, and the script only grows.
LEMMA NothingAsked ==
    ASSUME Progress, AsksWhatWasTyped, sent' = sent, Taken' = Taken,
           script' = script \/ \E line \in Seq(Chunks) : script' = script \o line,
           server \in {"closed", "reset"} => server' \in {"closed", "reset"}
    PROVE  AsksWhatWasTyped'
<1>1. script \in Seq(Chunks) /\ Taken \in 0 .. Len(script) /\ sent \in Seq(Requests)
  <2>1. /\ script \in Seq(Chunks) /\ read \in 0 .. Len(script) /\ Len(script) \in Nat
        /\ sent \in Seq(Requests)
    BY InputTypes DEF Progress, SubTypes
  <2>2. Busy => read > 0
    BY DEF Progress, CmdOK
  <2> QED BY <2>1, <2>2 DEF Taken
<1> DEFINE asked == AskedFor(script, Taken)
<1>2. asked \in Seq(Requests)
  BY <1>1, AskedProperties
<1>3. AskedFor(script', Taken') = asked
  BY <1>1, AskedProperties
<1>4. IF server \in {"closed", "reset"} THEN IsPrefix(sent, asked) ELSE sent # << >> => sent = asked
  BY AskedIs
<1> HIDE DEF asked
<1>5. IsPrefix(asked, asked) /\ IsPrefix(<< >>, asked)
  BY <1>2, PrefixOfConcat
<1>6. IF server' \in {"closed", "reset"} THEN IsPrefix(sent, asked)
                                       ELSE sent # << >> => sent = asked
  BY <1>4, <1>5
<1>7. IF server' \in {"closed", "reset"} THEN IsPrefix(sent', AskedFor(script', Taken'))
      ELSE sent' # << >> => sent' = AskedFor(script', Taken')
  BY <1>3, <1>6
<1> QED BY <1>7 DEF AsksWhatWasTyped, AskedFor, Taken, Busy

\* The ID is sent before any line.
LEMMA SendIdAsked ==
    ASSUME Progress, send_id, AsksWhatWasTyped
    PROVE  AsksWhatWasTyped'
<1>1. /\ pc = "send_id" /\ sent = << >> /\ read = 0
      /\ pc' \in {"init_poll_vec", "failed"}
      /\ UNCHANGED <<server, script, read>>
      /\ sent' = Append(sent, IdMsg) \/ sent' = sent
  BY DEF send_id, Now, Goto, Progress, StartOK
<1>2. ~ Busy /\ ~ Busy' /\ Taken = 0 /\ Taken' = 0
  BY <1>1 DEF Busy, Taken
<1>3. CASE sent' = sent
  BY <1>1, <1>2, <1>3, NothingAsked
<1>4. CASE sent' = Append(sent, IdMsg)
  <2>1. sent' = <<IdMsg>>
    BY <1>1, <1>4
  <2>2. script \in Seq(Chunks) /\ 0 \in 0 .. Len(script)
    BY InputTypes DEF Progress, SubTypes
  <2>3. AskedFor(script', Taken') = <<IdMsg>>
    BY <1>1, <1>2, <2>2, AskedProperties
  <2>4. <<IdMsg>> \in Seq(Requests)
    BY DEF IdMsg, Requests
  <2>5. IsPrefix(<<IdMsg>>, <<IdMsg>>)
    BY <2>4, PrefixOfConcat
  <2>6. IF server' \in {"closed", "reset"} THEN IsPrefix(sent', AskedFor(script', Taken'))
        ELSE sent' # << >> => sent' = AskedFor(script', Taken')
    BY <2>1, <2>3, <2>5
  <2> QED BY <2>6 DEF AsksWhatWasTyped, AskedFor, Taken, Busy
<1> QED BY <1>1, <1>3, <1>4

\* A line that is no command asks for nothing, and one that is goes to its handler.
LEMMA LineAsked ==
    ASSUME Progress, fgets_returns, AsksWhatWasTyped
    PROVE  AsksWhatWasTyped'
<1>1. /\ read < Len(script) /\ cmd' = script[read + 1] /\ cmd' \in Chunks
      /\ Dispatch(cmd') /\ read' = read + 1
      /\ UNCHANGED <<server, script, sent>>
  BY NextLine DEF Progress, SubTypes, socket
<1>2. script \in Seq(Chunks) /\ read \in 0 .. Len(script) /\ Len(script) \in Nat
  BY InputTypes DEF Progress, SubTypes
<1>3. ~ Busy /\ Taken = read
  BY DEF fgets_returns, Now, Busy, Taken
<1>4. CASE Busy'
  <2>1. Taken' = Taken
    BY <1>1, <1>2, <1>3, <1>4 DEF Taken
  <2> QED BY <1>1, <2>1, NothingAsked
<1>5. CASE ~ Busy'
  <2>1. cmd'.name \notin {"subscribe", "unsubscribe"}
    BY <1>1, <1>5 DEF Dispatch, Goto, Busy
  <2>2. RequestOf(cmd') = << >>
    BY <2>1 DEF RequestOf, IsRequest
  <2>3. Taken' = read + 1 /\ read \in 0 .. Len(script)
    BY <1>1, <1>2, <1>5 DEF Taken
  <2>4. /\ AskedFor(script, read) \in Seq(Requests)
        /\ AskedFor(script, read + 1) = AskedFor(script, read) \o RequestOf(script[read + 1])
    BY <1>1, <1>2, AskedProperties
  <2>5. AskedFor(script', Taken') = AskedFor(script, Taken)
    BY <1>1, <1>3, <2>2, <2>3, <2>4, ConcatEmptySeq
  <2>6. IF server' \in {"closed", "reset"} THEN IsPrefix(sent', AskedFor(script', Taken'))
        ELSE sent' # << >> => sent' = AskedFor(script', Taken')
    BY <1>1, <2>5, AskedIs
  <2> QED BY <2>6 DEF AsksWhatWasTyped, AskedFor, Taken, Busy
<1> QED BY <1>4, <1>5

\* A command asks for what was typed, once.
LEMMA CommandAsked ==
    ASSUME Progress, process_subscribe_cmd \/ process_unsubscribe_cmd, AsksWhatWasTyped
    PROVE  AsksWhatWasTyped'
<1>1. /\ Busy /\ read \in 1 .. Len(script) /\ cmd = script[read] /\ cmd \in Chunks
      /\ UNCHANGED <<server, script, read>>
      /\ Handled(cmd)
  BY CommandHandled DEF Progress, SubTypes
<1>2. script \in Seq(Chunks) /\ sent \in Seq(Requests) /\ Len(script) \in Nat
  BY InputTypes DEF Progress, SubTypes
<1>3. pc' \in {"wait_for_ready_fds", "killed"}
  BY <1>1 DEF Handled
<1>4. Taken = read - 1 /\ Taken' = read /\ read - 1 \in 0 .. Len(script) /\ (read - 1) + 1 = read
  BY <1>1, <1>2, <1>3 DEF Taken, Busy
<1> DEFINE asked == AskedFor(script, read - 1)
           more  == AskedFor(script, read)
           reqs  == RequestOf(cmd)
<1>5. /\ asked \in Seq(Requests) /\ reqs \in Seq(Requests) /\ more = asked \o reqs
  <2>1. read - 1 < Len(script)
    BY <1>1, <1>2
  <2> QED BY <1>1, <1>2, <1>4, <2>1, AskedProperties
<1>6. IF server \in {"closed", "reset"} THEN IsPrefix(sent, asked) ELSE sent # << >> => sent = asked
  BY <1>4, AskedIs
<1>7. sent # << >>
  BY <1>1 DEF Progress, StartOK, Busy
<1>8. Handled(cmd)
  BY <1>1
<1> HIDE DEF asked, more, reqs
<1>9. /\ IsPrefix(asked, asked \o reqs)
      /\ IsPrefix(sent, asked) => IsPrefix(sent, asked \o reqs)
  BY <1>2, <1>5, PrefixOfConcat
<1>10. IF server \in {"closed", "reset"} THEN IsPrefix(sent', more) ELSE sent' = more
  <2>1. CASE reqs = << >> /\ sent' = sent
    <3>1. more = asked
      BY <1>5, <2>1, ConcatEmptySeq
    <3> QED BY <1>6, <1>7, <2>1, <3>1
  <2>2. CASE /\ reqs = <<Request(cmd)>> /\ Request(cmd) \in Requests
             /\ server \in {"backlog", "accepted"}
             /\ sent' = Append(sent, Request(cmd))
    <3>1. sent = asked
      BY <1>6, <1>7, <2>2
    <3>2. sent' = asked \o reqs
      BY <1>2, <2>2, <3>1, AppendIsConcat
    <3> QED BY <1>5, <2>2, <3>2
  <2>3. CASE server \in {"closed", "reset"} /\ sent' = sent
    BY <1>5, <1>6, <1>9, <2>3
  <2> QED BY <1>8, <2>1, <2>2, <2>3 DEF Handled, reqs
<1>11. IF server' \in {"closed", "reset"} THEN IsPrefix(sent', AskedFor(script', Taken'))
       ELSE sent' # << >> => sent' = AskedFor(script', Taken')
  BY <1>1, <1>4, <1>10 DEF more
<1> QED BY <1>11 DEF AsksWhatWasTyped, AskedFor, Taken, Busy

\* No other step sends anything.
LEMMA OthersAsked ==
    ASSUME Progress, AsksWhatWasTyped, [Next]_vars,
           ~ send_id, ~ fgets_returns, ~ process_subscribe_cmd, ~ process_unsubscribe_cmd
    PROVE  AsksWhatWasTyped'
<1>1. CASE UNCHANGED vars
  <2>1. UNCHANGED <<pc, server, script, read, sent>>
    BY <1>1 DEF vars, process, socket, history
  <2> QED BY <2>1, NothingAsked DEF Taken, Busy
<1>2. CASE SubscriberStep
  <2>1. /\ UNCHANGED <<script, read, sent>> /\ ~ Busy /\ ~ Busy'
        /\ server' = server \/ (server' = "backlog" /\ server = "listening")
    <3>1. CASE \/ init_client_fails \/ init_client_poll_vec \/ wait_for_ready_fds
               \/ poll_fails \/ get_cmd_line \/ fgets_ends \/ free_client
      <4>1. /\ UNCHANGED <<socket, history>>
            /\ pc \in {"init_client", "init_poll_vec", "wait_for_ready_fds", "get_cmd_line",
                       "fgets", "free_client"}
            /\ pc' \in {"failed", "wait_for_ready_fds", "get_cmd_line", "free_client", "fgets",
                        "process_ready_fds", "exited"}
        BY <3>1 DEF init_client_fails, init_client_poll_vec, wait_for_ready_fds, poll_fails,
           get_cmd_line, fgets_ends, free_client, Now, Goto
      <4> QED BY <4>1 DEF socket, history, Busy
    <3>2. CASE connect
      BY <3>2 DEF connect, Now, Goto, history, Busy
    <3>3. CASE fgets_reads
      BY <3>3 DEF fgets_reads, Now, process, socket, history, Busy
    <3>4. CASE process_ready_fds
      BY <3>4 DEF process_ready_fds, Now, Goto, Busy
    <3> QED BY <1>2, <3>1, <3>2, <3>3, <3>4 DEF SubscriberStep
  <2> QED BY <2>1, NothingAsked DEF Taken
<1>3. CASE Typed
  <2>1. PICK line \in Seq(Chunks) : TypeLine(line)
    BY <1>3, TypedChunks
  <2>2. UNCHANGED <<pc, server, read, sent>> /\ script' = script \o line
    BY <2>1 DEF TypeLine, process, socket
  <2> QED BY <2>2, NothingAsked DEF Taken, Busy
<1>4. CASE TypePiece \/ EndInput
  <2>1. UNCHANGED <<pc, server, script, read, sent>>
    BY <1>4 DEF TypePiece, EndInput, process, socket, history
  <2> QED BY <2>1, NothingAsked DEF Taken, Busy
<1>5. CASE ServerAccepts \/ ServerReads \/ ServerSends \/ ServerCloses
  <2>1. UNCHANGED <<pc, script, read, sent>>
    BY <1>5 DEF ServerAccepts, ServerReads, ServerSends, ServerCloses, process, history
  <2>2. server \in {"closed", "reset"} => server' \in {"closed", "reset"}
    BY <1>5 DEF ServerAccepts, ServerReads, ServerSends, ServerCloses
  <2> QED BY <2>1, <2>2, NothingAsked DEF Taken, Busy
<1> QED BY <1>1, <1>2, <1>3, <1>4, <1>5 DEF Next, Typed

\* What the server is asked are the ID and then the chunks in the order they were typed, each
\* once: for any chunks, however they are cut into pieces, read ahead of and delayed, all but
\* the one the thread is at, until the server goes away.  A chunk is what one fgets returns:
\* a line, or of a line of MAX_CLIENT_CMD_LEN bytes or more one of the parts, which the program
\* takes for a command each (subscriber_utils.c: get_cmd_line, process_subscribe_cmd,
\* process_unsubscribe_cmd).
THEOREM RequestsInOrder == Spec => []AsksWhatWasTyped
<1>1. Init => AsksWhatWasTyped
  BY AskedIs DEF Init
<1>2. Progress /\ AsksWhatWasTyped /\ [Next]_vars => AsksWhatWasTyped'
  BY SendIdAsked, LineAsked, CommandAsked, OthersAsked
<1> QED BY <1>1, <1>2, AlwaysProgress, PTL DEF Spec

-----------------------------------------------------------------------------
(* A subscriber as Network assumes it. *)

\* Both ends of the one connection, as the server has them.
Ends(peer, id, fd, inbox, left) == [peer |-> peer, id |-> id, fd |-> fd, inbox |-> inbox,
                                    unread |-> left, err |-> "none"]

\* The subscriber connects.
LEMMA NetworkConnect ==
    ASSUME NEW i, NEW b, TheConnection  = Ends("free", i, -1, b, 0),
                  TheConnection' = Ends("connecting", Id, -1, b, 0),
           server # "backlog", server' = "backlog", UNCHANGED sent
    PROVE  N!Connect(1, Id)
<1> DEFINE r == TheConnection
           s == Ends("free", i, -1, b, 0)
<1>1. [<<s>> EXCEPT ![1].peer = "connecting", ![1].id = Id] = <<Ends("connecting", Id, -1, b, 0)>>
  <2>1. [s EXCEPT !.peer = "connecting"] = Ends("connecting", i, -1, b, 0)
    BY DEF Ends
  <2>2. [Ends("connecting", i, -1, b, 0) EXCEPT !.id = Id] = Ends("connecting", Id, -1, b, 0)
    BY DEF Ends
  <2> HIDE DEF s
  <2>3. [<<s>> EXCEPT ![1].peer = "connecting", ![1].id = Id]
            = <<[[s EXCEPT !.peer = "connecting"] EXCEPT !.id = Id]>>
    OBVIOUS
  <2> QED BY <2>1, <2>2, <2>3
<1>2. s.peer = "free" /\ r = s /\ r' = Ends("connecting", Id, -1, b, 0)
  BY DEF Ends
<1> HIDE DEF r, s
<1>3. <<r'>> = [<<r>> EXCEPT ![1].peer = "connecting", ![1].id = Id]
  BY <1>1, <1>2
<1>4. <<r>>[1].peer = "free"
  BY <1>2
<1>5. <<1>> = Append(<< >>, 1)
  OBVIOUS
<1> QED BY <1>3, <1>4, <1>5 DEF N!Connect, N!Conns, r

\* The ID is sent.
LEMMA NetworkSendId ==
    ASSUME NEW f, NEW u, NEW b, NEW c,
           TheConnection = Ends("connecting", Id, f, b, u), Append(b, IdMsg) = c,
           TheConnection' = Ends("open", Id, f, c, u),
           UNCHANGED server, sent = << >>, Len(sent') = 1
    PROVE  N!SendId(1)
<1> DEFINE r == TheConnection
           s == Ends("connecting", Id, f, b, u)
           n == IF sent = << >> THEN 0 ELSE Len(sent) - 1
<1>1. [<<s>> EXCEPT ![1].peer = "open", ![1].inbox = c] = <<Ends("open", Id, f, c, u)>>
  <2>1. [s EXCEPT !.peer = "open"] = Ends("open", Id, f, b, u)
    BY DEF Ends
  <2>2. [Ends("open", Id, f, b, u) EXCEPT !.inbox = c] = Ends("open", Id, f, c, u)
    BY DEF Ends
  <2> HIDE DEF s
  <2>3. [<<s>> EXCEPT ![1].peer = "open", ![1].inbox = c]
            = <<[[s EXCEPT !.peer = "open"] EXCEPT !.inbox = c]>>
    OBVIOUS
  <2> QED BY <2>1, <2>2, <2>3
<1>2. s.peer = "connecting" /\ s.inbox = b /\ r = s /\ r' = Ends("open", Id, f, c, u)
  BY DEF Ends
<1>3. n' = n
  <2>1. Len(<< >>) = 0
    BY EmptySeq
  <2> QED BY <2>1
<1> HIDE DEF r, s, n
<1>4. [<<s>> EXCEPT ![1].peer = "open", ![1].inbox = Append(@, IdMsg)]
          = [<<s>> EXCEPT ![1].peer = "open", ![1].inbox = c]
  BY <1>2
<1>5. <<r'>> = [<<r>> EXCEPT ![1].peer = "open", ![1].inbox = Append(@, IdMsg)]
  BY <1>1, <1>2, <1>4
<1>6. <<r>>[1].peer = "connecting"
  BY <1>2
<1>7. IdMsg = N!IdMsg
  BY DEF IdMsg, N!IdMsg
<1> QED BY <1>3, <1>5, <1>6, <1>7 DEF N!SendId, r, n

\* A command is sent, to a server that is there.
LEMMA NetworkSendCommand ==
    ASSUME NEW f, NEW u, NEW b, NEW c, NEW m \in N!Commands,
           TheConnection = Ends("open", Id, f, b, u), Append(b, m) = c,
           TheConnection' = Ends("open", Id, f, c, u),
           UNCHANGED server, server = "backlog" \/ f # -1,
           sent # << >>, sent' # << >>, Len(sent) \in Nat, Len(sent') = Len(sent) + 1,
           Len(sent) <= MaxLines, MaxLines \in Nat
    PROVE  N!SendCommand(1)
<1> DEFINE r == TheConnection
           s == Ends("open", Id, f, b, u)
           n == IF sent = << >> THEN 0 ELSE Len(sent) - 1
           q == IF server = "backlog" THEN <<1>> ELSE << >>
<1>1. [<<s>> EXCEPT ![1].inbox = c] = <<Ends("open", Id, f, c, u)>>
  <2>1. [s EXCEPT !.inbox = c] = Ends("open", Id, f, c, u)
    BY DEF Ends
  <2> HIDE DEF s
  <2> QED BY <2>1
<1>2. /\ s.peer = "open" /\ s.inbox = b /\ s.fd = f /\ r = s
      /\ r' = Ends("open", Id, f, c, u)
  BY DEF Ends
<1>3. n' = n + 1 /\ n < MaxLines
  OBVIOUS
<1>4. q' = q
  OBVIOUS
<1>5. f # -1 \/ \E i \in DOMAIN q : q[i] = 1
  OBVIOUS
<1> HIDE DEF r, s, n, q
<1>6. [<<s>> EXCEPT ![1].inbox = Append(@, m)] = [<<s>> EXCEPT ![1].inbox = c]
  BY <1>2
<1>7. <<r'>> = [<<r>> EXCEPT ![1].inbox = Append(@, m)]
  BY <1>1, <1>2, <1>6
<1>8. <<r>>[1].peer = "open" /\ <<r>>[1].fd = f
  BY <1>2
<1>9. ~ N!ServerGone(1)
  BY <1>5, <1>8 DEF N!ServerGone, N!InBacklog, N!NoFd, r, q
<1> QED BY <1>3, <1>4, <1>7, <1>8, <1>9 DEF N!SendCommand, r, n, q

\* A message is read.
LEMMA NetworkReadMessage ==
    ASSUME NEW f, NEW b, NEW u, u > 0,
           TheConnection  = Ends("open", Id, f, b, u),
           TheConnection' = Ends("open", Id, f, b, u - 1),
           UNCHANGED <<server, sent>>
    PROVE  N!ReadMessage(1)
<1> DEFINE r == TheConnection
           s == Ends("open", Id, f, b, u)
           v == u - 1
<1>1. [<<s>> EXCEPT ![1].unread = v] = <<Ends("open", Id, f, b, v)>>
  <2>1. [s EXCEPT !.unread = v] = Ends("open", Id, f, b, v)
    BY DEF Ends
  <2> HIDE DEF s
  <2> QED BY <2>1
<1>2. s.peer = "open" /\ s.unread = u /\ r = s /\ r' = Ends("open", Id, f, b, v)
  BY DEF Ends
<1> HIDE DEF r, s
<1>3. [<<s>> EXCEPT ![1].unread = @ - 1] = [<<s>> EXCEPT ![1].unread = v]
  BY <1>2
<1>4. <<r'>> = [<<r>> EXCEPT ![1].unread = @ - 1]
  BY <1>1, <1>2, <1>3
<1>5. <<r>>[1].peer = "open" /\ <<r>>[1].unread > 0
  BY <1>2
<1> QED BY <1>4, <1>5 DEF N!ReadMessage, r

\* The subscriber leaves, with messages unread or none.
LEMMA NetworkExit ==
    ASSUME NEW peer \in {"connecting", "open"}, NEW f, NEW b, NEW u \in Nat,
           TheConnection  = Ends(peer, Id, f, b, u),
           TheConnection' = Ends(IF u = 0 THEN "closed" ELSE "aborted", Id, f, b, 0),
           UNCHANGED <<server, sent>>
    PROVE  N!Exit(1)
<1> DEFINE r == TheConnection
           s == Ends(peer, Id, f, b, u)
<1>1. /\ [<<s>> EXCEPT ![1].peer = "closed"] = <<Ends("closed", Id, f, b, u)>>
      /\ [<<s>> EXCEPT ![1].peer = "aborted", ![1].unread = 0, ![1].err = "none"]
             = <<Ends("aborted", Id, f, b, 0)>>
  <2>1. [s EXCEPT !.peer = "closed"] = Ends("closed", Id, f, b, u)
    BY DEF Ends
  <2>2. [s EXCEPT !.peer = "aborted"] = Ends("aborted", Id, f, b, u)
    BY DEF Ends
  <2>3. [Ends("aborted", Id, f, b, u) EXCEPT !.unread = 0] = Ends("aborted", Id, f, b, 0)
    BY DEF Ends
  <2>4. [Ends("aborted", Id, f, b, 0) EXCEPT !.err = "none"] = Ends("aborted", Id, f, b, 0)
    BY DEF Ends
  <2> HIDE DEF s
  <2>5. [<<s>> EXCEPT ![1].peer = "closed"] = <<[s EXCEPT !.peer = "closed"]>>
    OBVIOUS
  <2>6. [<<s>> EXCEPT ![1].peer = "aborted", ![1].unread = 0, ![1].err = "none"]
            = <<[[[s EXCEPT !.peer = "aborted"] EXCEPT !.unread = 0] EXCEPT !.err = "none"]>>
    OBVIOUS
  <2>7. [<<s>> EXCEPT ![1].peer = "closed"] = <<Ends("closed", Id, f, b, u)>>
    BY <2>1, <2>5
  <2>8. [<<s>> EXCEPT ![1].peer = "aborted", ![1].unread = 0, ![1].err = "none"]
            = <<Ends("aborted", Id, f, b, 0)>>
    BY <2>2, <2>3, <2>4, <2>6
  <2> QED BY <2>7, <2>8
<1>2. /\ s.peer = peer /\ s.unread = u /\ r = s
      /\ r' = Ends(IF u = 0 THEN "closed" ELSE "aborted", Id, f, b, 0)
  BY DEF Ends
<1> HIDE DEF r, s
<1>3. u = 0 => <<r'>> = [<<r>> EXCEPT ![1].peer = "closed"]
  BY <1>1, <1>2
<1>4. u # 0 => <<r'>> = [<<r>> EXCEPT ![1].peer = "aborted", ![1].unread = 0, ![1].err = "none"]
  BY <1>1, <1>2
<1>5. <<r>>[1].peer \in {"connecting", "open"} /\ <<r>>[1].unread = u
  BY <1>2
<1>6. N!Running(1)
  BY <1>5 DEF N!Running, r
<1>7. \/ <<r>>[1].unread = 0 /\ <<r'>> = [<<r>> EXCEPT ![1].peer = "closed"]
      \/ /\ <<r>>[1].unread > 0
         /\ \E e \in {"none", "reset"} :
               <<r'>> = [<<r>> EXCEPT ![1].peer = "aborted", ![1].unread = 0, ![1].err = e]
  BY <1>3, <1>4, <1>5
<1> QED BY <1>6, <1>7 DEF N!Exit, r

\* What the server sees of a subscriber.
LEMMA ConnectionSeen ==
    ASSUME Progress
    PROVE  /\ server \in {"down", "listening"}
                  => /\ pc \in {"init_client", "failed"} /\ unread = 0
                     /\ TheConnection = Ends("free", "no ID", -1, requests, 0)
           /\ server \notin {"down", "listening"}
                  => /\ pc # "init_client"
                     /\ TheConnection = Ends(Peer, Id, IF server = "accepted" THEN 5 ELSE -1,
                                             requests, IF Ended THEN 0 ELSE unread)
<1>1. /\ server \in {"down", "listening"} => pc \in {"init_client", "failed"} /\ unread = 0
      /\ server \notin {"down", "listening"} => pc # "init_client"
  BY DEF Progress, StartOK
<1>2. server \in {"down", "listening"} <=> Peer = "free"
  BY DEF Peer
<1>3. CASE server \in {"down", "listening"}
  <2>1. (IF Ended THEN 0 ELSE unread) = 0
    BY <1>1, <1>3
  <2> QED BY <1>1, <1>2, <1>3, <2>1 DEF TheConnection, Ends
<1>4. CASE server \notin {"down", "listening"}
  <2> QED BY <1>1, <1>2, <1>4 DEF TheConnection, Ends
<1> QED BY <1>3, <1>4

\* Inside the loop the server sees nothing.
LEMMA NothingSeen ==
    ASSUME Progress, UNCHANGED <<server, requests, unread, sent>>,
           pc # "send_id", pc' # "send_id",
           \/ ~ Ended /\ ~ Ended'
           \/ pc = "init_client" /\ server \in {"down", "listening"}
    PROVE  UNCHANGED N!netVars
<1>1. TheConnection' = TheConnection
  <2>1. CASE ~ Ended /\ ~ Ended'
    <3>1. Peer' = Peer
      BY <2>1 DEF Peer
    <3> QED BY <2>1, <3>1 DEF TheConnection
  <2>2. CASE server \in {"down", "listening"}
    <3>1. Peer' = "free" /\ Peer = "free"
      BY <2>2 DEF Peer
    <3>2. unread = 0
      BY <2>2, ConnectionSeen
    <3> QED BY <2>2, <3>1, <3>2 DEF TheConnection
  <2> QED BY <2>1, <2>2
<1> QED BY <1>1 DEF N!netVars

\* The end of the process is the end of the subscriber.
LEMMA ExitSeen ==
    ASSUME Progress, UNCHANGED <<server, requests, unread, sent>>,
           server \notin {"down", "listening"}, ~ Ended, Ended', pc' # "send_id"
    PROVE  N!Exit(1)
<1> DEFINE peer == IF pc = "send_id" THEN "connecting" ELSE "open"
           fd   == IF server = "accepted" THEN 5 ELSE -1
<1>1. TheConnection = Ends(peer, Id, fd, requests, unread)
  <2>1. Peer = peer
    BY DEF Peer
  <2> QED BY <2>1, ConnectionSeen
<1>2. TheConnection' = Ends(IF unread = 0 THEN "closed" ELSE "aborted", Id, fd, requests, 0)
  <2>1. Peer' = IF unread = 0 THEN "closed" ELSE "aborted"
    BY DEF Peer
  <2>2. Peer' # "free"
    BY <2>1
  <2> QED BY <2>1, <2>2 DEF TheConnection, Ends
<1>3. unread \in Nat /\ peer \in {"connecting", "open"}
  BY BoundsAssumption DEF Progress, SubTypes, TypeOK
<1> HIDE DEF peer, fd
<1> QED BY <1>1, <1>2, <1>3, NetworkExit

\* What a step of the thread may be to the server.
SeenStep ==
    \/ N!Connect(1, Id) \/ N!SendId(1) \/ N!SendCommand(1) \/ N!ReadMessage(1)
    \/ N!ReadEnd(1) \/ N!Exit(1) \/ UNCHANGED N!netVars

\* Setting up.
LEMMA StartSeen ==
    ASSUME Progress, init_client_fails \/ connect \/ init_client_poll_vec
    PROVE  SeenStep
<1>1. CASE init_client_fails \/ (connect /\ pc' = "failed")
  <2>1. pc = "init_client" /\ pc' = "failed" /\ UNCHANGED <<server, requests, unread, sent>>
    BY <1>1 DEF init_client_fails, connect, Now, Goto, socket, history
  <2>2. server \in {"down", "listening"}
    BY <2>1 DEF Progress, StartOK
  <2> QED BY <2>1, <2>2, NothingSeen DEF SeenStep
<1>2. CASE connect /\ pc' # "failed"
  <2>1. /\ pc = "init_client" /\ server = "listening" /\ server' = "backlog" /\ pc' = "send_id"
        /\ UNCHANGED <<requests, unread, sent>>
    BY <1>2 DEF connect, Now, Goto, history
  <2>2. unread = 0 /\ TheConnection = Ends("free", "no ID", -1, requests, 0)
    BY <2>1, ConnectionSeen
  <2>3. TheConnection' = Ends("connecting", Id, -1, requests, 0)
    <3>1. Peer' = "connecting" /\ Ended' = FALSE
      BY <2>1 DEF Peer, Ended
    <3> QED BY <2>1, <2>2, <3>1 DEF TheConnection, Ends
  <2> QED BY <2>1, <2>2, <2>3, NetworkConnect DEF SeenStep
<1>3. CASE init_client_poll_vec
  <2>1. /\ pc = "init_poll_vec" /\ pc' \in {"wait_for_ready_fds", "failed"}
        /\ UNCHANGED <<server, requests, unread, sent>>
    BY <1>3 DEF init_client_poll_vec, Now, Goto, socket, history
  <2>2. server \notin {"down", "listening"}
    BY <2>1 DEF Progress, StartOK
  <2>3. CASE pc' = "failed"
    <3>1. ~ Ended /\ Ended'
      BY <2>1, <2>3 DEF Ended
    <3> QED BY <2>1, <2>2, <2>3, <3>1, ExitSeen DEF SeenStep
  <2>4. CASE pc' = "wait_for_ready_fds"
    <3>1. ~ Ended /\ ~ Ended'
      BY <2>1, <2>4 DEF Ended
    <3> QED BY <2>1, <2>4, <3>1, NothingSeen DEF SeenStep
  <2> QED BY <2>1, <2>3, <2>4
<1> QED BY <1>1, <1>2, <1>3

\* The ID, or the end of a subscriber that cannot send it.
LEMMA SendIdSeen ==
    ASSUME Progress, send_id
    PROVE  SeenStep
<1>1. /\ pc = "send_id" /\ sent = << >> /\ requests = << >>
      /\ UNCHANGED <<server, unread>>
      /\ \/ /\ requests' = Append(requests, IdMsg) /\ sent' = Append(sent, IdMsg)
            /\ pc' = "init_poll_vec"
         \/ UNCHANGED <<requests, sent>> /\ pc' = "failed"
  BY DEF send_id, Now, Goto, Progress, StartOK
<1>2. server \notin {"down", "listening"}
  BY <1>1 DEF Progress, StartOK
<1>3. CASE pc' = "failed"
  <2>1. ~ Ended /\ Ended'
    BY <1>1, <1>3 DEF Ended
  <2> QED BY <1>1, <1>2, <1>3, <2>1, ExitSeen DEF SeenStep
<1>4. CASE pc' # "failed"
  <2> DEFINE fd == IF server = "accepted" THEN 5 ELSE -1
             b  == Append(requests, IdMsg)
  <2>1. pc' = "init_poll_vec" /\ requests' = b /\ sent' = Append(<< >>, IdMsg)
    BY <1>1, <1>4
  <2>2. ~ Ended /\ ~ Ended'
    BY <1>1, <2>1 DEF Ended
  <2>3. TheConnection = Ends("connecting", Id, fd, requests, unread)
    <3>1. Peer = "connecting"
      BY <1>1, <1>2 DEF Peer
    <3> QED BY <1>2, <2>2, <3>1, ConnectionSeen
  <2>4. TheConnection' = Ends("open", Id, fd, b, unread)
    <3>1. Peer' = "open"
      BY <1>1, <1>2, <2>1, <2>2 DEF Peer
    <3> QED BY <1>1, <2>1, <2>2, <3>1 DEF TheConnection, Ends
  <2>5. Len(sent') = 1
    BY <2>1
  <2>6. b = Append(requests, IdMsg)
    OBVIOUS
  <2> HIDE DEF fd, b
  <2> QED BY <1>1, <2>3, <2>4, <2>5, <2>6, NetworkSendId DEF SeenStep
<1> QED BY <1>3, <1>4

\* A request, and nothing to a server that is gone.
LEMMA CommandSeen ==
    ASSUME Progress, process_subscribe_cmd \/ process_unsubscribe_cmd
    PROVE  SeenStep
<1>1. /\ Busy /\ read \in 1 .. Len(script) /\ cmd = script[read] /\ cmd \in Chunks
      /\ UNCHANGED <<server, unread>>
      /\ Handled(cmd)
  BY CommandHandled DEF Progress, SubTypes
<1>2. /\ pc \in {"process_subscribe_cmd", "process_unsubscribe_cmd"} /\ ~ Ended
      /\ server \notin {"down", "listening"}
  BY <1>1 DEF Busy, Ended, Progress, StartOK
<1>3. CASE UNCHANGED <<requests, sent>> /\ pc' = "wait_for_ready_fds"
  <2>1. ~ Ended'
    BY <1>3 DEF Ended
  <2> QED BY <1>1, <1>2, <1>3, <2>1, NothingSeen DEF SeenStep
<1>4. CASE UNCHANGED <<requests, sent>> /\ pc' = "killed"
  <2>1. Ended'
    BY <1>4 DEF Ended
  <2> QED BY <1>1, <1>2, <1>4, <2>1, ExitSeen DEF SeenStep
<1>5. CASE /\ RequestOf(cmd) = <<Request(cmd)>> /\ Request(cmd) \in Requests
           /\ server \in {"backlog", "accepted"}
           /\ requests' = Append(requests, Request(cmd)) /\ sent' = Append(sent, Request(cmd))
           /\ pc' = "wait_for_ready_fds"
  <2> DEFINE fd == IF server = "accepted" THEN 5 ELSE -1
             m  == Request(cmd)
             b  == Append(requests, m)
  <2>1. m \in N!Commands
    <3>1. m.cmd \in {"subscribe", "unsubscribe", "other"}
      BY DEF Request
    <3>2. /\ m \in [cmd : {"subscribe"}, topic : Topics, sf : N!Options]
                      \cup [cmd : {"unsubscribe"}, topic : Topics] \cup [cmd : {"other"}]
      <4>1. m \in Requests
        BY <1>5
      <4> HIDE DEF m
      <4> QED BY <3>1, <4>1 DEF Requests, N!Options
    <3> HIDE DEF m
    <3> QED BY <3>1, <3>2 DEF N!Commands
  <2>2. ~ Ended'
    BY <1>5 DEF Ended
  <2>3. TheConnection = Ends("open", Id, fd, requests, unread)
    <3>1. Peer = "open"
      BY <1>2 DEF Peer
    <3> QED BY <1>2, <3>1, ConnectionSeen
  <2>4. TheConnection' = Ends("open", Id, fd, b, unread)
    <3>1. Peer' = "open"
      BY <1>1, <1>2, <1>5, <2>2 DEF Peer
    <3> QED BY <1>1, <1>5, <2>2, <3>1 DEF TheConnection, Ends
  <2>5. /\ sent \in Seq(Requests) /\ Len(sent) \in Nat /\ sent # << >>
        /\ Len(sent) <= MaxLines /\ MaxLines \in Nat
    <3>1. /\ sent \in Seq(Requests) /\ Len(sent) \in Nat /\ Len(script) \in Nat
      BY InputTypes DEF Progress, SubTypes
    <3>2. sent # << >> /\ Len(sent) <= read /\ Len(script) <= MaxLines
      BY <1>1, <1>2 DEF Progress, SubTypes, StartOK, SentOK, Counts
    <3> QED BY <1>1, <3>1, <3>2, BoundsAssumption
  <2>6. sent' # << >> /\ Len(sent') = Len(sent) + 1
    <3> HIDE DEF m
    <3>1. m \in Requests /\ sent' = Append(sent, m)
      BY <1>5 DEF m
    <3> QED BY <2>5, <3>1, AppendProperties
  <2>7. server = "backlog" \/ fd # -1
    BY <1>5
  <2>8. Append(requests, m) = b
    OBVIOUS
  <2> HIDE DEF fd, m, b
  <2> QED BY <1>1, <2>1, <2>3, <2>4, <2>5, <2>6, <2>7, <2>8, NetworkSendCommand DEF SeenStep
<1> QED BY <1>1, <1>3, <1>4, <1>5 DEF Handled

\* A message, or the way out of the loop.
LEMMA SocketSeen ==
    ASSUME Progress, process_ready_fds
    PROVE  SeenStep
<1>1. /\ UNCHANGED <<server, requests, sent>>
      /\ pc = "process_ready_fds" /\ pc' \in {"wait_for_ready_fds", "free_client"}
      /\ \/ unread' = unread
         \/ unread > 0 /\ unread' = unread - 1
  BY DEF process_ready_fds, Now, Goto
<1>2. ~ Ended /\ ~ Ended' /\ server \notin {"down", "listening"}
  BY <1>1 DEF Ended, Progress, StartOK
<1>3. CASE unread' = unread
  BY <1>1, <1>2, <1>3, NothingSeen DEF SeenStep
<1>4. CASE unread > 0 /\ unread' = unread - 1
  <2> DEFINE fd == IF server = "accepted" THEN 5 ELSE -1
  <2>1. Peer = "open" /\ Peer' = "open"
    BY <1>1, <1>2 DEF Peer
  <2>2. TheConnection = Ends("open", Id, fd, requests, unread)
    BY <1>2, <2>1, ConnectionSeen
  <2>3. TheConnection' = Ends("open", Id, fd, requests, unread - 1)
    BY <1>1, <1>2, <1>4, <2>1 DEF TheConnection, Ends
  <2> HIDE DEF fd
  <2> QED BY <1>1, <1>4, <2>2, <2>3, NetworkReadMessage DEF SeenStep
<1> QED BY <1>1, <1>3, <1>4

\* Poll, the lines and the end.
LEMMA LoopSeen ==
    ASSUME Progress,
           \/ wait_for_ready_fds \/ poll_fails \/ get_cmd_line
           \/ fgets_returns \/ fgets_ends \/ free_client
    PROVE  SeenStep
<1>1. CASE fgets_returns
  <2>1. UNCHANGED <<server, requests, unread, sent>> /\ pc = "fgets" /\ Dispatch(cmd')
    <3>1. TypeOK /\ InputOK
      BY DEF Progress, SubTypes
    <3> QED BY <1>1, <3>1, NextLine DEF fgets_returns, Now, socket
  <2>2. pc' \in {"process_subscribe_cmd", "process_unsubscribe_cmd", "free_client",
                 "process_ready_fds"}
    BY <2>1 DEF Dispatch, Goto
  <2>3. ~ Ended /\ ~ Ended' /\ pc' # "send_id" /\ pc # "send_id"
    BY <2>1, <2>2 DEF Ended
  <2> QED BY <2>1, <2>3, NothingSeen DEF SeenStep
<1>2. CASE wait_for_ready_fds \/ poll_fails \/ get_cmd_line \/ fgets_ends
  <2>1. /\ UNCHANGED <<socket, history>>
        /\ pc \in {"wait_for_ready_fds", "get_cmd_line", "fgets"}
        /\ pc' \in {"wait_for_ready_fds", "get_cmd_line", "free_client", "fgets",
                    "process_ready_fds"}
    BY <1>2 DEF wait_for_ready_fds, poll_fails, get_cmd_line, fgets_ends, Now, Goto
  <2>2. ~ Ended /\ ~ Ended' /\ pc' # "send_id" /\ pc # "send_id"
    BY <2>1 DEF Ended
  <2>3. UNCHANGED <<server, requests, unread, sent>>
    BY <2>1 DEF socket, history
  <2> QED BY <2>2, <2>3, NothingSeen DEF SeenStep
<1>3. CASE free_client
  <2>1. /\ UNCHANGED <<server, requests, unread, sent>>
        /\ pc = "free_client" /\ pc' = "exited"
    BY <1>3 DEF free_client, Now, Goto, socket, history
  <2>2. ~ Ended /\ Ended' /\ server \notin {"down", "listening"}
    BY <2>1 DEF Ended, Progress, StartOK
  <2> QED BY <2>1, <2>2, ExitSeen DEF SeenStep
<1> QED BY <1>1, <1>2, <1>3

\* Every step of the program is a step of the subscriber that the server's model assumes, or
\* none, for any number of lines and messages and buffers of any size: it connects, then sends
\* its ID, then commands of the protocol, reads what is there and leaves (subscriber.c: main;
\* subscriber_utils.c: init_client, process_ready_fds).
THEOREM SubscriberOfNetwork == Spec => IsASubscriberOfNetwork
<1>1. ASSUME Progress, [Next]_vars PROVE pc' # pc => SeenStep
  <2>1. CASE SubscriberStep
    <3>1. fgets_reads => pc' = pc
      BY DEF fgets_reads, process
    <3> QED BY <1>1, <2>1, <3>1, StartSeen, SendIdSeen, CommandSeen, SocketSeen, LoopSeen
        DEF SubscriberStep
  <2>2. CASE ~ SubscriberStep
    <3>1. \/ UNCHANGED vars \/ Typed
          \/ TypePiece \/ EndInput \/ ServerAccepts \/ ServerReads \/ ServerSends \/ ServerCloses
      BY <1>1, <2>2 DEF Next, Typed
    <3>2. pc' = pc
      BY <3>1 DEF vars, process, Typed, TypeLine, TypePiece, EndInput, ServerAccepts, ServerReads,
         ServerSends, ServerCloses
    <3> QED BY <3>2
  <2> QED BY <2>1, <2>2
<1>2. Progress /\ [Next]_vars => [pc' # pc => SeenStep]_vars
  BY <1>1
<1>3. Spec => [][pc' # pc => SeenStep]_vars
  BY <1>2, AlwaysProgress, PTL DEF Spec
<1> QED BY <1>3 DEF IsASubscriberOfNetwork, SeenStep
=============================================================================
