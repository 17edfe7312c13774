------------------------------- MODULE Server -------------------------------
(***************************************************************************)
(* The broker (src/src/server.c, server_utils.c): one thread that polls    *)
(* its descriptors, handles every one the poll reported and polls again.   *)
(* A handler is split where it calls the kernel on another descriptor, so  *)
(* that subscribers, publishers and the operator act between the calls.    *)
(***************************************************************************)
EXTENDS Network, PollVec

CONSTANTS
    UdpCap,         \* INIT_UDP_MSGS_LEN: initial capacity of udp_msgs
    ReallocMoves,   \* whether realloc may return the array at a new address
    AllocFails      \* whether memory may run out: malloc and realloc return NULL, and
                    \* poll and recvfrom fail (ENOMEM)

ASSUME UdpCapAssumption == UdpCap \in Nat \ {0}
ASSUME FlagsAssumption  == ReallocMoves \in BOOLEAN /\ AllocFails \in BOOLEAN

VARIABLES
    pc,             \* where the thread is
    pfds,           \* poll_vec: the stdin, the UDP socket, the listener, the clients
    iter,           \* the entry process_ready_fds is at
    k,              \* transmit: the client the loop is at; retransmit: remaining_msgs
    clients,        \* the clients vector (ClientVec)
    udp_msgs,       \* the topics of the messages received; a message is its index
    cap,            \* udp_msgs_capacity
    blk,            \* the address of the array: how often realloc moved it
    (* The rest is read by properties only. *)
    todo,           \* the descriptors reported by the poll and not handled yet
    ends,           \* the connections of which the poll reported the end
    since,          \* since[c]: the messages received when c registered its ID, or Away
    want,           \* want[id][t]: the option the commands of the ID last asked for
    due,            \* due[id]: the messages the ID has a claim to
    log,            \* log[c]: the messages sent on connection c, in order
    lost            \* lost[id]: the messages given up because a send returned an error: the
                    \* one of a live send, or the rest of a store

serverVars == <<pc, pfds, iter, k, clients, udp_msgs, cap, blk>>
history    == <<todo, ends, since, want, due, log, lost>>
vars       == <<netVars, serverVars, history>>

\* A pointer into udp_msgs dangles once the array has moved.
Blocks   == 0 .. MaxPublish
Pointers == [blk : Blocks, msg : 1 .. MaxPublish]
Junk     == 0       \* what is sent in place of a message whose memory was reused

CV == INSTANCE ClientVec WITH Ptrs <- Pointers, MaxReady <- MaxPublish

NoSubscriptions == [id \in Ids |-> [t \in Topics |-> "none"]]
NoMessages      == [id \in Ids |-> {}]
NothingSent     == [c \in Conns |-> << >>]

Away    == -1
AllAway == [c \in Conns |-> Away]

\* The connections that hold a registered ID.
live == {c \in Conns : since[c] # Away}

Init ==
    /\ NetInit
    /\ pc = "wait_for_ready_fds"
    /\ pfds = <<Entry(STDIN, FALSE), Entry(UDP, FALSE), Entry(LISTENER, FALSE)>>
    /\ iter = 0 /\ k = 0
    /\ CV!Init
    /\ udp_msgs = << >> /\ cap = UdpCap /\ blk = 0
    /\ todo = {} /\ ends = {} /\ since = AllAway
    /\ want = NoSubscriptions
    /\ due = NoMessages /\ lost = NoMessages
    /\ log = NothingSent

-----------------------------------------------------------------------------
UdpOpen == Len(pfds) > 1 /\ pfds[2].fd = UDP

ReadableFd(fd) ==
    \/ fd = STDIN    /\ stdin # "nothing"
    \/ fd = UDP      /\ UdpOpen /\ udpq # << >>
    \/ fd = LISTENER /\ backlog # << >>
    \/ \E c \in ConnsOf(fd) : Readable(c)

Now(place) == pc = place
AtEntry(fd) == Now("process_ready_fds") /\ pfds[iter].fd = fd
Handled(fd) == todo' = todo \ {fd}

\* The for loop of process_ready_fds goes on at entry n of vec, or the round is over.
ContinueAt(vec, n) ==
    LET rest == ReportedFrom(vec, n) IN
    \/ /\ rest # {}
       /\ pc' = "process_ready_fds"
       /\ iter' \in {m \in rest : \A l \in rest : m <= l}
       /\ pfds' = vec
    \/ /\ rest = {}
       /\ pc' = "wait_for_ready_fds"
       /\ iter' = 0
       /\ pfds' = [n2 \in DOMAIN vec |-> Entry(vec[n2].fd, FALSE)]

\* The entry of the handler leaves the vector, and the loop goes on with the entry that took
\* its place (iter-- before the loop's ++iter).
DropEntry_bug == ContinueAt(poll_vec_remove_fd(pfds, iter), iter + 1)
DropEntry     == ContinueAt(poll_vec_remove_fd(pfds, iter), iter)

\* The process is gone, by free_server or by a signal: the kernel closes its sockets, and
\* the history ends with it.
Gone(how) ==
    /\ pc' = how
    /\ conn' = AllClosed
    /\ pfds' = << >> /\ backlog' = << >> /\ udpq' = << >>
    /\ clients' = << >> /\ udp_msgs' = << >>
    /\ iter' = 0 /\ k' = 0
    /\ todo' = {} /\ ends' = {} /\ since' = AllAway /\ want' = NoSubscriptions /\ due' = NoMessages
    /\ log' = NothingSent /\ lost' = NoMessages
    /\ UNCHANGED <<published, commands, stdin, cap, blk>>

\* An error that process_ready_fds returns ends the main loop.
Fail == pc' = "free_server" /\ iter' = 0 /\ k' = 0 /\ UNCHANGED pfds

-----------------------------------------------------------------------------
(* The main loop. *)

\* Clients are polled for POLLOUT too, so poll(2) may return with no entry to read; such
\* a round changes nothing.
wait_for_ready_fds ==
    /\ Now("wait_for_ready_fds")
    /\ \E fd \in FdsOf(pfds) : ReadableFd(fd)
    /\ LET polled == [n \in DOMAIN pfds |-> Entry(pfds[n].fd, ReadableFd(pfds[n].fd))] IN
       /\ todo' = {polled[n].fd : n \in ReportedFrom(polled, 2)}
       /\ ends' = {c \in live : PeerGone(c) /\ conn[c].inbox = << >>}
       /\ \/ /\ polled[1].pollin
             /\ pc' = "check_if_exit" /\ pfds' = polled /\ UNCHANGED iter
          \/ /\ ~ polled[1].pollin
             /\ ContinueAt(polled, 2)
    /\ UNCHANGED <<netVars, k, clients, udp_msgs, cap, blk, since, want, due, log, lost>>

\* poll fails, which ends the main loop.
poll_fails ==
    /\ Now("wait_for_ready_fds") /\ AllocFails
    /\ Fail
    /\ UNCHANGED <<netVars, clients, udp_msgs, cap, blk, history>>

\* fgets waits for the end of a line; at the end of the input it returns NULL.
check_if_exit ==
    /\ Now("check_if_exit")
    /\ stdin # "part"
    /\ stdin' = IF stdin = "end" THEN "end" ELSE "nothing"
    /\ \/ /\ stdin = "exit"
          /\ Fail
       \/ /\ stdin # "exit"
          /\ ContinueAt(pfds, 2) /\ UNCHANGED k
    /\ UNCHANGED <<conn, backlog, udpq, published, commands, clients, udp_msgs, cap, blk,
                   history>>

free_server == Now("free_server") /\ Gone("done")

-----------------------------------------------------------------------------
(* The UDP socket: store the message, then send it to whoever wants it. *)

OptionOf(i, t) == {clients[i].options[j] : j \in CV!TopicIndices(i, t)}

\* The topic is not compared ...
concerns_everybody_bug(n, t) ==
    {i \in n .. Len(clients) : clients[i].status = "ACTIVE" \/ "SF" \in OptionOf(i, t)}

\* ... the option is not looked at ...
stores_for_all_bug(n, t) == {i \in n .. Len(clients) : OptionOf(i, t) # {}}

\* ... or the loop misses the last client.
misses_last_bug(n, t) ==
    {i \in n .. Len(clients) - 1 : \/ clients[i].status = "ACTIVE" /\ OptionOf(i, t) # {}
                                   \/ clients[i].status = "DEAD"   /\ "SF" \in OptionOf(i, t)}

\* The clients from n on the loop of transmit_topic_to_clients does something for.
Concerned(n, t) ==
    {i \in n .. Len(clients) : \/ clients[i].status = "ACTIVE" /\ OptionOf(i, t) # {}
                               \/ clients[i].status = "DEAD"   /\ "SF" \in OptionOf(i, t)}

TransmitFrom(n, t) ==
    LET rest == Concerned(n, t) IN
    \/ /\ rest # {}
       /\ pc' = "transmit"
       /\ k' \in {i \in rest : \A l \in rest : i <= l}
       /\ UNCHANGED <<pfds, iter>>
    \/ /\ rest = {}
       /\ k' = 0
       /\ ContinueAt(pfds, iter + 1)

\* A message of topic t is due to the connected IDs subscribed to it, and to the absent
\* ones that asked for store-and-forward.
ClaimsTo(t) ==
    {id \in Ids : /\ t # NoTopic
                 /\ \/ want[id][t] # "none" /\ \E c \in live : conn[c].id = id
                    \/ want[id][t] = "SF"}

\* add_server_udp_msg: the array grows before the datagram is parsed ...
MakeRoom ==
    \/ /\ Len(udp_msgs) < cap
       /\ UNCHANGED <<cap, blk>>
    \/ /\ Len(udp_msgs) = cap
       /\ cap' = 2 * cap
       /\ blk' \in IF ReallocMoves THEN {blk, blk + 1} ELSE {blk}

\* ... and a message that parsed enters transmit_topic_to_clients.
AddMessage(t) ==
    /\ MakeRoom
    /\ udp_msgs' = Append(udp_msgs, t)
    /\ TransmitFrom(1, t)

\* One that did not parse, or had no room, ends the server.
RefuseMessage ==
    /\ \/ MakeRoom
       \/ AllocFails /\ Len(udp_msgs) = cap /\ UNCHANGED <<cap, blk>>
    /\ Fail
    /\ UNCHANGED udp_msgs

\* The topics that the buffer may hold after recvfrom: the one of the datagram or, when the
\* call failed, which is not looked at, the one of the message before.
TopicsInBuf ==
    (IF Head(udpq).type = "topic" THEN {Head(udpq).topic} ELSE {})
        \cup (IF AllocFails THEN {IF udp_msgs = << >> THEN NoTopic ELSE Last(udp_msgs)} ELSE {})

\* A recvfrom that fails takes the datagram with it, and the old one is a message once more.
recv_udp_message ==
    /\ AtEntry(UDP) /\ UdpOpen
    /\ Handled(UDP)
    /\ udpq # << >>
    /\ udpq' = Tail(udpq)
    /\ \/ \E t \in TopicsInBuf :
          /\ AddMessage(t)
          /\ due' = [id \in Ids |-> IF id \in ClaimsTo(t)
                                    THEN due[id] \cup {Len(udp_msgs) + 1} ELSE due[id]]
       \/ /\ \/ Head(udpq).type = "unknown"
             \/ AllocFails /\ Len(udp_msgs) = cap
          /\ Head(udpq).type # "empty" \/ AllocFails
          /\ RefuseMessage
          /\ UNCHANGED due
       \/ /\ Head(udpq).type = "empty"
          /\ DropEntry
          /\ UNCHANGED <<k, udp_msgs, cap, blk, due>>
    /\ UNCHANGED <<conn, backlog, published, commands, stdin, clients, ends, since, want, log,
                   lost>>

\* After the UDP socket was closed, accept() gives its number to a subscriber, and the
\* comparison with udp_socket takes that connection for the UDP socket.  recvfrom reads what is
\* there, up to MAX_SERVER_BUFLEN bytes, which is parsed as one datagram; after an error the
\* old buffer is parsed again.  MaxPublish bounds these messages too.
recv_udp_from_client ==
    /\ AtEntry(UDP) /\ ~ UdpOpen
    /\ Handled(UDP)
    /\ Len(udp_msgs) < MaxPublish
    /\ \E c \in ConnsOf(UDP) :
        /\ Readable(c)
        /\ \/ /\ conn[c].inbox # << >> \/ conn[c].peer = "aborted"
              /\ \/ conn[c].inbox # << >> /\ \E n \in 1 .. Len(conn[c].inbox) :
                       conn' = [conn EXCEPT ![c].inbox = SubSeq(@, n + 1, Len(@))]
                 \/ conn[c].inbox = << >> /\ conn' = [conn EXCEPT ![c].peer = "closed"]
              /\ \/ \E t \in {NoTopic} \cup (IF conn[c].inbox # << >> THEN {} ELSE Topics) :
                       AddMessage(t)
                 \/ RefuseMessage
              /\ UNCHANGED since
           \/ /\ conn[c].inbox = << >> /\ conn[c].peer = "closed"
              /\ conn' = ClosedFd(UDP)
              /\ since' = [since EXCEPT ![c] = Away]
              /\ DropEntry
              /\ UNCHANGED <<k, udp_msgs, cap, blk>>
    /\ UNCHANGED <<backlog, udpq, published, commands, stdin, clients, ends, want, due, log,
                   lost>>

\* One iteration of transmit_topic_to_clients: an ACTIVE subscriber is sent the message, a
\* DEAD one gets a pointer to it.  A failed send is reported and forgotten.
transmit_send ==
    /\ Now("transmit")
    /\ clients[k].status = "ACTIVE"
    /\ \E result \in {"OK", "FAILED"} :
        /\ send_tcp_msg(clients[k].fd, result)
        /\ log' = [c \in Conns |->
              IF result = "OK" /\ c \in ConnsOf(clients[k].fd)
              THEN Append(log[c], Len(udp_msgs)) ELSE log[c]]
        /\ lost' = IF result = "OK" THEN lost
                   ELSE [lost EXCEPT ![clients[k].id] = @ \cup {Len(udp_msgs)}]
    /\ TransmitFrom(k + 1, Last(udp_msgs))
    /\ UNCHANGED <<backlog, udpq, published, commands, stdin, clients, udp_msgs, cap, blk,
                   todo, ends, since, want, due>>

transmit_store ==
    /\ Now("transmit")
    /\ clients[k].status = "DEAD"
    /\ \/ /\ CV!add_topic_msg_for_client([blk |-> blk, msg |-> Len(udp_msgs)], k, "OK")
          /\ TransmitFrom(k + 1, Last(udp_msgs))
       \/ /\ CV!add_topic_msg_for_client([blk |-> blk, msg |-> Len(udp_msgs)], k,
                                         "ALLOCATION_FAILED")
          /\ Fail
    /\ UNCHANGED <<netVars, udp_msgs, cap, blk, history>>

-----------------------------------------------------------------------------
(* The listener: accept, wait for the ID, register it, send what was stored. *)

FreeFds == {fd \in Fds : ConnsOf(fd) = {} /\ ~ (fd = UDP /\ UdpOpen)}

accept_client ==
    /\ AtEntry(LISTENER)
    /\ Handled(LISTENER)
    /\ backlog # << >>
    /\ \/ /\ FreeFds = {}
          /\ Fail
          /\ UNCHANGED <<conn, backlog>>
       \/ \E fd \in FreeFds :
          /\ \A other \in FreeFds : fd <= other
          /\ conn' = Accepted(Head(backlog), fd)
          /\ backlog' = Tail(backlog)
          /\ \/ pfds' = poll_vec_add_fd(pfds, fd) /\ pc' = "recv_id" /\ UNCHANGED <<iter, k>>
             \/ AllocFails /\ Fail
    /\ UNCHANGED <<udpq, published, commands, stdin, clients, udp_msgs, cap, blk,
                   ends, since, want, due, log, lost>>

\* The new connection is the last entry of the poll vector until its handler is over.
newFd == Last(pfds).fd

\* The whole server waits here for the first message of the new connection.
recv_id ==
    /\ Now("recv_id")
    /\ \E c \in ConnsOf(newFd), result \in CV!Results :
        \/ /\ conn[c].inbox # << >>
           /\ CV!register_new_client(conn[c].id, newFd, result)
           /\ \/ /\ result = "OK"
                 /\ conn' = Received(c)
                 /\ since' = [since EXCEPT ![c] = Len(udp_msgs)]
                 /\ pc' = "retransmit"
                 /\ k' \in {Len(clients'[i].ready_msgs) :
                               i \in {j \in DOMAIN clients' :
                                        /\ clients'[j].fd = newFd
                                        /\ \A l \in 1 .. j - 1 : clients'[l].fd # newFd}}
                 /\ UNCHANGED <<pfds, iter>>
              \/ /\ result # "OK"
                 /\ conn' = [Received(c) EXCEPT ![c].fd = NoFd]
                 /\ ContinueAt(poll_vec_remove_fd(pfds, Len(pfds)), iter + 1)
                 /\ UNCHANGED <<since, k>>
        \/ /\ conn[c].inbox = << >> /\ PeerGone(c)
           /\ result = "NOT_FOUND"
           /\ Fail
           /\ UNCHANGED <<conn, clients, since>>
    /\ UNCHANGED <<backlog, udpq, published, commands, stdin, udp_msgs, cap, blk,
                   todo, ends, want, due, log, lost>>

\* The loop runs up from the oldest message.
oldest_first_bug(ready, n) == ready[Len(ready) + 1 - n]
NextStored(ready, n)       == ready[n]

\* What reading a stored pointer yields: the message, or, if the array has moved since,
\* whatever the freed memory holds.
Stored(p) == IF p.blk = blk THEN {p.msg} ELSE {p.msg, Junk}

MessagesOf(s) == {s[n].msg : n \in DOMAIN s}

\* The store is not emptied.
EndRetransmit_bug(i) == UNCHANGED clients /\ k' = 0 /\ ContinueAt(pfds, iter + 1)

EndRetransmit(i) ==
    /\ CV!set_ready_msgs_len(i, 0)
    /\ k' = 0
    /\ ContinueAt(pfds, iter + 1)

\* One iteration of retransmit_topics_to_client, from the newest stored message down.  A
\* failed send leaves the loop, and the store is emptied all the same.
retransmit_send ==
    /\ Now("retransmit") /\ k > 0
    /\ \E i \in DOMAIN clients : CV!IsFirst(i, CV!SlotsOfFd(newFd)) /\
       \E m \in Stored(NextStored(clients[i].ready_msgs, k)) :
        \/ /\ send_tcp_msg(newFd, "OK")
           /\ log' = [c \in Conns |-> IF c \in ConnsOf(newFd) THEN Append(log[c], m)
                                                              ELSE log[c]]
           /\ k' = k - 1
           /\ UNCHANGED <<pc, pfds, iter, clients, lost>>
        \/ /\ send_tcp_msg(newFd, "FAILED")
           /\ lost' = [lost EXCEPT ![clients[i].id] =
                          @ \cup MessagesOf(SubSeq(clients[i].ready_msgs, 1, k))]
           /\ EndRetransmit(i)
           /\ UNCHANGED log
    /\ UNCHANGED <<backlog, udpq, published, commands, stdin, udp_msgs, cap, blk,
                   todo, ends, since, want, due>>

retransmit_done ==
    /\ Now("retransmit") /\ k = 0
    /\ \E i \in DOMAIN clients : CV!IsFirst(i, CV!SlotsOfFd(newFd)) /\ EndRetransmit(i)
    /\ UNCHANGED <<netVars, udp_msgs, cap, blk, history>>

\* Reading freed memory may also make pack_topic_to_tcp_msg fail on the type, which keeps
\* the store, or end the process.
retransmit_dangling ==
    /\ Now("retransmit") /\ k > 0
    /\ \E i \in DOMAIN clients :
        /\ CV!IsFirst(i, CV!SlotsOfFd(newFd))
        /\ clients[i].ready_msgs[k].blk # blk
        /\ \/ /\ CV!set_ready_msgs_len(i, k)
              /\ k' = 0
              /\ ContinueAt(pfds, iter + 1)
              /\ UNCHANGED <<netVars, udp_msgs, cap, blk, history>>
           \/ Gone("killed")

\* send() without MSG_NOSIGNAL on a connection that was reset.
send_killed ==
    /\ \/ Now("transmit") /\ clients[k].status = "ACTIVE"
          /\ RaisesSIGPIPE(clients[k].fd)
       \/ Now("retransmit") /\ k > 0 /\ RaisesSIGPIPE(newFd)
    /\ Gone("killed")

-----------------------------------------------------------------------------
(* A client: a command, or the end of its connection. *)

recv_command ==
    /\ Now("process_ready_fds") /\ pfds[iter].fd \notin {UDP, LISTENER}
    /\ Handled(pfds[iter].fd)
    /\ \E c \in ConnsOf(pfds[iter].fd), result \in CV!Results :
        /\ conn[c].inbox # << >>
        /\ conn' = Received(c)
        /\ LET m == Head(conn[c].inbox) IN
           \/ /\ m.cmd = "subscribe"
              /\ CV!subscribe_client_to_topic(pfds[iter].fd, m.topic, m.sf, result)
              /\ want' = IF result = "OK"
                         THEN [want EXCEPT ![conn[c].id][m.topic] = m.sf] ELSE want
           \/ /\ m.cmd = "unsubscribe"
              /\ CV!unsubscribe_client_from_topic(pfds[iter].fd, m.topic, result)
              /\ want' = IF result = "OK"
                         THEN [want EXCEPT ![conn[c].id][m.topic] = "none"] ELSE want
           \/ /\ m.cmd \notin {"subscribe", "unsubscribe"}
              /\ result = "NOT_FOUND"
              /\ UNCHANGED <<clients, want>>
    /\ ContinueAt(pfds, iter + 1)
    /\ UNCHANGED <<backlog, udpq, published, commands, stdin, k, udp_msgs, cap, blk,
                   ends, since, due, log, lost>>

recv_end ==
    /\ Now("process_ready_fds") /\ pfds[iter].fd \notin {UDP, LISTENER}
    /\ Handled(pfds[iter].fd)
    /\ \E c \in ConnsOf(pfds[iter].fd), result \in CV!Results :
        /\ conn[c].inbox = << >> /\ PeerGone(c)
        /\ CV!close_active_client(pfds[iter].fd, result)
        /\ \/ /\ result = "OK"
              /\ conn' = ClosedFd(pfds[iter].fd)
              /\ since' = [since EXCEPT ![c] = Away]
              /\ DropEntry
           \/ /\ result # "OK"
              /\ ContinueAt(pfds, iter + 1)
              /\ UNCHANGED <<conn, since>>
    /\ UNCHANGED <<backlog, udpq, published, commands, stdin, k, udp_msgs, cap, blk,
                   ends, want, due, log, lost>>

-----------------------------------------------------------------------------
ServerStep ==
    \/ wait_for_ready_fds \/ poll_fails \/ check_if_exit \/ free_server
    \/ recv_udp_message \/ recv_udp_from_client \/ transmit_send \/ transmit_store
    \/ accept_client \/ recv_id \/ retransmit_send \/ retransmit_done
    \/ retransmit_dangling \/ send_killed
    \/ recv_command \/ recv_end

ServerRuns == pc \notin {"done", "killed"}

External(A) == A /\ UNCHANGED <<serverVars, history>>

Next ==
    \/ ServerStep
    \/ \E c \in Conns, id \in Ids : ServerRuns /\ External(Connect(c, id))
    \/ \E c \in Conns : External(SendId(c))
    \/ \E c \in Conns : External(SendCommand(c))
    \/ \E c \in Conns : External(ReadMessage(c))
    \/ \E c \in Conns : External(ReadEnd(c))
    \/ \E c \in Conns : External(Exit(c))
    \/ \E d \in Datagrams : ServerRuns /\ UdpOpen /\ External(Publish(d))
    \/ \E line \in Lines : ServerRuns /\ External(TypeLine(line))

Spec == Init /\ [][Next]_vars

\* The server's thread keeps running, and a subscriber that is not stopped sends its ID,
\* reads what it is sent and notices the end of its connection.  Nothing makes anyone
\* connect, publish, type or exit.
Fairness == /\ WF_vars(ServerStep)
            /\ \A c \in Conns :
                  /\ WF_vars(External(SendId(c)))
                  /\ WF_vars(External(ReadMessage(c)))
                  /\ WF_vars(External(ReadEnd(c)))

FairSpec == Spec /\ Fairness

-----------------------------------------------------------------------------
Places == {"wait_for_ready_fds", "check_if_exit", "process_ready_fds", "transmit", "recv_id",
           "retransmit", "free_server", "done", "killed"}

\* The variables have their types, and the index of the poll loop is inside the vector
\* whenever a handler uses it.
TypeOK ==
    /\ conn \in [Conns -> Connections]
    /\ backlog \in Seq(Conns) /\ udpq \in Seq(Datagrams)
    /\ published \in 0 .. MaxPublish /\ commands \in 0 .. MaxCmds
    /\ stdin \in Lines \cup {"nothing"}
    /\ pc \in Places
    /\ pfds \in Seq([fd : Fds \cup {STDIN, LISTENER}, pollin : BOOLEAN])
    /\ iter \in 0 .. Len(pfds)
    /\ pc \in {"process_ready_fds", "transmit", "recv_id", "retransmit"} => iter > 1
    /\ k \in Nat
    /\ pc = "transmit" => k \in DOMAIN clients
    /\ CV!TypeOK
    /\ udp_msgs \in Seq(Topics \cup {NoTopic})
    /\ cap \in Nat /\ blk \in Blocks
    /\ todo \subseteq Fds \cup {LISTENER} /\ ends \subseteq Conns
    /\ since \in [Conns -> {Away} \cup Nat]
    /\ want \in [Ids -> [Topics -> {"none"} \cup Options]]
    /\ due \in [Ids -> SUBSET (1 .. MaxPublish)]
    /\ lost \in [Ids -> SUBSET (1 .. MaxPublish)]
    /\ log \in [Conns -> Seq({Junk} \cup 1 .. MaxPublish)]

\* The three tables that describe a connection agree between two rounds: the poll vector
\* polls exactly the registered connections (besides the three fixed entries), and the
\* ACTIVE slots of the clients vector name them by ID and descriptor.
TablesAgree ==
    pc = "wait_for_ready_fds" /\ UdpOpen =>
        /\ FdsOf(pfds) = {STDIN, UDP, LISTENER} \cup {conn[c].fd : c \in live}
        /\ Len(pfds) = 3 + Cardinality(live)
        /\ \A c \in Conns : c \in live <=> conn[c].fd # NoFd
        /\ {<<clients[i].id, clients[i].fd>> :
              i \in {j \in DOMAIN clients : clients[j].status = "ACTIVE"}}
             = {<<conn[c].id, conn[c].fd>> : c \in live}

\* The descriptors that a poll reported are each handled exactly once in the round, although
\* handlers remove entries from the vector, append to it and reuse descriptors while the
\* loop runs over it.
EachReportedOnce ==
    /\ pc = "wait_for_ready_fds" => todo = {}
    /\ pc = "process_ready_fds"  => pfds[iter].fd \in todo

\* When a handler is about to read, the data or the end of the stream is still there, so the
\* one thread never blocks in recv, recvfrom or accept on account of an entry.
HandlersDoNotBlock ==
    pc = "process_ready_fds" => ReadableFd(pfds[iter].fd)

SentTo(id) == UNION {{log[c][n] : n \in DOMAIN log[c]} : c \in {d \in Conns : conn[d].id = id}}

\* No message is sent twice to a subscriber, over all its connections: not by the live
\* path and the store, and not by two emptyings of the store (until the array moves, or the
\* UDP socket is lost and its descriptor given to a client that two slots then name).  A
\* message is an entry of udp_msgs: the old datagram that a failed recvfrom leaves in the
\* buffer is a new one.
AtMostOnce ==
    UdpOpen /\ blk = 0 => \A c, d \in Conns : \A m \in DOMAIN log[c], n \in DOMAIN log[d] :
        (conn[c].id = conn[d].id /\ log[c][m] = log[d][n] /\ log[c][m] # Junk)
            => c = d /\ m = n

\* A subscriber is sent only messages it has a claim to by the commands of its own
\* connections: never another one's, although descriptors are reused.
OnlyWhatIsDue ==
    UdpOpen => \A id \in Ids : SentTo(id) \ {Junk} \subseteq due[id]

\* Between two rounds nothing that an ID has a claim to is lost without a trace: the kernel took
\* it, a send of it returned an error, or it is in the store of the ID, which is absent.  And
\* the store holds nothing but claims that were not sent yet (until the array moves).  Whether
\* a message of which a send failed should be stored as well is left open: the code gives it
\* up, and its comments say that it is kept when the connection was closed, of the store
\* (TheRestWaits) and of a live message ("saved internally in case [...] the udp message was not
\* send due to closed connection", process_ready_fds).
StoreHoldsTheRest ==
    pc = "wait_for_ready_fds" /\ UdpOpen /\ blk = 0 => \A id \in Ids :
        LET store == UNION {MessagesOf(clients[i].ready_msgs) :
                               i \in {j \in CV!SlotsOfId(id) : clients[j].status = "DEAD"}}
        IN  /\ due[id] \subseteq SentTo(id) \cup lost[id] \cup store
            /\ store \subseteq due[id] \ SentTo(id)

\* A message may be sent into the connection of a subscriber that is gone, instead of being
\* stored, until the poll has reported its end; no longer, although the datagram, the accept
\* and other ends are handled in the same round and change the tables.
EndsAreSeenInOneRound ==
    pc = "wait_for_ready_fds" /\ UdpOpen => ends \cap live = {}

\* A connection is sent the messages of the absence before it first, newest to oldest, and
\* then the later ones as they come: no live message overtakes the store (until the array
\* moves).
SessionOrder ==
    UdpOpen /\ blk = 0 => \A c \in live : \A m, n \in DOMAIN log[c] : m < n =>
        IF log[c][n] > since[c] THEN log[c][m] < log[c][n] ELSE log[c][m] > log[c][n]

\* The server calls the clients vector within the vector's contract: fresh descriptors,
\* messages stored only for absent subscribers with store-and-forward.
KeepsClientVecContract ==
    CV!Init /\ [][CV!Next \/ clients' = << >> \/ ~ UdpOpen]_clients

\* The one thread is in fgets, and the operator began a line and has not finished it.
AwaitsTheOperator == pc = "check_if_exit" /\ stdin = "part"

\* A datagram that reached the socket is taken from it, or the server ends, as long as
\* subscribers send their ID and read (Fairness): neither those that are gone nor the
\* entries that come and go in front of it keep the thread from it for ever.  A line that the
\* operator does not finish does, here and below.
DatagramsAreTaken ==
    \A n \in 1 .. MaxPublish :
        published >= n ~> published - Len(udpq) >= n \/ AwaitsTheOperator

\* A connection made is registered, rejected or left by its subscriber.
ConnectionsAreAnswered ==
    \A c \in Conns : InBacklog(c) ~> c \in live \/ ServerGone(c) \/ AwaitsTheOperator

\* The descriptor of a connection whose subscriber went away is closed in the end.
DeadConnectionsAreClosed ==
    \A c \in Conns : PeerGone(c) ~> ServerGone(c) \/ AwaitsTheOperator

\* A subscriber that stays connected gets everything it has a claim to, the messages of its
\* absence included, unless a send to it failed.
ClaimsAreSettled ==
    \A c \in Conns, n \in 1 .. MaxPublish :
        c \in live /\ n \in due[conn[c].id]
            ~> \/ c \notin live \/ n \in SentTo(conn[c].id) \cup lost[conn[c].id]
               \/ AwaitsTheOperator

-----------------------------------------------------------------------------
(* What the comments and the README say and the code does not do. *)

\* server_utils.c, retransmit_topics_to_client: "If the client closes its connection the
\* rest of the messages from the queue will wait for another reconnection."
TheRestWaits ==
    [][pc = "retransmit" => \A id \in Ids : lost'[id] \subseteq lost[id]]_vars

\* server_utils.c, transmit_topic_to_clients: "a pointer to the message will be stacked in
\* a local client queue and upon reconnection the message will be sent."
StoredMessagesAreSent ==
    \A c \in Conns : \A n \in DOMAIN log[c] : log[c][n] # Junk

\* README: "If the udp socket or listener socket closes this will cause the server to
\* terminate its process".
PollsTheUdpSocket ==
    pc = "wait_for_ready_fds" => UdpOpen

\* tcp_type.c, send_tcp_msg returns "TCP_FAILED_SEND_RECV if connection is closed": a send
\* to a subscriber that went away comes back.
SendsComeBack == pc # "killed"
=============================================================================
