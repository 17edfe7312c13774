------------------------- MODULE ServerTablesProofs -------------------------
(***************************************************************************)
(* The tables and the messages of the server for any number of             *)
(* subscribers, connections, descriptors and messages.  First the tables:  *)
(* the poll vector, the clients vector and the kernel's descriptors        *)
(* describe the same connections, the clients vector is called within its  *)
(* contract, and the end of a connection is handled in the round that      *)
(* reports it.  Then the messages: to whom each is sent, how often and in  *)
(* which order, and what the stores hold.                                  *)
(***************************************************************************)
EXTENDS ServerProofs, FiniteSetTheorems, FunctionTheorems

-----------------------------------------------------------------------------
(* As long as the server serves, it did so before. *)

Serving == UdpOpen /\ pc \notin Stopped

\* A server that stopped stays stopped.
LEMMA StoppedStays ==
    ASSUME ConnOK(conn), [Next]_vars, pc \in Stopped
    PROVE  pc' \in Stopped
<1>1. CASE Env \/ UNCHANGED vars
  <2>1. UNCHANGED pc
    BY <1>1, EnvFacts DEF vars, serverVars
  <2> QED BY <2>1
<1>2. CASE ServerStep
  <2>1. pc \in {"free_server", "done", "killed"}
    BY DEF Stopped
  <2>2. free_server
    BY <1>2, <2>1 DEF ServerStep, wait_for_ready_fds, poll_fails, check_if_exit, recv_udp_message,
       recv_udp_from_client, transmit_send, transmit_store, accept_client, recv_id,
       retransmit_send, retransmit_done, retransmit_dangling, send_killed, recv_command,
       recv_end, AtEntry, Now
  <2> QED BY <2>2 DEF free_server, Gone, Stopped
<1> QED BY <1>1, <1>2, StepCases

\* Nothing reopens the UDP socket.
LEMMA ServedBefore ==
    ASSUME SInv, Types, [Next]_vars, Serving'
    PROVE  Serving
<1>1. LoopTypes /\ ConnOK(conn)
  BY DEF Types, SInv
<1>2. UdpOpen' => UdpOpen
  BY <1>1, LoopStep DEF LoopGoesOn
<1> QED BY <1>1, <1>2, StoppedStays DEF Serving

\* What ends the server ends the service.
LEMMA NotServing ==
    ASSUME Serving', Fail \/ Gone("done") \/ Gone("killed")
    PROVE  FALSE
BY DEF Serving, Fail, Gone, Stopped

-----------------------------------------------------------------------------
(* The room in the stores: no slot holds more pointers than messages were received, and the *)
(* loop of transmit_topic_to_clients is at a slot that the message concerns.                *)

Chosen(s, t) == {s.options[j] : j \in {l \in DOMAIN s.topics : s.topics[l] = t}}

Concerns(s, t) == \/ s.status = "ACTIVE" /\ Chosen(s, t) # {}
                  \/ s.status = "DEAD"   /\ "SF" \in Chosen(s, t)

\* What the loop is at concerns the slot.
LEMMA ConcernedSlots ==
    ASSUME NEW n, NEW t
    PROVE  Concerned(n, t) = {i \in n .. Len(clients) : Concerns(clients[i], t)}
BY DEF Concerned, OptionOf, CV!TopicIndices, Concerns, Chosen

RoomOK ==
    pc \notin Stopped =>
        /\ \A i \in DOMAIN clients :
              /\ Len(clients[i].ready_msgs) <= Len(udp_msgs)
              /\ pc = "transmit" /\ i >= k => Len(clients[i].ready_msgs) < Len(udp_msgs)
        /\ pc = "transmit" => Concerns(clients[k], Last(udp_msgs))

\* The stores keep their sizes, and no message is transmitted.
LEMMA SameRoom ==
    ASSUME Types, RoomOK, CV!TypeOK', pc \notin Stopped, Len(udp_msgs') = Len(udp_msgs),
           pc' # "transmit",
           \A i \in DOMAIN clients' : \/ Len(clients'[i].ready_msgs) = 0
                                      \/ /\ i \in DOMAIN clients
                                         /\ Len(clients'[i].ready_msgs)
                                               <= Len(clients[i].ready_msgs)
    PROVE  RoomOK'
<1>1. /\ Len(udp_msgs) \in Nat
      /\ \A i \in DOMAIN clients : /\ Len(clients[i].ready_msgs) \in Nat
                                   /\ Len(clients[i].ready_msgs) <= Len(udp_msgs)
  BY SlotTypes, LenProperties DEF Types, DataTypes, ArrayTypes, SlotsOK, RoomOK
<1>2. \A i \in DOMAIN clients' : Len(clients'[i].ready_msgs) \in Nat
  BY SlotTypesNext DEF SlotFields
<1>3. \A i \in DOMAIN clients' : Len(clients'[i].ready_msgs) <= Len(udp_msgs')
  BY <1>1, <1>2
<1> QED BY <1>3 DEF RoomOK

\* The loop over the clients goes on behind the ones that have the message.
LEMMA RoomAhead ==
    ASSUME CV!TypeOK, CV!TypeOK', NEW n \in Nat, n > 0, NEW t, TransmitFrom(n, t),
           DOMAIN clients' = DOMAIN clients, Last(udp_msgs') = t,
           \A i \in DOMAIN clients : i >= n => clients'[i] = clients[i],
           \A i \in DOMAIN clients : Len(clients'[i].ready_msgs) <= Len(udp_msgs'),
           \A i \in DOMAIN clients :
              i >= n => Len(clients'[i].ready_msgs) < Len(udp_msgs')
    PROVE  RoomOK'
<1>1. Len(clients) \in Nat /\ DOMAIN clients = 1 .. Len(clients)
  BY SlotTypes
<1>2. CASE pc' = "transmit" /\ k' \in Concerned(n, t)
  <2>1. k' \in n .. Len(clients)
    BY <1>2, ConcernedSlots
  <2>2. k' \in DOMAIN clients /\ k' >= n
    BY <1>1, <2>1
  <2>3. clients'[k'] = clients[k'] /\ Concerns(clients[k'], t)
    BY <1>2, <2>2, ConcernedSlots
  <2>4. ASSUME NEW i \in DOMAIN clients, i >= k'
        PROVE  Len(clients'[i].ready_msgs) < Len(udp_msgs')
    BY <1>1, <2>1, <2>4
  <2> QED BY <1>2, <2>3, <2>4 DEF RoomOK
<1>3. CASE k' = 0 /\ ContinueAt(pfds, iter + 1)
  <2>1. pc' # "transmit"
    BY <1>3, LeadsOutside
  <2> QED BY <2>1 DEF RoomOK
<1> QED BY <1>2, <1>3 DEF TransmitFrom

\* A new message is the last one.
LEMMA LastAdded ==
    ASSUME DataTypes, NEW t, t \in Topics \cup {NoTopic}, udp_msgs' = Append(udp_msgs, t)
    PROVE  Len(udp_msgs) \in Nat /\ Len(udp_msgs') = Len(udp_msgs) + 1 /\ Last(udp_msgs') = t
<1>1. udp_msgs \in Seq(Topics \cup {NoTopic}) /\ Len(udp_msgs) \in Nat
  BY LenProperties DEF DataTypes, ArrayTypes
<1>2. Len(udp_msgs') = Len(udp_msgs) + 1 /\ udp_msgs'[Len(udp_msgs) + 1] = t
  BY <1>1, AppendProperties
<1> QED BY <1>1, <1>2 DEF Last

\* A message enters the array: every store has room for it.
LEMMA RoomForNew ==
    ASSUME Types, RoomOK, pc \notin Stopped, UNCHANGED clients,
           NEW t \in Topics \cup {NoTopic}, AddMessage(t)
    PROVE  RoomOK'
<1>1. udp_msgs' = Append(udp_msgs, t) /\ TransmitFrom(1, t)
  BY DEF AddMessage
<1>2. Len(udp_msgs) \in Nat /\ Len(udp_msgs') = Len(udp_msgs) + 1 /\ Last(udp_msgs') = t
  BY <1>1, LastAdded DEF Types
<1>3. CV!TypeOK /\ CV!TypeOK'
  BY DEF Types, SlotsOK, CV!TypeOK
<1>4. \A i \in DOMAIN clients : /\ Len(clients[i].ready_msgs) \in Nat
                                /\ Len(clients[i].ready_msgs) <= Len(udp_msgs)
  BY <1>3, SlotTypes DEF RoomOK
<1>5. \A i \in DOMAIN clients : Len(clients'[i].ready_msgs) < Len(udp_msgs')
  BY <1>2, <1>4
<1>6. \A i \in DOMAIN clients : Len(clients'[i].ready_msgs) <= Len(udp_msgs')
  BY <1>2, <1>4
<1> QED BY <1>1, <1>2, <1>3, <1>5, <1>6, RoomAhead

\* The loop over the clients goes on behind the one it is at.
LEMMA RoomOnward ==
    ASSUME Types, RoomOK, pc = "transmit", UNCHANGED udp_msgs,
           TransmitFrom(k + 1, Last(udp_msgs)), CV!TypeOK', DOMAIN clients' = DOMAIN clients,
           \A i \in DOMAIN clients : i # k => clients'[i] = clients[i],
           Len(clients'[k].ready_msgs) \in {Len(clients[k].ready_msgs),
                                            Len(clients[k].ready_msgs) + 1}
    PROVE  RoomOK'
<1>1. /\ CV!TypeOK /\ k \in Nat /\ k \in DOMAIN clients
      /\ Len(clients) \in Nat /\ DOMAIN clients = 1 .. Len(clients)
  BY SlotTypes DEF Types, SlotsOK
<1>2. Len(udp_msgs) \in Nat
  BY LenProperties DEF Types, DataTypes, ArrayTypes
<1>3. ASSUME NEW i \in DOMAIN clients
      PROVE  /\ Len(clients[i].ready_msgs) \in Nat
             /\ Len(clients[i].ready_msgs) <= Len(udp_msgs)
             /\ i >= k => Len(clients[i].ready_msgs) < Len(udp_msgs)
  BY <1>1, SlotTypes DEF RoomOK, Stopped
<1>4. Len(clients'[k].ready_msgs) <= Len(udp_msgs)
  <2>1. k >= k
    BY <1>1
  <2>2. Len(clients[k].ready_msgs) \in Nat /\ Len(clients[k].ready_msgs) < Len(udp_msgs)
    BY <1>1, <1>3, <2>1
  <2> QED BY <1>2, <2>2
<1>5. \A i \in DOMAIN clients : Len(clients'[i].ready_msgs) <= Len(udp_msgs')
  BY <1>3, <1>4
<1>6. \A i \in DOMAIN clients :
         i >= k + 1 => /\ clients'[i] = clients[i]
                       /\ Len(clients'[i].ready_msgs) < Len(udp_msgs')
  <2> TAKE i \in DOMAIN clients
  <2> HAVE i >= k + 1
  <2>1. i # k /\ i >= k
    BY <1>1
  <2> QED BY <1>3, <2>1
<1>7. k + 1 \in Nat /\ k + 1 > 0
  BY <1>1
<1> QED BY <1>1, <1>5, <1>6, <1>7, RoomAhead

\* The end of a retransmission shortens the store.
LEMMA EndShortens ==
    ASSUME CV!TypeOK, NEW i \in DOMAIN clients,
           NEW n \in 0 .. Len(clients[i].ready_msgs), CV!set_ready_msgs_len(i, n)
    PROVE  /\ CV!TypeOK' /\ DOMAIN clients' = DOMAIN clients
           /\ \A j \in DOMAIN clients' :
                 Len(clients'[j].ready_msgs) <= Len(clients[j].ready_msgs)
<1>1. /\ CV!TypeOK' /\ DOMAIN clients' = DOMAIN clients
      /\ Len(clients'[i].ready_msgs) = n
      /\ \A j \in DOMAIN clients : j # i => clients'[j] = clients[j]
  BY ShrinkFacts
<1>2. \A j \in DOMAIN clients : Len(clients[j].ready_msgs) \in Nat
  BY SlotTypes
<1>3. n <= Len(clients[i].ready_msgs)
  BY <1>2
<1>4. ASSUME NEW j \in DOMAIN clients
      PROVE  Len(clients'[j].ready_msgs) <= Len(clients[j].ready_msgs)
  <2>1. CASE j = i
    BY <1>1, <1>3, <2>1
  <2>2. CASE j # i
    BY <1>1, <1>2, <2>2
  <2> QED BY <2>1, <2>2
<1> QED BY <1>1, <1>4

\* Every step leaves room.
LEMMA RoomStep ==
    ASSUME SInv, Types, RoomOK, [Next]_vars
    PROVE  RoomOK'
<1> SUFFICES ASSUME pc' \notin Stopped PROVE RoomOK'
  BY DEF RoomOK
<1>1. CV!TypeOK /\ ConnOK(conn) /\ SlotsOK /\ DataTypes /\ Types'
  <2>1. Types'
    BY KnownIdsStep, LoopStep, DataStep, SlotsStep, HistoryStep DEF Types, SInv, LoopGoesOn
  <2> QED BY <2>1 DEF Types, SlotsOK, SInv
<1>2. CV!TypeOK' /\ pc \notin Stopped
  BY <1>1, StoppedStays DEF Types, SlotsOK
<1>3. ASSUME Fail \/ Gone("done") \/ Gone("killed") PROVE FALSE
  BY <1>3 DEF Fail, Gone, Stopped
<1>4. \A i \in DOMAIN clients : Len(clients[i].ready_msgs) \in Nat
  BY <1>1, SlotTypes
<1>5. ASSUME UNCHANGED udp_msgs, pc' # "transmit",
             \A i \in DOMAIN clients' : \/ Len(clients'[i].ready_msgs) = 0
                                        \/ /\ i \in DOMAIN clients
                                           /\ Len(clients'[i].ready_msgs)
                                                 <= Len(clients[i].ready_msgs)
      PROVE  RoomOK'
  BY <1>2, <1>5, SameRoom
<1>6. ASSUME UNCHANGED <<udp_msgs, clients>>, pc' # "transmit" PROVE RoomOK'
  BY <1>4, <1>5, <1>6
<1>7. CASE Env \/ UNCHANGED vars
  <2>1. UNCHANGED <<pc, k, clients, udp_msgs>>
    BY <1>1, <1>7, EnvFacts DEF vars, serverVars
  <2> QED BY <2>1 DEF RoomOK
<1>8. CASE wait_for_ready_fds \/ poll_fails \/ check_if_exit \/ accept_client
  <2>1. UNCHANGED <<udp_msgs, clients>> /\ pc' # "transmit"
    BY <1>3, <1>8, LeadsOutside DEF wait_for_ready_fds, poll_fails, check_if_exit, accept_client
  <2> QED BY <1>6, <2>1
<1>9. CASE recv_udp_message \/ recv_udp_from_client
  <2>1. UNCHANGED clients
    BY <1>9 DEF recv_udp_message, recv_udp_from_client
  <2>2. \/ \E t \in Topics \cup {NoTopic} : AddMessage(t)
        \/ DropEntry /\ UNCHANGED udp_msgs
    <3>1. CASE recv_udp_message
      <4>1. TopicsInBuf \subseteq Topics \cup {NoTopic}
        BY <1>1, <3>1, BufTypes DEF recv_udp_message
      <4> QED BY <1>3, <3>1, <4>1 DEF recv_udp_message, RefuseMessage
    <3>2. CASE recv_udp_from_client
      BY <1>3, <3>2 DEF recv_udp_from_client, RefuseMessage
    <3> QED BY <1>9, <3>1, <3>2
  <2>3. CASE DropEntry /\ UNCHANGED udp_msgs
    BY <1>6, <2>1, <2>3, LeadsOutside DEF DropEntry
  <2> QED BY <1>2, <2>1, <2>2, <2>3, RoomForNew
<1>10. CASE transmit_send
  <2>1. /\ pc = "transmit" /\ UNCHANGED <<udp_msgs, clients>>
        /\ TransmitFrom(k + 1, Last(udp_msgs))
    BY <1>10 DEF transmit_send, Now
  <2> QED BY <1>2, <2>1, RoomOnward
<1>11. CASE transmit_store
  <2>1. pc = "transmit" /\ UNCHANGED udp_msgs /\ k \in DOMAIN clients
    BY <1>1, <1>11 DEF transmit_store, Now, SlotsOK
  <2> DEFINE p == [blk |-> blk, msg |-> Len(udp_msgs)]
  <2>2. p \in Pointers
    BY <1>1, <2>1, MessageTypes DEF Pointers, DataTypes, ArrayTypes
  <2>3. CV!add_topic_msg_for_client(p, k, "OK") /\ TransmitFrom(k + 1, Last(udp_msgs))
    BY <1>3, <1>11 DEF transmit_store
  <2> HIDE DEF p
  <2>4. /\ DOMAIN clients' = DOMAIN clients
        /\ clients'[k].ready_msgs = Append(clients[k].ready_msgs, p)
        /\ \A j \in DOMAIN clients : j # k => clients'[j] = clients[j]
    BY <1>1, <2>1, <2>2, <2>3, StoreFacts
  <2>5. Len(clients'[k].ready_msgs) = Len(clients[k].ready_msgs) + 1
    <3>1. clients[k].ready_msgs \in Seq(Pointers)
      BY <1>1, <2>1, SlotTypes
    <3> QED BY <2>2, <2>4, <3>1, AppendProperties
  <2> QED BY <1>2, <2>1, <2>3, <2>4, <2>5, RoomOnward
<1>12. CASE recv_id
  <2>1. pc = "recv_id" /\ newFd # NoFd /\ UNCHANGED udp_msgs /\ pc' # "transmit"
    BY <1>3, <1>12, EntryOfNew, LeadsOutside DEF recv_id, Now
  <2>2. PICK c \in ConnsOf(newFd), result \in CV!Results :
          CV!register_new_client(conn[c].id, newFd, result)
    BY <1>3, <1>12 DEF recv_id
  <2>3. newFd \in Fds /\ conn[c].id \in Ids
    BY <2>1, <2>2, ConnOfHandler DEF Types
  <2>4. CASE result # "OK"
    BY <1>6, <2>1, <2>2, <2>4, RefusedFacts
  <2>5. CASE result = "OK"
    <3>1. \/ \E i \in DOMAIN clients :
                /\ DOMAIN clients' = DOMAIN clients
                /\ clients'[i].ready_msgs = clients[i].ready_msgs
                /\ \A j \in DOMAIN clients : j # i => clients'[j] = clients[j]
          \/ /\ \A j \in DOMAIN clients : clients'[j] = clients[j]
             /\ DOMAIN clients' = 1 .. Len(clients) + 1
             /\ clients'[Len(clients) + 1] = CV!NewSlot(conn[c].id, newFd)
      BY <1>1, <2>2, <2>3, <2>5, RegisterFacts
    <3>2. CASE \E i \in DOMAIN clients :
                 /\ DOMAIN clients' = DOMAIN clients
                 /\ clients'[i].ready_msgs = clients[i].ready_msgs
                 /\ \A j \in DOMAIN clients : j # i => clients'[j] = clients[j]
      <4>1. \A j \in DOMAIN clients' : /\ j \in DOMAIN clients
                                       /\ clients'[j].ready_msgs = clients[j].ready_msgs
        BY <3>2
      <4> QED BY <1>4, <1>5, <2>1, <4>1
    <3>3. CASE /\ \A j \in DOMAIN clients : clients'[j] = clients[j]
               /\ DOMAIN clients' = 1 .. Len(clients) + 1
               /\ clients'[Len(clients) + 1] = CV!NewSlot(conn[c].id, newFd)
      <4>1. Len(clients) \in Nat /\ DOMAIN clients = 1 .. Len(clients)
        BY <1>1, SlotTypes
      <4>2. Len(CV!NewSlot(conn[c].id, newFd).ready_msgs) = 0
        BY EmptySeq DEF CV!NewSlot
      <4>3. ASSUME NEW j \in DOMAIN clients'
            PROVE  \/ Len(clients'[j].ready_msgs) = 0
                   \/ /\ j \in DOMAIN clients
                      /\ Len(clients'[j].ready_msgs) <= Len(clients[j].ready_msgs)
        <5>1. j \in DOMAIN clients \/ j = Len(clients) + 1
          BY <3>3, <4>1
        <5>2. CASE j \in DOMAIN clients
          BY <1>4, <3>3, <5>2
        <5> QED BY <3>3, <4>2, <5>1, <5>2
      <4> QED BY <1>5, <2>1, <4>3
    <3> QED BY <3>1, <3>2, <3>3
  <2> QED BY <2>4, <2>5
<1>13. ASSUME UNCHANGED udp_msgs, pc' # "transmit", NEW i \in DOMAIN clients,
              NEW n \in 0 .. Len(clients[i].ready_msgs), CV!set_ready_msgs_len(i, n)
       PROVE  RoomOK'
  BY <1>1, <1>5, <1>13, EndShortens
<1>14. CASE retransmit_send \/ retransmit_done
  <2>1. /\ UNCHANGED udp_msgs
        /\ \/ UNCHANGED <<pc, clients>> /\ pc # "transmit"
           \/ \E i \in DOMAIN clients : EndRetransmit(i)
    BY <1>14 DEF retransmit_send, retransmit_done, Now
  <2>2. ASSUME NEW i \in DOMAIN clients, EndRetransmit(i) PROVE RoomOK'
    <3>1. 0 \in 0 .. Len(clients[i].ready_msgs) /\ pc' # "transmit"
      BY <1>4, <2>2, LeadsOutside DEF EndRetransmit
    <3> QED BY <1>13, <2>1, <2>2, <3>1 DEF EndRetransmit
  <2> QED BY <1>6, <2>1, <2>2
<1>15. CASE retransmit_dangling
  <2>1. PICK i \in DOMAIN clients :
          /\ CV!IsFirst(i, CV!SlotsOfFd(newFd))
          /\ CV!set_ready_msgs_len(i, k) /\ ContinueAt(pfds, iter + 1) /\ UNCHANGED udp_msgs
    BY <1>3, <1>15 DEF retransmit_dangling
  <2>2. k \in 0 .. Len(clients[i].ready_msgs)
    BY <1>1, <1>4, <1>15, <2>1 DEF retransmit_dangling, Now, SlotsOK
  <2> QED BY <1>13, <2>1, <2>2, LeadsOutside
<1>16. CASE recv_command
  <2>1. UNCHANGED udp_msgs /\ pc' # "transmit"
    BY <1>16, LeadsOutside DEF recv_command
  <2>2. \A i \in DOMAIN clients' : /\ i \in DOMAIN clients
                                   /\ clients'[i].ready_msgs = clients[i].ready_msgs
    BY <1>1, <1>16, CommandFacts DEF SameSession, Types
  <2> QED BY <1>4, <1>5, <2>1, <2>2
<1>17. CASE recv_end
  <2>1. /\ UNCHANGED udp_msgs /\ pc' # "transmit"
        /\ \E result \in CV!Results : CV!close_active_client(pfds[iter].fd, result)
    BY <1>17, LeadsOutside DEF recv_end, DropEntry
  <2>2. \/ UNCHANGED clients
        \/ \E i \in DOMAIN clients :
              /\ DOMAIN clients' = DOMAIN clients
              /\ clients'[i].ready_msgs = clients[i].ready_msgs
              /\ \A j \in DOMAIN clients : j # i => clients'[j] = clients[j]
    BY <1>1, <2>1, DisconnectFacts
  <2>3. \A i \in DOMAIN clients' : /\ i \in DOMAIN clients
                                   /\ clients'[i].ready_msgs = clients[i].ready_msgs
    BY <2>2
  <2> QED BY <1>4, <1>5, <2>1, <2>3
<1>18. CASE free_server \/ send_killed
  BY <1>3, <1>18 DEF free_server, send_killed
<1> QED BY <1>7, <1>8, <1>9, <1>10, <1>11, <1>12, <1>14, <1>15, <1>16, <1>17, <1>18,
           StepCases DEF ServerStep

-----------------------------------------------------------------------------
(***************************************************************************)
(* The tables of the connections.  A connection has its descriptor alone   *)
(* and is polled; it has a registered ID unless its handler still waits    *)
(* for it; and the ACTIVE slots are the registered connections.            *)
(***************************************************************************)
Pending(c) == pc = "recv_id" /\ conn[c].fd = newFd

FdLaw ==
    /\ \A c \in Conns : c \in live <=> conn[c].fd # NoFd /\ ~ Pending(c)
    /\ \A c, d \in Conns : conn[c].fd = conn[d].fd /\ conn[c].fd # NoFd => c = d
    /\ \A c \in Conns : conn[c].fd # UDP
    /\ \A c \in Conns : conn[c].fd # NoFd => \E n \in DOMAIN pfds : pfds[n].fd = conn[c].fd

SlotOfConn(s, c) == conn[c].id = s.id /\ conn[c].fd = s.fd

SlotLaw ==
    /\ CV!OneSlotPerId
    /\ \A i \in DOMAIN clients : clients[i].fd = NoFd <=> clients[i].status = "DEAD"
    /\ \A i \in DOMAIN clients :
          clients[i].status = "ACTIVE" => \E c \in live : SlotOfConn(clients[i], c)
    /\ \A c \in live : \E i \in DOMAIN clients : SlotOfConn(clients[i], c)

\* The subscriptions of the slots are the wishes of their subscribers.
WishLaw ==
    /\ \A i \in DOMAIN clients : Distinct(clients[i].topics)
    /\ \A i \in DOMAIN clients : \A j \in DOMAIN clients[i].topics :
          clients[i].options[j] = want[clients[i].id][clients[i].topics[j]]
    /\ \A id \in Ids, t \in Topics : want[id][t] # "none" =>
          \E i \in DOMAIN clients :
              clients[i].id = id /\ \E j \in DOMAIN clients[i].topics : clients[i].topics[j] = t

Tables == Serving => FdLaw /\ SlotLaw /\ WishLaw

\* No two slots have the same descriptor.
LEMMA OneSlotPerFd ==
    ASSUME FdLaw, SlotLaw, CV!TypeOK,
           NEW i \in DOMAIN clients, NEW j \in DOMAIN clients,
           clients[i].fd = clients[j].fd, clients[i].fd # NoFd
    PROVE  i = j
<1>1. clients[i].status = "ACTIVE" /\ clients[j].status = "ACTIVE"
  BY SlotTypes DEF SlotLaw
<1>2. PICK c \in live : SlotOfConn(clients[i], c)
  BY <1>1 DEF SlotLaw
<1>3. PICK d \in live : SlotOfConn(clients[j], d)
  BY <1>1 DEF SlotLaw
<1>4. c \in Conns /\ d \in Conns /\ conn[c].fd = conn[d].fd /\ conn[c].fd # NoFd
  BY <1>2, <1>3 DEF SlotOfConn, live
<1>5. c = d
  BY <1>4 DEF FdLaw
<1> QED BY <1>2, <1>3, <1>5 DEF SlotOfConn, SlotLaw, CV!OneSlotPerId

\* The connections keep their descriptors and stay polled.
Listed(v, w) == \A n \in DOMAIN v : \E m \in DOMAIN w : w[m].fd = v[n].fd

SameLinks ==
    /\ \A c \in Conns : conn'[c].fd = conn[c].fd
                        /\ (conn[c].fd # NoFd => conn'[c].id = conn[c].id)
    /\ since' = since
    /\ Listed(pfds, pfds')
    /\ \A c \in Conns : conn[c].fd # NoFd => (Pending(c)' <=> Pending(c))

SameOwners ==
    /\ DOMAIN clients' = DOMAIN clients
    /\ \A i \in DOMAIN clients : /\ clients'[i].id = clients[i].id
                                 /\ clients'[i].status = clients[i].status
                                 /\ clients'[i].fd = clients[i].fd

SameWishes ==
    /\ DOMAIN clients' = DOMAIN clients
    /\ \A i \in DOMAIN clients : SameSubscriptions(clients[i], clients'[i])
    /\ want' = want

\* Then the tables of the connections hold as before ...
LEMMA LinksKeepFds ==
    ASSUME FdLaw, SameLinks
    PROVE  FdLaw' /\ live' = live
<1>1. live' = live
  BY DEF SameLinks, live
<1>2. \A c \in Conns : c \in live' <=> conn'[c].fd # NoFd /\ ~ Pending(c)'
  BY <1>1 DEF SameLinks, FdLaw
<1>3. \A c, d \in Conns : conn'[c].fd = conn'[d].fd /\ conn'[c].fd # NoFd => c = d
  BY DEF SameLinks, FdLaw
<1>4. \A c \in Conns : conn'[c].fd # UDP
  BY DEF SameLinks, FdLaw
<1>5. \A c \in Conns : conn'[c].fd # NoFd => \E n \in DOMAIN pfds' : pfds'[n].fd = conn'[c].fd
  <2> TAKE c \in Conns
  <2> HAVE conn'[c].fd # NoFd
  <2>1. conn[c].fd # NoFd /\ conn'[c].fd = conn[c].fd
    BY DEF SameLinks
  <2>2. PICK n \in DOMAIN pfds : pfds[n].fd = conn[c].fd
    BY <2>1 DEF FdLaw
  <2> QED BY <2>1, <2>2 DEF SameLinks, Listed
<1> QED BY <1>1, <1>2, <1>3, <1>4, <1>5 DEF FdLaw

\* ... so do the slots that keep their owners, if these stay registered ...
LEMMA OwnersKeepSlots ==
    ASSUME SlotLaw, SameOwners, live' = live,
           \A c \in live : conn'[c].fd = conn[c].fd /\ conn'[c].id = conn[c].id
    PROVE  SlotLaw'
<1>1. \A c \in live, i \in DOMAIN clients :
         SlotOfConn(clients[i], c) => SlotOfConn(clients[i], c)'
  BY DEF SlotOfConn, SameOwners
<1>2. CV!OneSlotPerId'
  BY DEF SlotLaw, SameOwners, CV!OneSlotPerId
<1>3. \A i \in DOMAIN clients' : clients'[i].fd = NoFd <=> clients'[i].status = "DEAD"
  BY DEF SlotLaw, SameOwners
<1>4. \A i \in DOMAIN clients' :
         clients'[i].status = "ACTIVE" => \E c \in live' : SlotOfConn(clients[i], c)'
  BY <1>1 DEF SlotLaw, SameOwners
<1>5. \A c \in live' : \E i \in DOMAIN clients' : SlotOfConn(clients[i], c)'
  BY <1>1 DEF SlotLaw, SameOwners
<1> QED BY <1>2, <1>3, <1>4, <1>5 DEF SlotLaw

\* ... as they do when the connections keep their descriptors ...
LEMMA LinksKeepSlots ==
    ASSUME FdLaw, SlotLaw, SameLinks, SameOwners
    PROVE  SlotLaw'
<1>1. \A c \in live : conn'[c].fd = conn[c].fd /\ conn'[c].id = conn[c].id
  BY DEF SameLinks, FdLaw, live
<1> QED BY <1>1, LinksKeepFds, OwnersKeepSlots

\* ... and the subscriptions nobody changed.
LEMMA SameWishLaw ==
    ASSUME WishLaw, SameWishes
    PROVE  WishLaw'
<1>1. \A i \in DOMAIN clients' : Distinct(clients'[i].topics)
  BY DEF WishLaw, SameWishes, SameSubscriptions
<1>2. \A i \in DOMAIN clients' : \A j \in DOMAIN clients'[i].topics :
         clients'[i].options[j] = want'[clients'[i].id][clients'[i].topics[j]]
  BY DEF WishLaw, SameWishes, SameSubscriptions
<1>3. ASSUME NEW id \in Ids, NEW t \in Topics, want'[id][t] # "none"
      PROVE  \E i \in DOMAIN clients' :
                /\ clients'[i].id = id
                /\ \E j \in DOMAIN clients'[i].topics : clients'[i].topics[j] = t
  <2>1. PICK i \in DOMAIN clients :
          clients[i].id = id /\ \E j \in DOMAIN clients[i].topics : clients[i].topics[j] = t
    BY <1>3 DEF WishLaw, SameWishes
  <2> QED BY <2>1 DEF SameWishes, SameSubscriptions
<1> QED BY <1>1, <1>2, <1>3 DEF WishLaw

-----------------------------------------------------------------------------
(* The steps that leave the tables alone. *)

\* The thread is not, and does not get, into the handler of a new connection.
LEMMA LinksOutside ==
    ASSUME pc # "recv_id", pc' # "recv_id", UNCHANGED since, Listed(pfds, pfds'),
           \A c \in Conns : conn'[c].fd = conn[c].fd /\ conn'[c].id = conn[c].id
    PROVE  SameLinks
BY DEF SameLinks, Pending

\* The loop goes on over the same entries.
LEMMA LoopLists ==
    ASSUME pfds \in Seq(Entries), NEW n \in Nat, n > 1,
           ContinueAt(pfds, n) \/ \E m, t : TransmitFrom(m, t) /\ n = iter + 1
    PROVE  Listed(pfds, pfds') /\ pc' # "recv_id"
<1>1. CASE ContinueAt(pfds, n)
  <2>1. SameEntries(pfds, pfds')
    BY <1>1, Continues
  <2> QED BY <1>1, <2>1 DEF SameEntries, Listed, ContinueAt
<1>2. CASE pc' = "transmit" /\ UNCHANGED pfds
  BY <1>2 DEF Listed
<1> QED BY <1>1, <1>2 DEF TransmitFrom

\* The poll reports on the same entries.
LEMMA PollLists ==
    ASSUME LoopTypes, wait_for_ready_fds
    PROVE  Listed(pfds, pfds') /\ pc' # "recv_id"
<1> DEFINE w == [n \in DOMAIN pfds |-> Entry(pfds[n].fd, ReadableFd(pfds[n].fd))]
<1>1. Shape(pfds)
  BY DEF wait_for_ready_fds, Now, LoopTypes
<1>2. /\ Len(pfds) \in Nat /\ DOMAIN pfds = 1 .. Len(pfds)
      /\ \A n \in DOMAIN pfds : pfds[n] \in Entries
  BY <1>1, VecTypes DEF Shape
<1>3. \A n \in DOMAIN pfds : Entry(pfds[n].fd, ReadableFd(pfds[n].fd)) \in Entries
  <2>1. \A fd : ReadableFd(fd) \in BOOLEAN
    BY DEF ReadableFd
  <2> QED BY <1>2, <2>1, EntryTypes DEF Entry, Entries
<1>4. w \in [1 .. Len(pfds) -> Entries] /\ DOMAIN w = DOMAIN pfds
  BY <1>2, <1>3
<1>5. \A n \in DOMAIN pfds : w[n].fd = pfds[n].fd
  BY DEF Entry
<1>6. (pc' = "check_if_exit" /\ pfds' = w) \/ ContinueAt(w, 2)
  BY DEF wait_for_ready_fds
<1> HIDE DEF w
<1>7. w \in Seq(Entries)
  BY <1>2, <1>4, SeqDef
<1>8. CASE ContinueAt(w, 2)
  <2>1. SameEntries(w, pfds')
    BY <1>7, <1>8, Continues
  <2> QED BY <1>4, <1>5, <1>8, <2>1 DEF SameEntries, Listed, ContinueAt
<1>9. CASE pc' = "check_if_exit" /\ pfds' = w
  BY <1>4, <1>5, <1>9 DEF Listed
<1> QED BY <1>6, <1>8, <1>9

\* The entries behind a removed one move down, and none is lost.
LEMMA DropLists ==
    ASSUME NEW v \in Seq(Entries), NEW p \in DOMAIN v, NEW n \in DOMAIN v, n # p,
           NEW w, SameEntries(RemoveAt(v, p), w)
    PROVE  \E m \in DOMAIN w : w[m].fd = v[n].fd
<1>1. Len(v) \in Nat /\ DOMAIN v = 1 .. Len(v)
  BY VecTypes
<1> DEFINE r == RemoveAt(v, p)
           m == IF n < p THEN n ELSE n - 1
<1>2. r \in Seq(Entries) /\ Len(r) = Len(v) - 1
      /\ \A l \in 1 .. Len(v) - 1 : r[l] = IF l < p THEN v[l] ELSE v[l + 1]
  BY RemoveAtProperties
<1>3. m \in 1 .. Len(v) - 1 /\ (IF m < p THEN m ELSE m + 1) = n
  BY <1>1
<1> HIDE DEF m
<1>4. r[m] = v[n]
  BY <1>2, <1>3
<1>5. SameEntries(r, w)
  OBVIOUS
<1> HIDE DEF r
<1>6. m \in DOMAIN r
  BY <1>1, <1>2, <1>3, VecTypes
<1>7. m \in DOMAIN w /\ w[m].fd = r[m].fd
  BY <1>5, <1>6 DEF SameEntries
<1> QED BY <1>4, <1>7

\* The steps outside the handlers of a client and of the listener.
Quiet ==
    \/ Env \/ UNCHANGED vars
    \/ wait_for_ready_fds \/ check_if_exit \/ recv_udp_message
    \/ transmit_send \/ transmit_store
    \/ retransmit_send \/ retransmit_done \/ retransmit_dangling

\* A handler is in the round.
LEMMA AtWorkFacts ==
    ASSUME SInv, Types, pc \in AtWork
    PROVE  pfds \in Seq(Entries) /\ iter + 1 \in Nat /\ iter + 1 > 1
<1>1. Shape(pfds) /\ iter \in 0 .. Len(pfds) /\ iter > 1
  BY DEF Types, LoopTypes, AtWork
<1>2. Len(pfds) \in Nat
  BY <1>1, VecTypes DEF Shape
<1> QED BY <1>1, <1>2 DEF Shape

\* A datagram that was empty ends the service.
LEMMA EmptyEnds ==
    ASSUME SInv, Types, Serving, Serving', pc = "process_ready_fds", pfds[iter].fd = UDP,
           DropEntry
    PROVE  FALSE
<1>1. iter \in 2 .. Len(pfds)
  BY EntryOfHandler
<1>2. pfds[2].fd = UDP /\ 2 \in DOMAIN pfds /\ iter \in DOMAIN pfds
  BY <1>1, VecTypes DEF Serving, UdpOpen, Types, LoopTypes, Shape
<1>3. iter = 2
  BY <1>2 DEF SInv, RoundOK, InRound, VecOK
<1>4. pfds[iter].fd # LISTENER
  BY FdsAreNumbers
<1>5. UdpOpen' => iter # 2
  BY <1>1, <1>4, DropsOn DEF DropEntry, poll_vec_remove_fd, AtWork, Types
<1> QED BY <1>3, <1>5 DEF Serving

\* They keep the connections and their entries ...
LEMMA QuietLinks ==
    ASSUME SInv, Types, Serving, Serving', Quiet
    PROVE  SameLinks
<1>1. ConnOK(conn) /\ LoopTypes
  BY DEF SInv, Types
<1>2. CASE Env \/ UNCHANGED vars
  <2>1. UNCHANGED <<pc, pfds, since>>
    BY <1>1, <1>2, EnvFacts DEF vars, serverVars, history
  <2>2. \A c \in Conns : conn'[c].fd = conn[c].fd
                         /\ (conn[c].fd # NoFd => conn'[c].id = conn[c].id)
    <3>1. CASE Env
      BY <1>1, <3>1, EnvFacts, FdTypes DEF OldConns
    <3>2. CASE UNCHANGED vars
      BY <3>2 DEF vars, netVars
    <3> QED BY <1>2, <3>1, <3>2
  <2> QED BY <2>1, <2>2 DEF SameLinks, Listed, Pending, newFd
<1>3. ASSUME pc # "recv_id", pc' # "recv_id", UNCHANGED <<conn, since>>, Listed(pfds, pfds')
      PROVE  SameLinks
  BY <1>3, LinksOutside
<1>4. ASSUME Fail \/ Gone("done") \/ Gone("killed") PROVE FALSE
  BY <1>4, NotServing
<1>5. CASE wait_for_ready_fds
  <2>1. pc # "recv_id" /\ UNCHANGED <<conn, since>>
    BY <1>5 DEF wait_for_ready_fds, Now, netVars
  <2> QED BY <1>1, <1>3, <1>5, <2>1, PollLists
<1>6. CASE check_if_exit
  <2>1. pc # "recv_id" /\ UNCHANGED <<conn, since>> /\ ContinueAt(pfds, 2)
    BY <1>4, <1>6 DEF check_if_exit, Now, history
  <2>2. pfds \in Seq(Entries)
    BY <1>1, <1>6 DEF LoopTypes, Shape, check_if_exit, Now
  <2> QED BY <1>3, <2>1, <2>2, LoopLists
<1>7. CASE recv_udp_message
  <2>1. pc = "process_ready_fds" /\ pfds[iter].fd = UDP /\ UNCHANGED <<conn, since>>
    BY <1>7 DEF recv_udp_message, AtEntry, Now
  <2>2. \E t : TransmitFrom(1, t)
    BY <1>4, <1>7, <2>1, EmptyEnds DEF recv_udp_message, AddMessage, RefuseMessage
  <2>3. pfds \in Seq(Entries) /\ iter + 1 \in Nat /\ iter + 1 > 1
    BY <2>1, AtWorkFacts DEF AtWork
  <2> QED BY <1>3, <2>1, <2>2, <2>3, LoopLists
<1>8. CASE transmit_send
  <2>1. /\ pc = "transmit" /\ UNCHANGED since /\ TransmitFrom(k + 1, Last(udp_msgs))
        /\ \E result : send_tcp_msg(clients[k].fd, result)
    BY <1>8 DEF transmit_send, Now
  <2>2. pfds \in Seq(Entries) /\ iter + 1 \in Nat /\ iter + 1 > 1
    BY <2>1, AtWorkFacts DEF AtWork
  <2>3. \A c \in Conns : conn'[c].fd = conn[c].fd /\ conn'[c].id = conn[c].id
    BY <1>1, <2>1, SendFacts DEF SameSubscriber
  <2> QED BY <2>1, <2>2, <2>3, LoopLists, LinksOutside
<1>9. CASE transmit_store
  <2>1. /\ pc = "transmit" /\ UNCHANGED <<conn, since>>
        /\ TransmitFrom(k + 1, Last(udp_msgs))
    BY <1>4, <1>9 DEF transmit_store, Now, netVars, history
  <2>2. pfds \in Seq(Entries) /\ iter + 1 \in Nat /\ iter + 1 > 1
    BY <2>1, AtWorkFacts DEF AtWork
  <2> QED BY <1>3, <2>1, <2>2, LoopLists
<1>10. CASE retransmit_send
  <2>1. /\ pc = "retransmit" /\ UNCHANGED since
        /\ \E result : send_tcp_msg(newFd, result)
        /\ UNCHANGED <<pc, pfds>> \/ ContinueAt(pfds, iter + 1)
    BY <1>10 DEF retransmit_send, Now, EndRetransmit
  <2>2. pfds \in Seq(Entries) /\ iter + 1 \in Nat /\ iter + 1 > 1
    BY <2>1, AtWorkFacts DEF AtWork
  <2>3. \A c \in Conns : conn'[c].fd = conn[c].fd /\ conn'[c].id = conn[c].id
    BY <1>1, <2>1, SendFacts DEF SameSubscriber
  <2>4. Listed(pfds, pfds') /\ pc' # "recv_id"
    <3>1. CASE UNCHANGED <<pc, pfds>>
      BY <2>1, <3>1 DEF Listed
    <3> QED BY <2>1, <2>2, <3>1, LoopLists
  <2> QED BY <2>1, <2>3, <2>4, LinksOutside
<1>11. CASE retransmit_done \/ retransmit_dangling
  <2>1. /\ pc = "retransmit" /\ UNCHANGED <<conn, since>> /\ ContinueAt(pfds, iter + 1)
    BY <1>4, <1>11 DEF retransmit_done, retransmit_dangling, Now, EndRetransmit, netVars, history
  <2>2. pfds \in Seq(Entries) /\ iter + 1 \in Nat /\ iter + 1 > 1
    BY <2>1, AtWorkFacts DEF AtWork
  <2> QED BY <1>3, <2>1, <2>2, LoopLists
<1> QED BY <1>2, <1>5, <1>6, <1>7, <1>8, <1>9, <1>10, <1>11 DEF Quiet

\* ... and the slots and the subscriptions.
LEMMA QuietSlots ==
    ASSUME SInv, Types, Serving', Quiet
    PROVE  SameOwners /\ SameWishes
<1>1. ASSUME UNCHANGED <<clients, want>> PROVE SameOwners /\ SameWishes
  BY <1>1 DEF SameOwners, SameWishes, SameSubscriptions
<1>2. ASSUME UNCHANGED want, NEW i \in DOMAIN clients, DOMAIN clients' = DOMAIN clients,
             clients'[i].id = clients[i].id, clients'[i].status = clients[i].status,
             clients'[i].fd = clients[i].fd, SameSubscriptions(clients[i], clients'[i]),
             \A j \in DOMAIN clients : j # i => clients'[j] = clients[j]
      PROVE  SameOwners /\ SameWishes
  <2>1. \A j \in DOMAIN clients : /\ clients'[j].id = clients[j].id
                                  /\ clients'[j].status = clients[j].status
                                  /\ clients'[j].fd = clients[j].fd
                                  /\ SameSubscriptions(clients[j], clients'[j])
    BY <1>2 DEF SameSubscriptions
  <2> QED BY <1>2, <2>1 DEF SameOwners, SameWishes
<1>3. CV!TypeOK /\ ConnOK(conn)
  BY DEF Types, SlotsOK, SInv
<1>4. ASSUME Fail \/ Gone("done") \/ Gone("killed") PROVE FALSE
  BY <1>4, NotServing
<1>5. CASE Env \/ UNCHANGED vars
  <2>1. UNCHANGED <<clients, want>>
    BY <1>3, <1>5, EnvFacts DEF vars, serverVars, history
  <2> QED BY <1>1, <2>1
<1>6. CASE wait_for_ready_fds \/ check_if_exit \/ recv_udp_message \/ transmit_send
  <2>1. UNCHANGED <<clients, want>>
    BY <1>6 DEF wait_for_ready_fds, check_if_exit, recv_udp_message, transmit_send, history
  <2> QED BY <1>1, <2>1
<1>7. CASE transmit_store
  <2>1. pc = "transmit" /\ UNCHANGED want /\ k \in DOMAIN clients
    BY <1>7 DEF transmit_store, Now, Types, SlotsOK, history
  <2> DEFINE p == [blk |-> blk, msg |-> Len(udp_msgs)]
  <2>2. p \in Pointers
    BY <2>1, MessageTypes DEF Pointers, Types, DataTypes, ArrayTypes
  <2>3. CV!add_topic_msg_for_client(p, k, "OK")
    BY <1>4, <1>7 DEF transmit_store
  <2> HIDE DEF p
  <2>4. /\ DOMAIN clients' = DOMAIN clients
        /\ clients'[k].id = clients[k].id /\ clients'[k].status = clients[k].status
        /\ clients'[k].fd = clients[k].fd
        /\ SameSubscriptions(clients[k], clients'[k])
        /\ \A j \in DOMAIN clients : j # k => clients'[j] = clients[j]
    BY <1>3, <2>1, <2>2, <2>3, StoreFacts
  <2> QED BY <1>2, <2>1, <2>4
<1>8. ASSUME UNCHANGED want, NEW i \in DOMAIN clients,
             NEW n \in 0 .. Len(clients[i].ready_msgs), CV!set_ready_msgs_len(i, n)
      PROVE  SameOwners /\ SameWishes
  BY <1>2, <1>3, <1>8, ShrinkFacts
<1>9. CASE retransmit_send \/ retransmit_done \/ retransmit_dangling
  <2>1. pc = "retransmit" /\ UNCHANGED want
    BY <1>4, <1>9 DEF retransmit_send, retransmit_done, retransmit_dangling, Now, history
  <2>2. \/ UNCHANGED clients
        \/ \E i \in DOMAIN clients : CV!set_ready_msgs_len(i, 0)
        \/ \E i \in DOMAIN clients :
              CV!IsFirst(i, CV!SlotsOfFd(newFd)) /\ CV!set_ready_msgs_len(i, k)
    BY <1>4, <1>9 DEF retransmit_send, retransmit_done, retransmit_dangling, EndRetransmit
  <2>3. CASE UNCHANGED clients
    BY <1>1, <2>1, <2>3
  <2>4. CASE \E i \in DOMAIN clients : CV!set_ready_msgs_len(i, 0)
    <3>1. PICK i \in DOMAIN clients : CV!set_ready_msgs_len(i, 0)
      BY <2>4
    <3>2. 0 \in 0 .. Len(clients[i].ready_msgs)
      BY <1>3, SlotTypes
    <3> QED BY <1>8, <2>1, <3>1, <3>2
  <2>5. CASE \E i \in DOMAIN clients :
                CV!IsFirst(i, CV!SlotsOfFd(newFd)) /\ CV!set_ready_msgs_len(i, k)
    <3>1. PICK i \in DOMAIN clients :
            CV!IsFirst(i, CV!SlotsOfFd(newFd)) /\ CV!set_ready_msgs_len(i, k)
      BY <2>5
    <3>2. k \in 0 .. Len(clients[i].ready_msgs)
      BY <1>3, <2>1, <3>1, SlotTypes DEF Types, SlotsOK
    <3> QED BY <1>8, <2>1, <3>1, <3>2
  <2> QED BY <2>2, <2>3, <2>4, <2>5
<1> QED BY <1>5, <1>6, <1>7, <1>9 DEF Quiet

\* So the tables hold after them.
LEMMA QuietTables ==
    ASSUME SInv, Types, Serving, Serving', Tables, Quiet
    PROVE  FdLaw' /\ SlotLaw' /\ WishLaw'
BY QuietLinks, QuietSlots, LinksKeepFds, LinksKeepSlots, SameWishLaw DEF Tables

-----------------------------------------------------------------------------
(* A client's command. *)

\* The slot of the connection a handler is called for.
LEMMA SlotOfHandler ==
    ASSUME FdLaw, SlotLaw, CV!TypeOK, pc # "recv_id", NEW f, f # NoFd, NEW c \in ConnsOf(f)
    PROVE  /\ c \in live /\ \A d \in ConnsOf(f) : d = c
           /\ \E i \in DOMAIN clients :
                 /\ SlotOfConn(clients[i], c) /\ clients[i].fd = f
                 /\ clients[i].status = "ACTIVE"
                 /\ \A j \in DOMAIN clients : clients[j].fd = f => j = i
<1>1. c \in Conns /\ conn[c].fd = f
  BY DEF ConnsOf
<1>2. c \in live
  BY <1>1 DEF FdLaw, Pending
<1>3. \A d \in ConnsOf(f) : d = c
  BY <1>1 DEF FdLaw, ConnsOf
<1>4. PICK i \in DOMAIN clients : SlotOfConn(clients[i], c)
  BY <1>2 DEF SlotLaw
<1>5. clients[i].fd = f
  BY <1>1, <1>4 DEF SlotOfConn
<1>6. clients[i].status = "ACTIVE"
  BY <1>5, SlotTypes DEF SlotLaw
<1>7. \A j \in DOMAIN clients : clients[j].fd = f => j = i
  BY <1>5, OneSlotPerFd
<1> QED BY <1>2, <1>3, <1>4, <1>5, <1>6, <1>7

\* The subscriptions of one slot change as its subscriber asked.
LEMMA SlotWishes ==
    ASSUME WishLaw, CV!OneSlotPerId, CV!TypeOK, want \in Wishes,
           NEW i \in DOMAIN clients, NEW t \in Topics, NEW o,
           want' = [want EXCEPT ![clients[i].id][t] = o],
           DOMAIN clients' = DOMAIN clients, clients'[i].id = clients[i].id,
           \A j \in DOMAIN clients : j # i => clients'[j] = clients[j],
           Distinct(clients'[i].topics),
           \A j \in DOMAIN clients'[i].topics :
              clients'[i].options[j] = want'[clients[i].id][clients'[i].topics[j]],
           \A u \in Topics : want'[clients[i].id][u] # "none" =>
              \E j \in DOMAIN clients'[i].topics : clients'[i].topics[j] = u
    PROVE  WishLaw'
<1>1. clients[i].id \in Ids
  BY SlotTypes
<1>2. \A id \in Ids : id # clients[i].id => want'[id] = want[id]
  BY DEF Wishes
<1>3. \A j \in DOMAIN clients : /\ clients[j].id \in Ids
                                /\ j # i => clients[j].id # clients[i].id
  BY SlotTypes DEF CV!OneSlotPerId
<1>4. \A j \in DOMAIN clients' : Distinct(clients'[j].topics)
  BY DEF WishLaw
<1>5. ASSUME NEW j \in DOMAIN clients', NEW l \in DOMAIN clients'[j].topics
      PROVE  clients'[j].options[l] = want'[clients'[j].id][clients'[j].topics[l]]
  <2>1. CASE j = i
    BY <1>5, <2>1
  <2>2. CASE j # i
    <3>1. clients'[j] = clients[j] /\ want'[clients[j].id] = want[clients[j].id]
      BY <1>2, <1>3, <1>5, <2>2
    <3> QED BY <1>5, <2>2, <3>1 DEF WishLaw
  <2> QED BY <2>1, <2>2
<1>6. ASSUME NEW id \in Ids, NEW u \in Topics, want'[id][u] # "none"
      PROVE  \E j \in DOMAIN clients' :
                clients'[j].id = id /\ \E l \in DOMAIN clients'[j].topics : clients'[j].topics[l] = u
  <2>1. CASE id = clients[i].id
    BY <1>6, <2>1
  <2>2. CASE id # clients[i].id
    <3>1. want[id][u] # "none"
      BY <1>2, <1>6, <2>2
    <3>2. PICK j \in DOMAIN clients :
            clients[j].id = id /\ \E l \in DOMAIN clients[j].topics : clients[j].topics[l] = u
      BY <3>1 DEF WishLaw
    <3>3. j # i
      BY <2>2, <3>2
    <3> QED BY <3>2, <3>3
  <2> QED BY <2>1, <2>2
<1> QED BY <1>4, <1>5, <1>6 DEF WishLaw

\* The topics of a slot before the change.
LEMMA WishesOfSlot ==
    ASSUME WishLaw, CV!OneSlotPerId, NEW i \in DOMAIN clients
    PROVE  /\ Distinct(clients[i].topics)
           /\ \A j \in DOMAIN clients[i].topics :
                 clients[i].options[j] = want[clients[i].id][clients[i].topics[j]]
           /\ clients[i].id \in Ids => \A u \in Topics : want[clients[i].id][u] # "none" =>
                 \E j \in DOMAIN clients[i].topics : clients[i].topics[j] = u
BY DEF WishLaw, CV!OneSlotPerId

\* A subscription: the wish and the slot get the option.
LEMMA SubscribeWishes ==
    ASSUME WishLaw, CV!OneSlotPerId, CV!TypeOK, want \in Wishes,
           NEW i \in DOMAIN clients, NEW t \in Topics, NEW o \in Options,
           want' = [want EXCEPT ![clients[i].id][t] = o],
           DOMAIN clients' = DOMAIN clients, clients'[i].id = clients[i].id,
           \A j \in DOMAIN clients : j # i => clients'[j] = clients[j],
           Subscribes(clients[i], t, o, clients'[i].topics, clients'[i].options)
    PROVE  WishLaw'
<1> DEFINE T == clients[i].topics
           O == clients[i].options
           w == want[clients[i].id]
           w2 == want'[clients[i].id]
<1>1. /\ clients[i].id \in Ids /\ T \in Seq(Topics) /\ O \in Seq(Options)
      /\ Len(T) \in Nat /\ DOMAIN T = 1 .. Len(T) /\ DOMAIN O = DOMAIN T /\ Len(O) = Len(T)
      /\ \A j \in DOMAIN T : T[j] \in Topics
  <2>1. /\ clients[i].id \in Ids /\ T \in Seq(Topics) /\ O \in Seq(Options)
        /\ Len(T) \in Nat /\ DOMAIN T = 1 .. Len(T) /\ DOMAIN O = DOMAIN T
    BY SlotTypes
  <2>2. Len(O) = Len(T)
    BY SlotTypes DEF WellTyped
  <2> QED BY <2>1, <2>2, ElementOfSeq
<1>2. /\ Distinct(T) /\ \A j \in DOMAIN T : O[j] = w[T[j]]
      /\ \A u \in Topics : w[u] # "none" => \E j \in DOMAIN T : T[j] = u
  BY <1>1, WishesOfSlot
<1>3. w2[t] = o /\ \A u \in Topics : u # t => w2[u] = w[u]
  BY <1>1 DEF Wishes
<1>4. ASSUME Distinct(clients'[i].topics),
             \A j \in DOMAIN clients'[i].topics : clients'[i].options[j] = w2[clients'[i].topics[j]],
             \A u \in Topics : w2[u] # "none" =>
                \E j \in DOMAIN clients'[i].topics : clients'[i].topics[j] = u
      PROVE  WishLaw'
  BY <1>4, SlotWishes
<1> HIDE DEF w, w2
<1>5. CASE \E j \in DOMAIN T : /\ T[j] = t
                               /\ clients'[i].topics = T
                               /\ clients'[i].options = [O EXCEPT ![j] = o]
  <2>1. PICK j \in DOMAIN T : /\ T[j] = t
                              /\ clients'[i].topics = T
                              /\ clients'[i].options = [O EXCEPT ![j] = o]
    BY <1>5
  <2>2. \A l \in DOMAIN T : [O EXCEPT ![j] = o][l] = w2[T[l]]
    <3> TAKE l \in DOMAIN T
    <3>1. l # j => T[l] # t
      BY <1>2, <2>1 DEF Distinct
    <3> QED BY <1>1, <1>2, <1>3, <2>1, <3>1
  <2>3. \A u \in Topics : w2[u] # "none" => \E l \in DOMAIN T : T[l] = u
    BY <1>2, <1>3, <2>1
  <2> QED BY <1>2, <1>4, <2>1, <2>2, <2>3
<1>6. CASE /\ \A j \in DOMAIN T : T[j] # t
           /\ clients'[i].topics = Append(T, t)
           /\ clients'[i].options = Append(O, o)
  <2> DEFINE T2 == Append(T, t)
             O2 == Append(O, o)
  <2>1. /\ Len(T2) = Len(T) + 1 /\ T2[Len(T) + 1] = t
        /\ \A j \in 1 .. Len(T) : T2[j] = T[j]
        /\ T2 \in Seq(Topics)
    BY <1>1, AppendProperties
  <2>2. O2[Len(T) + 1] = o /\ \A j \in 1 .. Len(T) : O2[j] = O[j]
    <3>1. /\ O2 \in Seq(Options) /\ O2[Len(O) + 1] = o
          /\ \A j \in 1 .. Len(O) : O2[j] = O[j]
      BY <1>1, AppendProperties
    <3>2. Len(O) = Len(T)
      BY <1>1
    <3> HIDE DEF T, O, O2
    <3> QED BY <3>1, <3>2
  <2>3. Distinct(T2)
    BY <1>1, <1>2, <1>6, DistinctAppend
  <2> HIDE DEF T2, O2
  <2>4. DOMAIN T2 = 1 .. Len(T) + 1
    BY <2>1, LenProperties
  <2>5. \A l \in DOMAIN T2 : O2[l] = w2[T2[l]]
    <3> TAKE l \in DOMAIN T2
    <3>1. CASE l = Len(T) + 1
      BY <1>3, <2>1, <2>2, <3>1
    <3>2. CASE l \in 1 .. Len(T)
      <4>1. T[l] \in Topics /\ T[l] # t
        BY <1>1, <1>6, <3>2
      <4> QED BY <1>1, <1>2, <1>3, <2>1, <2>2, <3>2, <4>1
    <3> QED BY <1>1, <2>4, <3>1, <3>2
  <2>6. \A u \in Topics : w2[u] # "none" => \E l \in DOMAIN T2 : T2[l] = u
    <3> TAKE u \in Topics
    <3> HAVE w2[u] # "none"
    <3>1. CASE u = t
      BY <1>1, <2>1, <2>4, <3>1
    <3>2. CASE u # t
      <4>1. PICK l \in DOMAIN T : T[l] = u
        BY <1>2, <1>3, <3>2
      <4> QED BY <1>1, <2>1, <2>4, <4>1
    <3> QED BY <3>1, <3>2
  <2>7. clients'[i].topics = T2 /\ clients'[i].options = O2
    BY <1>6 DEF T2, O2
  <2> QED BY <1>4, <2>3, <2>5, <2>6, <2>7
<1> QED BY <1>5, <1>6 DEF Subscribes

\* The end of a subscription: the wish and the topic of the slot go.
LEMMA UnsubscribeWishes ==
    ASSUME WishLaw, CV!OneSlotPerId, CV!TypeOK, want \in Wishes,
           NEW i \in DOMAIN clients, NEW t \in Topics,
           want' = [want EXCEPT ![clients[i].id][t] = "none"],
           DOMAIN clients' = DOMAIN clients, clients'[i].id = clients[i].id,
           \A j \in DOMAIN clients : j # i => clients'[j] = clients[j],
           NEW p \in DOMAIN clients[i].topics, clients[i].topics[p] = t,
           clients'[i].topics = RemoveAt(clients[i].topics, p),
           clients'[i].options = RemoveAt(clients[i].options, p)
    PROVE  WishLaw'
<1> DEFINE T == clients[i].topics
           O == clients[i].options
           w == want[clients[i].id]
           w2 == want'[clients[i].id]
           T2 == RemoveAt(T, p)
           O2 == RemoveAt(O, p)
<1>1. /\ clients[i].id \in Ids /\ T \in Seq(Topics) /\ O \in Seq(Options)
      /\ Len(T) \in Nat /\ DOMAIN T = 1 .. Len(T) /\ DOMAIN O = DOMAIN T /\ Len(O) = Len(T)
      /\ (\A j \in DOMAIN T : T[j] \in Topics) /\ p \in 1 .. Len(T)
  <2>1. /\ clients[i].id \in Ids /\ T \in Seq(Topics) /\ O \in Seq(Options)
        /\ Len(T) \in Nat /\ DOMAIN T = 1 .. Len(T) /\ DOMAIN O = DOMAIN T
    BY SlotTypes
  <2>2. Len(O) = Len(T)
    BY SlotTypes DEF WellTyped
  <2> QED BY <2>1, <2>2, ElementOfSeq
<1>2. /\ Distinct(T) /\ \A j \in DOMAIN T : O[j] = w[T[j]]
      /\ \A u \in Topics : w[u] # "none" => \E j \in DOMAIN T : T[j] = u
  BY <1>1, WishesOfSlot
<1>3. w2[t] = "none" /\ \A u \in Topics : u # t => w2[u] = w[u]
  BY <1>1 DEF Wishes
<1>4. ASSUME Distinct(T2), \A j \in DOMAIN T2 : O2[j] = w2[T2[j]],
             \A u \in Topics : w2[u] # "none" => \E j \in DOMAIN T2 : T2[j] = u
      PROVE  WishLaw'
  <2>1. clients'[i].topics = T2 /\ clients'[i].options = O2
    OBVIOUS
  <2> HIDE DEF T2, O2
  <2>2. Distinct(clients'[i].topics)
    BY <1>4, <2>1
  <2>3. \A j \in DOMAIN clients'[i].topics :
           clients'[i].options[j] = want'[clients[i].id][clients'[i].topics[j]]
    BY <1>4, <2>1
  <2>4. \A u \in Topics : want'[clients[i].id][u] # "none" =>
           \E j \in DOMAIN clients'[i].topics : clients'[i].topics[j] = u
    BY <1>4, <2>1
  <2> QED BY <2>2, <2>3, <2>4, SlotWishes
<1>5. /\ T2 \in Seq(Topics) /\ Len(T2) = Len(T) - 1
      /\ \A n \in 1 .. Len(T) - 1 : T2[n] = IF n < p THEN T[n] ELSE T[n + 1]
  BY <1>1, RemoveAtProperties
<1>6. \A n \in 1 .. Len(T) - 1 : O2[n] = IF n < p THEN O[n] ELSE O[n + 1]
  <2>1. /\ O2 \in Seq(Options)
        /\ \A n \in 1 .. Len(O) - 1 : O2[n] = IF n < p THEN O[n] ELSE O[n + 1]
    BY <1>1, RemoveAtProperties
  <2> QED BY <1>1, <2>1
<1>7. Distinct(T2)
  BY <1>1, <1>2, DistinctRemoveAt
<1>8. T[p] = t
  OBVIOUS
<1> HIDE DEF T, O, w, w2, T2, O2
<1>9. DOMAIN T2 = 1 .. Len(T) - 1
  BY <1>1, <1>5, LenProperties
<1>10. \A l \in DOMAIN T2 : O2[l] = w2[T2[l]]
  <2> TAKE l \in DOMAIN T2
  <2> DEFINE m == IF l < p THEN l ELSE l + 1
  <2>1. m \in 1 .. Len(T) /\ m # p /\ T2[l] = T[m] /\ O2[l] = O[m]
    BY <1>1, <1>5, <1>6, <1>9
  <2> HIDE DEF m
  <2>2. T[m] \in Topics /\ T[m] # t /\ O[m] = w[T[m]]
    BY <1>1, <1>2, <1>8, <2>1 DEF Distinct
  <2> QED BY <1>3, <2>1, <2>2
<1>11. \A u \in Topics : w2[u] # "none" => \E l \in DOMAIN T2 : T2[l] = u
  <2> TAKE u \in Topics
  <2> HAVE w2[u] # "none"
  <2>1. u # t /\ w[u] # "none"
    BY <1>3
  <2>2. PICK m \in 1 .. Len(T) : T[m] = u
    BY <1>1, <1>2, <2>1
  <2>3. m # p
    BY <1>8, <2>1, <2>2
  <2> DEFINE l == IF m < p THEN m ELSE m - 1
  <2>4. l \in 1 .. Len(T) - 1 /\ (IF l < p THEN l ELSE l + 1) = m
    BY <1>1, <2>3
  <2> HIDE DEF l
  <2>5. T2[l] = u
    BY <1>5, <2>2, <2>4
  <2> QED BY <1>9, <2>4, <2>5
<1> QED BY <1>4, <1>7, <1>10, <1>11

\* A command changes the subscriptions of the subscriber it came from, in the slot and in
\* its wishes.
LEMMA CommandTables ==
    ASSUME SInv, Types, Serving, Serving', Tables, recv_command
    PROVE  FdLaw' /\ SlotLaw' /\ WishLaw'
<1> DEFINE f == pfds[iter].fd
<1>1. /\ FdLaw /\ SlotLaw /\ WishLaw /\ CV!OneSlotPerId /\ CV!TypeOK /\ ConnOK(conn)
      /\ want \in Wishes /\ KnownIds
  BY DEF Tables, SlotLaw, Types, SlotsOK, SInv, HistoryTypes
<1>2. pc = "process_ready_fds" /\ UNCHANGED since /\ ContinueAt(pfds, iter + 1)
  BY DEF recv_command, Now
<1>3. f # NoFd
  BY <1>2, FdOfHandler
<1>4. PICK c \in ConnsOf(f), result \in CV!Results :
        /\ conn[c].inbox # << >>
        /\ conn' = Received(c)
        /\ LET m == Head(conn[c].inbox) IN
           \/ /\ m.cmd = "subscribe"
              /\ CV!subscribe_client_to_topic(f, m.topic, m.sf, result)
              /\ want' = IF result = "OK"
                         THEN [want EXCEPT ![conn[c].id][m.topic] = m.sf] ELSE want
           \/ /\ m.cmd = "unsubscribe"
              /\ CV!unsubscribe_client_from_topic(f, m.topic, result)
              /\ want' = IF result = "OK"
                         THEN [want EXCEPT ![conn[c].id][m.topic] = "none"] ELSE want
           \/ /\ m.cmd \notin {"subscribe", "unsubscribe"}
              /\ UNCHANGED <<clients, want>>
  BY DEF recv_command
<1>5. c \in Conns
  BY DEF ConnsOf
<1>6. SameLinks
  <2>1. \A d \in Conns : conn'[d].fd = conn[d].fd /\ conn'[d].id = conn[d].id
    BY <1>1, <1>4, <1>5, ReceiveFacts DEF SameSubscriber
  <2>2. Listed(pfds, pfds') /\ pc' # "recv_id"
    BY <1>2, AtWorkFacts, LoopLists DEF AtWork
  <2> QED BY <1>2, <2>1, <2>2, LinksOutside
<1>7. SameOwners
  BY <1>1, CommandFacts DEF SameOwners, SameSession
<1>8. FdLaw' /\ SlotLaw'
  BY <1>1, <1>6, <1>7, LinksKeepFds, LinksKeepSlots
<1>9. PICK i \in DOMAIN clients : /\ SlotOfConn(clients[i], c)
                                  /\ \A j \in DOMAIN clients : clients[j].fd = f => j = i
  BY <1>1, <1>2, <1>3, SlotOfHandler
<1>10. conn[c].id = clients[i].id
  BY <1>9 DEF SlotOfConn
<1> DEFINE m == Head(conn[c].inbox)
<1>11. m.cmd \in {"subscribe", "unsubscribe"} => m.topic \in Topics
  BY <1>4, <1>5, CommandTypes
<1>12. m.cmd = "subscribe" => m.sf \in Options
  BY <1>4, <1>5, CommandTypes
<1>13. ASSUME UNCHANGED <<clients, want>> PROVE WishLaw'
  BY <1>1, <1>13, SameWishLaw DEF SameWishes, SameSubscriptions
<1>14. CASE /\ m.cmd = "subscribe"
            /\ CV!subscribe_client_to_topic(f, m.topic, m.sf, result)
            /\ want' = IF result = "OK"
                       THEN [want EXCEPT ![conn[c].id][m.topic] = m.sf] ELSE want
  <2> DEFINE topic == m.topic
             sf == m.sf
  <2>1. topic \in Topics /\ sf \in Options
    BY <1>11, <1>12, <1>14
  <2>2. CV!subscribe_client_to_topic(f, topic, sf, result)
    BY <1>14
  <2>3. result = "OK" => want' = [want EXCEPT ![clients[i].id][topic] = sf]
    BY <1>10, <1>14
  <2>4. result # "OK" => want' = want
    BY <1>14
  <2> HIDE DEF topic, sf, m, f
  <2>5. CASE result # "OK"
    <3>1. UNCHANGED clients
      BY <2>2, <2>5 DEF CV!subscribe_client_to_topic
    <3>2. UNCHANGED <<clients, want>>
      BY <2>4, <2>5, <3>1
    <3> QED BY <1>8, <1>13, <3>2
  <2>6. CASE result = "OK"
    <3>6. /\ CV!TypeOK /\ topic \in Topics /\ sf \in Options /\ result = "OK"
          /\ CV!subscribe_client_to_topic(f, topic, sf, result)
      BY <1>1, <2>1, <2>2, <2>6
    <3>1. PICK j \in DOMAIN clients :
              /\ clients[j].fd = f
              /\ DOMAIN clients' = DOMAIN clients
              /\ SameSession(clients[j], clients'[j])
              /\ \A n \in DOMAIN clients : n # j => clients'[n] = clients[n]
              /\ Subscribes(clients[j], topic, sf, clients'[j].topics, clients'[j].options)
      BY <3>6, SubscribeFacts
    <3>2. j = i
      BY <1>9, <3>1
    <3>3. /\ DOMAIN clients' = DOMAIN clients /\ clients'[i].id = clients[i].id
          /\ \A n \in DOMAIN clients : n # i => clients'[n] = clients[n]
      BY <3>1, <3>2 DEF SameSession
    <3>4. Subscribes(clients[i], topic, sf, clients'[i].topics, clients'[i].options)
      BY <3>1, <3>2
    <3>5. want' = [want EXCEPT ![clients[i].id][topic] = sf]
      BY <2>3, <2>6
    <3> QED BY <1>1, <1>8, <2>1, <3>3, <3>4, <3>5, SubscribeWishes
  <2> QED BY <2>5, <2>6
<1>15. CASE /\ m.cmd = "unsubscribe"
            /\ CV!unsubscribe_client_from_topic(f, m.topic, result)
            /\ want' = IF result = "OK"
                       THEN [want EXCEPT ![conn[c].id][m.topic] = "none"] ELSE want
  <2> DEFINE topic == m.topic
  <2>1. topic \in Topics
    BY <1>11, <1>15
  <2>2. CV!unsubscribe_client_from_topic(f, topic, result)
    BY <1>15
  <2>3. result = "OK" => want' = [want EXCEPT ![clients[i].id][topic] = "none"]
    BY <1>10, <1>15
  <2>4. result # "OK" => want' = want
    BY <1>15
  <2> HIDE DEF topic, m, f
  <2>5. CASE result # "OK"
    <3>1. UNCHANGED clients
      BY <2>2, <2>5 DEF CV!unsubscribe_client_from_topic
    <3>2. UNCHANGED <<clients, want>>
      BY <2>4, <2>5, <3>1
    <3> QED BY <1>8, <1>13, <3>2
  <2>6. CASE result = "OK"
    <3>1. PICK j \in DOMAIN clients :
              /\ clients[j].fd = f
              /\ DOMAIN clients' = DOMAIN clients
              /\ SameSession(clients[j], clients'[j])
              /\ \A n \in DOMAIN clients : n # j => clients'[n] = clients[n]
              /\ \E n \in DOMAIN clients[j].topics :
                    /\ clients[j].topics[n] = topic
                    /\ clients'[j].topics = RemoveAt(clients[j].topics, n)
                    /\ clients'[j].options = RemoveAt(clients[j].options, n)
      BY <1>1, <2>1, <2>2, <2>6, UnsubscribeFacts
    <3>2. j = i
      BY <1>9, <3>1
    <3>3. /\ DOMAIN clients' = DOMAIN clients /\ clients'[i].id = clients[i].id
          /\ \A n \in DOMAIN clients : n # i => clients'[n] = clients[n]
      BY <3>1, <3>2 DEF SameSession
    <3>4. PICK n \in DOMAIN clients[i].topics :
            /\ clients[i].topics[n] = topic
            /\ clients'[i].topics = RemoveAt(clients[i].topics, n)
            /\ clients'[i].options = RemoveAt(clients[i].options, n)
      BY <3>1, <3>2
    <3>5. want' = [want EXCEPT ![clients[i].id][topic] = "none"]
      BY <2>3, <2>6
    <3> QED BY <1>1, <1>8, <2>1, <3>3, <3>4, <3>5, UnsubscribeWishes
  <2> QED BY <2>5, <2>6
<1>16. WishLaw'
  BY <1>4, <1>13, <1>14, <1>15
<1> QED BY <1>8, <1>16

-----------------------------------------------------------------------------
(* The listener's handler and the end of a connection. *)

\* What accept_client leaves behind: connection c, the first of the backlog, has the free
\* descriptor fd, is polled and waits for its handler.
AcceptedAs(c, fd) ==
    /\ c \in Conns /\ InBacklog(c) /\ conn[c].fd = NoFd
    /\ fd \in Fds /\ fd # UDP /\ fd # NoFd /\ \A d \in Conns : conn[d].fd # fd
    /\ backlog' = Tail(backlog) /\ pc' = "recv_id"
    /\ \A d \in Conns : conn'[d].id = conn[d].id
                        /\ conn'[d].fd = IF d = c THEN fd ELSE conn[d].fd
    /\ c \notin live /\ live' = live
    /\ Listed(pfds, pfds') /\ \E n \in DOMAIN pfds' : pfds'[n].fd = fd
    /\ \A d \in Conns : ~ Pending(d) /\ (Pending(d)' <=> d = c)

\* The first of the backlog is accepted so, unless the server gives up.
LEMMA AcceptedConn ==
    ASSUME SInv, Types, Serving, Serving', FdLaw, accept_client
    PROVE  \E c, fd : AcceptedAs(c, fd)
<1>1. ConnOK(conn) /\ BacklogOK(backlog, conn)
  BY DEF SInv
<1>2. /\ pc = "process_ready_fds" /\ UNCHANGED since /\ backlog # << >>
      /\ \E fd \in FreeFds :
            /\ conn' = Accepted(Head(backlog), fd) /\ backlog' = Tail(backlog)
            /\ pfds' = Append(pfds, Entry(fd, FALSE)) /\ pc' = "recv_id"
  BY NotServing DEF accept_client, AtEntry, Now, poll_vec_add_fd
<1>3. PICK fd \in FreeFds : /\ conn' = Accepted(Head(backlog), fd) /\ backlog' = Tail(backlog)
                            /\ pfds' = Append(pfds, Entry(fd, FALSE)) /\ pc' = "recv_id"
  BY <1>2
<1>4. /\ fd \in Fds /\ fd # UDP /\ fd # NoFd
      /\ \A d \in Conns : conn[d].fd # fd
  BY FdsAreNumbers DEF FreeFds, ConnsOf, Serving
<1> DEFINE c == Head(backlog)
<1>5. c \in Conns /\ InBacklog(c) /\ conn[c].fd = NoFd
  <2>1. backlog \in Seq(Conns) /\ Len(backlog) > 0
    BY <1>1, <1>2, EmptySeq, LenProperties DEF BacklogOK
  <2>2. c = backlog[1] /\ 1 \in DOMAIN backlog
    BY <2>1, LenProperties
  <2> QED BY <1>1, <2>1, <2>2, ElementOfSeq DEF BacklogOK, InBacklog
<1> HIDE DEF c
<1>6. \A d \in Conns : conn'[d].id = conn[d].id
                       /\ conn'[d].fd = IF d = c THEN fd ELSE conn[d].fd
  BY <1>1, <1>3, <1>5, AcceptFacts DEF SameSubscriber, c
<1>7. c \notin live /\ live' = live /\ \A d \in Conns : ~ Pending(d)
  BY <1>2, <1>5 DEF FdLaw, live, Pending
<1>8. /\ Listed(pfds, pfds') /\ newFd' = fd
      /\ \E n \in DOMAIN pfds' : pfds'[n].fd = fd
  <2>1. pfds \in Seq(Entries) /\ Len(pfds) \in Nat /\ DOMAIN pfds = 1 .. Len(pfds)
    BY <1>2, AtWorkFacts, VecTypes DEF AtWork
  <2> DEFINE e == Entry(fd, FALSE)
  <2>2. e \in Entries /\ e.fd = fd
    BY <1>4 DEF Entry, Entries
  <2>3. pfds' = Append(pfds, e)
    BY <1>3
  <2> HIDE DEF e
  <2>4. /\ pfds' \in Seq(Entries) /\ Len(pfds') = Len(pfds) + 1 /\ pfds'[Len(pfds) + 1] = e
        /\ \A m \in 1 .. Len(pfds) : pfds'[m] = pfds[m]
    BY <2>1, <2>2, <2>3, AppendProperties
  <2>5. DOMAIN pfds' = 1 .. Len(pfds) + 1
    BY <2>4, LenProperties
  <2>6. newFd' = fd
    BY <2>2, <2>4 DEF newFd, Last
  <2> QED BY <2>1, <2>2, <2>4, <2>5, <2>6 DEF Listed
<1>9. \A d \in Conns : Pending(d)' <=> d = c
  BY <1>3, <1>4, <1>6, <1>8 DEF Pending
<1>10. AcceptedAs(c, fd)
  BY <1>3, <1>4, <1>5, <1>6, <1>7, <1>8, <1>9 DEF AcceptedAs
<1> QED BY <1>10

\* An accepted connection is polled under a descriptor of its own and has no ID yet.
LEMMA AcceptTables ==
    ASSUME SInv, Types, Serving, Serving', Tables, accept_client
    PROVE  FdLaw' /\ SlotLaw' /\ WishLaw'
<1>1. FdLaw /\ SlotLaw /\ WishLaw
  BY DEF Tables
<1>2. UNCHANGED <<clients, want>>
  BY DEF accept_client
<1>3. PICK c, fd : AcceptedAs(c, fd)
  BY <1>1, AcceptedConn
<1>4. /\ c \in Conns /\ conn[c].fd = NoFd
      /\ fd \in Fds /\ fd # UDP /\ fd # NoFd /\ \A d \in Conns : conn[d].fd # fd
  BY <1>3 DEF AcceptedAs
<1>5. \A d \in Conns : conn'[d].id = conn[d].id
                       /\ conn'[d].fd = IF d = c THEN fd ELSE conn[d].fd
  BY <1>3 DEF AcceptedAs
<1>6. c \notin live /\ live' = live /\ \A d \in Conns : ~ Pending(d) /\ (Pending(d)' <=> d = c)
  BY <1>3 DEF AcceptedAs
<1>7. Listed(pfds, pfds') /\ \E n \in DOMAIN pfds' : pfds'[n].fd = fd
  BY <1>3 DEF AcceptedAs
<1>8. \A d \in Conns : d \in live' <=> conn'[d].fd # NoFd /\ ~ Pending(d)'
  BY <1>1, <1>4, <1>5, <1>6 DEF FdLaw
<1>9. \A d, e \in Conns : conn'[d].fd = conn'[e].fd /\ conn'[d].fd # NoFd => d = e
  BY <1>1, <1>4, <1>5 DEF FdLaw
<1>10. \A d \in Conns : conn'[d].fd # UDP
  BY <1>1, <1>4, <1>5 DEF FdLaw
<1>11. ASSUME NEW d \in Conns, conn'[d].fd # NoFd
       PROVE  \E n \in DOMAIN pfds' : pfds'[n].fd = conn'[d].fd
  <2>1. CASE d = c
    BY <1>5, <1>7, <2>1
  <2>2. CASE d # c
    <3>1. PICK n \in DOMAIN pfds : pfds[n].fd = conn[d].fd
      BY <1>1, <1>5, <1>11, <2>2 DEF FdLaw
    <3> QED BY <1>5, <1>7, <2>2, <3>1 DEF Listed
  <2> QED BY <2>1, <2>2
<1>12. FdLaw'
  BY <1>8, <1>9, <1>10, <1>11 DEF FdLaw
<1>13. SlotLaw'
  <2>1. \A d \in live : conn'[d].fd = conn[d].fd /\ conn'[d].id = conn[d].id
    BY <1>4, <1>5, <1>6 DEF live
  <2>2. SameOwners
    BY <1>2 DEF SameOwners
  <2> QED BY <1>1, <1>6, <2>1, <2>2, OwnersKeepSlots
<1>14. WishLaw'
  BY <1>1, <1>2, SameWishLaw DEF SameWishes, SameSubscriptions
<1> QED BY <1>12, <1>13, <1>14

\* The handler of a new connection knows which one it is.
LEMMA PendingConn ==
    ASSUME SInv, Types, FdLaw, pc = "recv_id", NEW c \in ConnsOf(newFd)
    PROVE  /\ c \in Conns /\ conn[c].fd = newFd /\ newFd # NoFd /\ newFd \in Fds
           /\ conn[c].id \in Ids /\ c \notin live
           /\ \A d \in Conns : Pending(d) <=> d = c
           /\ \A d \in Conns : d # c => conn[d].fd # newFd
<1>1. newFd # NoFd
  BY EntryOfNew
<1>2. /\ c \in Conns /\ conn[c].fd = newFd /\ newFd \in Fds /\ conn[c].id \in Ids
  BY <1>1, ConnOfHandler DEF Types
<1> QED BY <1>1, <1>2 DEF FdLaw, Pending

\* An entry that is dropped leaves the other connections polled.
LEMMA DroppedLinks ==
    ASSUME FdLaw, pfds \in Seq(Entries), NEW p \in DOMAIN pfds, NEW n \in Nat, n > 1,
           ContinueAt(RemoveAt(pfds, p), n)
    PROVE  /\ pc' # "recv_id"
           /\ \A d \in Conns : conn[d].fd \notin {NoFd, pfds[p].fd} =>
                 \E m \in DOMAIN pfds' : pfds'[m].fd = conn[d].fd
<1>1. RemoveAt(pfds, p) \in Seq(Entries)
  BY RemoveAtProperties
<1>2. SameEntries(RemoveAt(pfds, p), pfds')
  BY <1>1, Continues
<1>3. ASSUME NEW d \in Conns, conn[d].fd \notin {NoFd, pfds[p].fd}
      PROVE  \E m \in DOMAIN pfds' : pfds'[m].fd = conn[d].fd
  <2>1. PICK m \in DOMAIN pfds : pfds[m].fd = conn[d].fd
    BY <1>3 DEF FdLaw
  <2>2. m # p
    BY <1>3, <2>1
  <2> QED BY <1>2, <2>1, <2>2, DropLists
<1> QED BY <1>3 DEF ContinueAt

\* A connection whose ID is refused is closed.
LEMMA RefusedTables ==
    ASSUME SInv, Types, Serving, FdLaw, SlotLaw, WishLaw, pc = "recv_id",
           NEW c \in ConnsOf(newFd), conn' = [Received(c) EXCEPT ![c].fd = NoFd],
           UNCHANGED <<clients, since, want>>,
           ContinueAt(RemoveAt(pfds, Len(pfds)), iter + 1)
    PROVE  FdLaw' /\ SlotLaw' /\ WishLaw'
<1>1. ConnOK(conn)
  BY DEF SInv
<1>2. /\ c \in Conns /\ conn[c].fd = newFd /\ newFd # NoFd /\ c \notin live
      /\ \A d \in Conns : Pending(d) <=> d = c
      /\ \A d \in Conns : d # c => conn[d].fd # newFd
  BY PendingConn
<1>3. /\ pfds \in Seq(Entries) /\ Len(pfds) \in DOMAIN pfds /\ newFd = pfds[Len(pfds)].fd
      /\ iter + 1 \in Nat /\ iter + 1 > 1
  BY EntryOfNew
<1>4. \A d \in Conns : conn'[d].id = conn[d].id
                       /\ conn'[d].fd = IF d = c THEN NoFd ELSE conn[d].fd
  BY <1>1, <1>2, RejectFacts DEF SameSubscriber
<1>5. /\ pc' # "recv_id"
      /\ \A d \in Conns : conn[d].fd \notin {NoFd, newFd} =>
            \E m \in DOMAIN pfds' : pfds'[m].fd = conn[d].fd
  BY <1>3, DroppedLinks
<1>6. live' = live
  BY DEF live
<1>7. \A d \in Conns : d \in live' <=> conn'[d].fd # NoFd /\ ~ Pending(d)'
  BY <1>2, <1>4, <1>5, <1>6 DEF FdLaw, Pending
<1>8. \A d, e \in Conns : conn'[d].fd = conn'[e].fd /\ conn'[d].fd # NoFd => d = e
  BY <1>4 DEF FdLaw
<1>9. \A d \in Conns : conn'[d].fd # UDP
  BY <1>4 DEF FdLaw, UDP, NoFd
<1>10. \A d \in Conns : conn'[d].fd # NoFd => \E n \in DOMAIN pfds' : pfds'[n].fd = conn'[d].fd
  BY <1>2, <1>4, <1>5
<1>11. FdLaw'
  BY <1>7, <1>8, <1>9, <1>10 DEF FdLaw
<1>12. SlotLaw'
  <2>1. \A d \in live : conn'[d].fd = conn[d].fd /\ conn'[d].id = conn[d].id
    BY <1>2, <1>4 DEF live
  <2>2. SameOwners
    BY DEF SameOwners
  <2> QED BY <1>6, <2>1, <2>2, OwnersKeepSlots
<1>13. WishLaw'
  BY SameWishLaw DEF SameWishes, SameSubscriptions
<1> QED BY <1>11, <1>12, <1>13

\* A connection whose ID is taken gets the slot of the ID.
LEMMA RegisteredTables ==
    ASSUME SInv, Types, Serving, FdLaw, SlotLaw, WishLaw, pc = "recv_id", pc' = "retransmit",
           NEW c \in ConnsOf(newFd), conn' = Received(c),
           CV!register_new_client(conn[c].id, newFd, "OK"),
           since' = [since EXCEPT ![c] = Len(udp_msgs)], UNCHANGED <<pfds, want>>
    PROVE  FdLaw' /\ SlotLaw' /\ WishLaw'
<1>1. /\ ConnOK(conn) /\ CV!TypeOK /\ since \in [Conns -> {Away} \cup Nat]
      /\ Len(udp_msgs) \in Nat
  <2>1. Len(udp_msgs) \in Nat
    BY LenProperties DEF Types, DataTypes, ArrayTypes
  <2> QED BY <2>1 DEF SInv, Types, SlotsOK, HistoryTypes
<1>2. /\ c \in Conns /\ conn[c].fd = newFd /\ newFd # NoFd /\ newFd \in Fds
      /\ conn[c].id \in Ids /\ c \notin live
      /\ \A d \in Conns : Pending(d) <=> d = c
      /\ \A d \in Conns : d # c => conn[d].fd # newFd
  BY PendingConn
<1>3. \A d \in Conns : conn'[d].id = conn[d].id /\ conn'[d].fd = conn[d].fd
  BY <1>1, <1>2, ReceiveFacts DEF SameSubscriber
<1>4. live' = live \cup {c}
  <2>1. Len(udp_msgs) # Away
    BY <1>1 DEF Away
  <2>2. \A d \in Conns : since'[d] = IF d = c THEN Len(udp_msgs) ELSE since[d]
    BY <1>1, <1>2
  <2> QED BY <1>2, <2>1, <2>2 DEF live
<1>5. FdLaw'
  <2>1. \A d \in Conns : ~ Pending(d)'
    BY DEF Pending
  <2>2. \A d \in Conns : d \in live' <=> conn'[d].fd # NoFd /\ ~ Pending(d)'
    BY <1>2, <1>3, <1>4, <2>1 DEF FdLaw
  <2>3. \A d, e \in Conns : conn'[d].fd = conn'[e].fd /\ conn'[d].fd # NoFd => d = e
    BY <1>3 DEF FdLaw
  <2>4. \A d \in Conns : conn'[d].fd # UDP
    BY <1>3 DEF FdLaw
  <2>5. \A d \in Conns : conn'[d].fd # NoFd =>
           \E n \in DOMAIN pfds' : pfds'[n].fd = conn'[d].fd
    BY <1>3 DEF FdLaw
  <2> QED BY <2>2, <2>3, <2>4, <2>5 DEF FdLaw
<1>6. \A d \in live : d \in Conns /\ conn[d].fd # NoFd /\ conn[d].fd # newFd /\ d \in live'
  BY <1>2, <1>4 DEF FdLaw, live
<1>7. \A d \in live : \A i \in DOMAIN clients :
         clients'[i] = clients[i] /\ SlotOfConn(clients[i], d) => SlotOfConn(clients[i], d)'
  BY <1>3, <1>6 DEF SlotOfConn
<1> DEFINE id == conn[c].id
           fd == newFd
<1>8. id \in Ids /\ fd \in Fds /\ fd # NoFd /\ conn'[c].id = id /\ conn'[c].fd = fd /\ c \in live'
  BY <1>2, <1>3, <1>4
<1>9. CV!register_new_client(id, fd, "OK")
  OBVIOUS
<1> HIDE DEF id, fd
<1>10. \/ \E i \in DOMAIN clients :
            /\ clients[i].id = id /\ clients[i].status = "DEAD"
            /\ DOMAIN clients' = DOMAIN clients
            /\ clients'[i].fd = fd /\ clients'[i].status = "ACTIVE"
            /\ SameSubscriptions(clients[i], clients'[i])
            /\ clients'[i].ready_msgs = clients[i].ready_msgs
            /\ \A j \in DOMAIN clients : j # i => clients'[j] = clients[j]
       \/ /\ \A j \in DOMAIN clients : clients[j].id # id /\ clients'[j] = clients[j]
          /\ DOMAIN clients' = 1 .. Len(clients) + 1
          /\ clients'[Len(clients) + 1] = CV!NewSlot(id, fd)
  BY <1>1, <1>8, <1>9, RegisterFacts
<1>11. CASE \E i \in DOMAIN clients :
            /\ clients[i].id = id /\ clients[i].status = "DEAD"
            /\ DOMAIN clients' = DOMAIN clients
            /\ clients'[i].fd = fd /\ clients'[i].status = "ACTIVE"
            /\ SameSubscriptions(clients[i], clients'[i])
            /\ clients'[i].ready_msgs = clients[i].ready_msgs
            /\ \A j \in DOMAIN clients : j # i => clients'[j] = clients[j]
  <2>1. PICK i \in DOMAIN clients :
            /\ clients[i].id = id /\ clients[i].status = "DEAD"
            /\ DOMAIN clients' = DOMAIN clients
            /\ clients'[i].fd = fd /\ clients'[i].status = "ACTIVE"
            /\ SameSubscriptions(clients[i], clients'[i])
            /\ clients'[i].ready_msgs = clients[i].ready_msgs
            /\ \A j \in DOMAIN clients : j # i => clients'[j] = clients[j]
    BY <1>11
  <2>2. clients'[i].id = id /\ SlotOfConn(clients[i], c)'
    BY <1>8, <2>1 DEF SameSubscriptions, SlotOfConn
  <2>3. CV!OneSlotPerId'
    <3>1. \A j \in DOMAIN clients : clients'[j].id = clients[j].id
      BY <2>1, <2>2
    <3> QED BY <2>1, <3>1 DEF SlotLaw, CV!OneSlotPerId
  <2>4. \A j \in DOMAIN clients' : clients'[j].fd = NoFd <=> clients'[j].status = "DEAD"
    BY <1>8, <2>1 DEF SlotLaw
  <2>5. ASSUME NEW j \in DOMAIN clients', clients'[j].status = "ACTIVE"
        PROVE  \E d \in live' : SlotOfConn(clients[j], d)'
    <3>1. CASE j = i
      BY <1>8, <2>2, <3>1
    <3>2. CASE j # i
      <4>1. clients'[j] = clients[j] /\ j \in DOMAIN clients
        BY <2>1, <2>5, <3>2
      <4>2. PICK d \in live : SlotOfConn(clients[j], d)
        BY <2>5, <4>1 DEF SlotLaw
      <4> QED BY <1>6, <1>7, <4>1, <4>2
    <3> QED BY <3>1, <3>2
  <2>6. ASSUME NEW d \in live' PROVE \E j \in DOMAIN clients' : SlotOfConn(clients[j], d)'
    <3>1. CASE d = c
      BY <2>1, <2>2, <3>1
    <3>2. CASE d # c
      <4>1. d \in live
        BY <1>4, <3>2
      <4>2. PICK j \in DOMAIN clients : SlotOfConn(clients[j], d)
        BY <4>1 DEF SlotLaw
      <4>3. clients[j].fd # NoFd
        BY <1>6, <4>1, <4>2 DEF SlotOfConn
      <4>4. j # i
        BY <2>1, <4>3 DEF SlotLaw
      <4> QED BY <1>7, <2>1, <4>1, <4>2, <4>4
    <3> QED BY <3>1, <3>2
  <2>7. SlotLaw'
    BY <2>3, <2>4, <2>5, <2>6 DEF SlotLaw
  <2>8. \A j \in DOMAIN clients : SameSubscriptions(clients[j], clients'[j])
    BY <2>1 DEF SameSubscriptions
  <2>9. WishLaw'
    BY <2>1, <2>8, SameWishLaw DEF SameWishes
  <2> QED BY <1>5, <2>7, <2>9
<1>12. CASE /\ \A j \in DOMAIN clients : clients[j].id # id /\ clients'[j] = clients[j]
            /\ DOMAIN clients' = 1 .. Len(clients) + 1
            /\ clients'[Len(clients) + 1] = CV!NewSlot(id, fd)
  <2> DEFINE l == Len(clients) + 1
  <2>1. l \in DOMAIN clients' /\ DOMAIN clients' = DOMAIN clients \cup {l} /\ l \notin DOMAIN clients
    BY <1>1, <1>12, SlotTypes
  <2>2. /\ clients'[l].id = id /\ clients'[l].status = "ACTIVE" /\ clients'[l].fd = fd
        /\ clients'[l].topics = << >>
    BY <1>12 DEF CV!NewSlot
  <2> HIDE DEF l
  <2>3. conn'[c].id = clients'[l].id /\ conn'[c].fd = clients'[l].fd
    BY <1>8, <2>2
  <2>4. CV!OneSlotPerId'
    BY <1>12, <2>1, <2>2 DEF SlotLaw, CV!OneSlotPerId
  <2>5. \A j \in DOMAIN clients' : clients'[j].fd = NoFd <=> clients'[j].status = "DEAD"
    BY <1>8, <1>12, <2>1, <2>2 DEF SlotLaw
  <2>6. ASSUME NEW j \in DOMAIN clients', clients'[j].status = "ACTIVE"
        PROVE  \E d \in live' : SlotOfConn(clients[j], d)'
    <3>1. CASE j = l
      BY <1>8, <2>3, <3>1 DEF SlotOfConn
    <3>2. CASE j # l
      <4>1. clients'[j] = clients[j] /\ j \in DOMAIN clients
        BY <1>12, <2>1, <2>6, <3>2
      <4>2. PICK d \in live : SlotOfConn(clients[j], d)
        BY <2>6, <4>1 DEF SlotLaw
      <4> QED BY <1>6, <1>7, <4>1, <4>2
    <3> QED BY <3>1, <3>2
  <2>7. ASSUME NEW d \in live' PROVE \E j \in DOMAIN clients' : SlotOfConn(clients[j], d)'
    <3>1. CASE d = c
      BY <2>1, <2>3, <3>1 DEF SlotOfConn
    <3>2. CASE d # c
      <4>1. d \in live
        BY <1>4, <3>2
      <4>2. PICK j \in DOMAIN clients : SlotOfConn(clients[j], d)
        BY <4>1 DEF SlotLaw
      <4> QED BY <1>7, <1>12, <2>1, <4>1, <4>2
    <3> QED BY <3>1, <3>2
  <2>8. SlotLaw'
    BY <2>4, <2>5, <2>6, <2>7 DEF SlotLaw
  <2>9. \A j \in DOMAIN clients' :
           /\ Distinct(clients'[j].topics)
           /\ \A m \in DOMAIN clients'[j].topics :
                 clients'[j].options[m] = want'[clients'[j].id][clients'[j].topics[m]]
    <3> TAKE j \in DOMAIN clients'
    <3>1. CASE j = l
      <4>1. DOMAIN clients'[j].topics = {}
        BY <2>2, <3>1
      <4> QED BY <4>1 DEF Distinct
    <3>2. CASE j # l
      <4>1. clients'[j] = clients[j] /\ j \in DOMAIN clients
        BY <1>12, <2>1, <3>2
      <4> QED BY <4>1 DEF WishLaw
    <3> QED BY <3>1, <3>2
  <2>10. ASSUME NEW x \in Ids, NEW t \in Topics, want'[x][t] # "none"
         PROVE  \E j \in DOMAIN clients' :
                   /\ clients'[j].id = x
                   /\ \E m \in DOMAIN clients'[j].topics : clients'[j].topics[m] = t
    <3>1. PICK j \in DOMAIN clients :
            clients[j].id = x /\ \E m \in DOMAIN clients[j].topics : clients[j].topics[m] = t
      BY <2>10 DEF WishLaw
    <3> QED BY <1>12, <2>1, <3>1
  <2>11. WishLaw'
    BY <2>9, <2>10 DEF WishLaw
  <2> QED BY <1>5, <2>8, <2>11
<1> QED BY <1>10, <1>11, <1>12

\* The handler of a new connection leaves it registered or closed.
LEMMA RecvIdTables ==
    ASSUME SInv, Types, Serving, Serving', Tables, recv_id
    PROVE  FdLaw' /\ SlotLaw' /\ WishLaw'
<1>1. FdLaw /\ SlotLaw /\ WishLaw /\ pc = "recv_id" /\ UNCHANGED want
  BY DEF Tables, recv_id, Now
<1>2. PICK c \in ConnsOf(newFd), result \in CV!Results :
        /\ CV!register_new_client(conn[c].id, newFd, result)
        /\ \/ /\ result = "OK"
              /\ conn' = Received(c)
              /\ since' = [since EXCEPT ![c] = Len(udp_msgs)]
              /\ pc' = "retransmit"
              /\ UNCHANGED pfds
           \/ /\ result # "OK"
              /\ conn' = [Received(c) EXCEPT ![c].fd = NoFd]
              /\ ContinueAt(RemoveAt(pfds, Len(pfds)), iter + 1)
              /\ UNCHANGED since
  BY NotServing DEF recv_id, poll_vec_remove_fd
<1>3. CASE result = "OK"
  BY <1>1, <1>2, <1>3, RegisteredTables
<1>4. CASE result # "OK"
  <2>1. UNCHANGED clients
    BY <1>2, <1>4, RefusedFacts
  <2> QED BY <1>1, <1>2, <1>4, <2>1, RefusedTables
<1> QED BY <1>3, <1>4

\* The end of a connection finds its slot, closes it and is not polled any more.
LEMMA EndFacts ==
    ASSUME SInv, Types, FdLaw, SlotLaw, recv_end
    PROVE  /\ pc = "process_ready_fds" /\ pfds[iter].fd # NoFd
           /\ DropEntry /\ conn' = ClosedFd(pfds[iter].fd) /\ UNCHANGED want
           /\ \E c \in ConnsOf(pfds[iter].fd), i \in DOMAIN clients :
                 /\ conn[c].inbox = << >> /\ PeerGone(c)
                 /\ since' = [since EXCEPT ![c] = Away]
                 /\ clients[i].status = "ACTIVE" /\ SlotOfConn(clients[i], c)
                 /\ DOMAIN clients' = DOMAIN clients
                 /\ clients'[i].fd = NoFd /\ clients'[i].status = "DEAD"
                 /\ SameSubscriptions(clients[i], clients'[i])
                 /\ clients'[i].ready_msgs = clients[i].ready_msgs
                 /\ \A j \in DOMAIN clients : j # i => clients'[j] = clients[j]
<1> DEFINE f == pfds[iter].fd
<1>1. pc = "process_ready_fds" /\ UNCHANGED want /\ CV!TypeOK
  BY DEF recv_end, Now, Types, SlotsOK
<1>2. f # NoFd
  BY <1>1, FdOfHandler
<1>3. PICK c \in ConnsOf(f), result \in CV!Results :
        /\ conn[c].inbox = << >> /\ PeerGone(c)
        /\ CV!close_active_client(f, result)
        /\ result = "OK" =>
              conn' = ClosedFd(f) /\ since' = [since EXCEPT ![c] = Away] /\ DropEntry
  BY DEF recv_end
<1> HIDE DEF f
<1>4. PICK i \in DOMAIN clients :
        /\ SlotOfConn(clients[i], c) /\ clients[i].fd = f
        /\ clients[i].status = "ACTIVE"
        /\ \A j \in DOMAIN clients : clients[j].fd = f => j = i
  BY <1>1, <1>2, SlotOfHandler
<1>5. result = "OK"
  <2> SUFFICES ASSUME result # "OK" PROVE FALSE
    OBVIOUS
  <2>1. \A l \in DOMAIN clients : clients[l].fd = f =>
           \E j \in DOMAIN clients : clients[j].fd = f /\ clients[j].status = "DEAD"
    BY <1>1, <1>3, DisconnectFacts
  <2> QED BY <1>4, <2>1
<1>6. PICK j \in DOMAIN clients :
        /\ clients[j].fd = f /\ clients[j].status = "ACTIVE"
        /\ DOMAIN clients' = DOMAIN clients
        /\ clients'[j].fd = NoFd /\ clients'[j].status = "DEAD"
        /\ SameSubscriptions(clients[j], clients'[j])
        /\ clients'[j].ready_msgs = clients[j].ready_msgs
        /\ \A n \in DOMAIN clients : n # j => clients'[n] = clients[n]
  BY <1>1, <1>3, <1>5, DisconnectFacts
<1>7. j = i
  BY <1>4, <1>6
<1> QED BY <1>1, <1>2, <1>3, <1>4, <1>5, <1>6, <1>7 DEF f

\* The end of a connection clears its slot, its entry and its descriptor.
LEMMA EndTables ==
    ASSUME SInv, Types, Serving, Serving', Tables, recv_end
    PROVE  FdLaw' /\ SlotLaw' /\ WishLaw'
<1> DEFINE f == pfds[iter].fd
<1>1. /\ FdLaw /\ SlotLaw /\ WishLaw /\ ConnOK(conn) /\ CV!TypeOK
      /\ since \in [Conns -> {Away} \cup Nat]
  BY DEF Tables, SInv, Types, SlotsOK, HistoryTypes
<1>2. pc = "process_ready_fds" /\ f # NoFd /\ DropEntry /\ conn' = ClosedFd(f) /\ UNCHANGED want
  BY <1>1, EndFacts
<1>3. PICK c \in ConnsOf(f), i \in DOMAIN clients :
        /\ since' = [since EXCEPT ![c] = Away]
        /\ clients[i].status = "ACTIVE" /\ SlotOfConn(clients[i], c)
        /\ DOMAIN clients' = DOMAIN clients
        /\ clients'[i].fd = NoFd /\ clients'[i].status = "DEAD"
        /\ SameSubscriptions(clients[i], clients'[i])
        /\ \A j \in DOMAIN clients : j # i => clients'[j] = clients[j]
  BY <1>1, EndFacts
<1>4. /\ iter \in Nat /\ iter > 1 /\ iter \in DOMAIN pfds /\ pfds \in Seq(Entries)
      /\ ContinueAt(RemoveAt(pfds, iter), iter)
  <2>1. iter \in 2 .. Len(pfds) /\ pfds \in Seq(Entries)
    BY <1>2, EntryOfHandler
  <2> QED BY <1>2, <2>1, VecTypes DEF DropEntry, poll_vec_remove_fd
<1>5. /\ pc' # "recv_id"
      /\ \A d \in Conns : conn[d].fd \notin {NoFd, f} =>
            \E m \in DOMAIN pfds' : pfds'[m].fd = conn[d].fd
  BY <1>1, <1>4, DroppedLinks
<1> HIDE DEF f
<1>6. /\ c \in Conns /\ conn[c].fd = f /\ c \in live
      /\ \A d \in Conns : d # c => conn[d].fd # f
  BY <1>1, <1>2, SlotOfHandler DEF ConnsOf
<1>7. \A d \in Conns : conn'[d].id = conn[d].id
                       /\ conn'[d].fd = IF d = c THEN NoFd ELSE conn[d].fd
  BY <1>1, <1>2, <1>6, CloseFacts DEF SameSubscriber
<1>8. live' = live \ {c}
  <2>1. \A d \in Conns : since'[d] = IF d = c THEN Away ELSE since[d]
    BY <1>1, <1>3, <1>6
  <2> QED BY <1>6, <2>1 DEF live
<1>9. FdLaw'
  <2>1. \A d \in Conns : ~ Pending(d) /\ ~ Pending(d)'
    BY <1>2, <1>5 DEF Pending
  <2>2. \A d \in Conns : d \in live' <=> conn'[d].fd # NoFd /\ ~ Pending(d)'
    BY <1>1, <1>7, <1>8, <2>1 DEF FdLaw
  <2>3. \A d, e \in Conns : conn'[d].fd = conn'[e].fd /\ conn'[d].fd # NoFd => d = e
    BY <1>1, <1>7 DEF FdLaw
  <2>4. \A d \in Conns : conn'[d].fd # UDP
    BY <1>1, <1>7 DEF FdLaw, UDP, NoFd
  <2>5. \A d \in Conns : conn'[d].fd # NoFd =>
           \E n \in DOMAIN pfds' : pfds'[n].fd = conn'[d].fd
    BY <1>5, <1>6, <1>7
  <2> QED BY <2>2, <2>3, <2>4, <2>5 DEF FdLaw
<1>10. \A j \in DOMAIN clients : clients'[j].id = clients[j].id
  BY <1>3 DEF SameSubscriptions
<1>11. CV!OneSlotPerId'
  BY <1>1, <1>3, <1>10 DEF SlotLaw, CV!OneSlotPerId
<1>12. \A j \in DOMAIN clients' : clients'[j].fd = NoFd <=> clients'[j].status = "DEAD"
  BY <1>1, <1>3 DEF SlotLaw
<1>13. ASSUME NEW d \in live, d # c, NEW j \in DOMAIN clients, j # i, SlotOfConn(clients[j], d)
       PROVE  SlotOfConn(clients[j], d)'
  BY <1>3, <1>7, <1>13 DEF SlotOfConn, live
<1>14. ASSUME NEW j \in DOMAIN clients', clients'[j].status = "ACTIVE"
       PROVE  \E d \in live' : SlotOfConn(clients[j], d)'
  <2>1. j # i /\ j \in DOMAIN clients /\ clients'[j] = clients[j]
    BY <1>3, <1>14
  <2>2. PICK d \in live : SlotOfConn(clients[j], d)
    BY <1>1, <1>14, <2>1 DEF SlotLaw
  <2>3. d # c
    BY <1>1, <1>3, <2>1, <2>2 DEF SlotOfConn, SlotLaw, CV!OneSlotPerId
  <2> QED BY <1>8, <1>13, <2>1, <2>2, <2>3
<1>15. ASSUME NEW d \in live' PROVE \E j \in DOMAIN clients' : SlotOfConn(clients[j], d)'
  <2>1. d \in live /\ d # c /\ d \in Conns
    BY <1>8 DEF live
  <2>2. PICK j \in DOMAIN clients : SlotOfConn(clients[j], d)
    BY <1>1, <2>1 DEF SlotLaw
  <2>3. j # i
    BY <1>3, <1>6, <2>1, <2>2 DEF SlotOfConn
  <2> QED BY <1>3, <1>13, <2>1, <2>2, <2>3
<1>16. SlotLaw'
  BY <1>11, <1>12, <1>14, <1>15 DEF SlotLaw
<1>17. WishLaw'
  <2>1. \A j \in DOMAIN clients : SameSubscriptions(clients[j], clients'[j])
    BY <1>3 DEF SameSubscriptions
  <2> QED BY <1>1, <1>2, <1>3, <2>1, SameWishLaw DEF SameWishes
<1> QED BY <1>9, <1>16, <1>17

\* They hold when the server starts.
LEMMA InitTables == Init => Tables /\ RoomOK
<1> SUFFICES ASSUME Init PROVE Tables /\ RoomOK
  OBVIOUS
<1>1. clients = << >> /\ live = {} /\ pc = "wait_for_ready_fds" /\ want = NoSubscriptions
  BY DEF Init, CV!Init, live, AllAway
<1>2. \A c \in Conns : conn[c].fd = NoFd
  BY DEF Init, NetInit, FreeConn
<1>3. DOMAIN clients = {}
  BY <1>1
<1>4. FdLaw
  BY <1>1, <1>2 DEF FdLaw, UDP, NoFd
<1>5. SlotLaw
  BY <1>1, <1>3 DEF SlotLaw, CV!OneSlotPerId
<1>6. WishLaw
  BY <1>1, <1>3 DEF WishLaw, NoSubscriptions
<1> QED BY <1>1, <1>3, <1>4, <1>5, <1>6 DEF Tables, RoomOK

\* Every step keeps them.
LEMMA TablesStep ==
    ASSUME SInv, Types, Tables, [Next]_vars
    PROVE  Tables'
<1> SUFFICES ASSUME Serving' PROVE FdLaw' /\ SlotLaw' /\ WishLaw'
  BY DEF Tables
<1>1. Serving
  BY ServedBefore
<1>2. CASE Quiet
  BY <1>1, <1>2, QuietTables
<1>3. CASE recv_udp_from_client
  BY <1>1, <1>3 DEF recv_udp_from_client, Serving
<1>4. CASE poll_fails \/ free_server \/ send_killed
  BY <1>4, NotServing DEF poll_fails, free_server, send_killed
<1>5. CASE accept_client
  BY <1>1, <1>5, AcceptTables
<1>6. CASE recv_id
  BY <1>1, <1>6, RecvIdTables
<1>7. CASE recv_command
  BY <1>1, <1>7, CommandTables
<1>8. CASE recv_end
  BY <1>1, <1>8, EndTables
<1> QED BY <1>2, <1>3, <1>4, <1>5, <1>6, <1>7, <1>8, StepCases DEF ServerStep, Quiet

\* They hold always.
LEMMA AlwaysTables == Spec => [](SInv /\ Types /\ RoomOK /\ Tables)
<1>1. Init => SInv /\ Types /\ RoomOK /\ Tables
  BY InitSInv, InitTypes, InitTables
<1>2. SInv /\ Types /\ RoomOK /\ Tables /\ [Next]_vars => (SInv /\ Types /\ RoomOK /\ Tables)'
  <2>1. SInv /\ Types /\ [Next]_vars => SInv' /\ Types'
    BY StepSInv, KnownIdsStep, LoopStep, DataStep, SlotsStep, HistoryStep
       DEF Types, SInv, LoopGoesOn
  <2>2. SInv /\ Types /\ RoomOK /\ [Next]_vars => RoomOK'
    BY RoomStep
  <2>3. SInv /\ Types /\ Tables /\ [Next]_vars => Tables'
    BY TablesStep
  <2> QED BY <2>1, <2>2, <2>3
<1> QED BY <1>1, <1>2, PTL DEF Spec

-----------------------------------------------------------------------------
(* What the tables say between two rounds. *)

\* A set that is counted by another one.
LEMMA SameCount ==
    ASSUME NEW S, IsFiniteSet(S), NEW T, NEW f \in [S -> T],
           \A x, y \in S : f[x] = f[y] => x = y, \A t \in T : \E x \in S : f[x] = t
    PROVE  IsFiniteSet(T) /\ Cardinality(T) = Cardinality(S)
<1>1. f \in Injection(S, T) /\ f \in Surjection(S, T)
  BY Fun_IsInj, Fun_IsSurj
<1> QED BY <1>1, FS_Surjection

\* Three numbers, and more that are none of them.
LEMMA ThreeMore ==
    ASSUME NEW S, IsFiniteSet(S), NEW a, NEW b, NEW c, a # b, a # c, b # c,
           a \notin S, b \notin S, c \notin S
    PROVE  Cardinality({a, b, c} \cup S) = 3 + Cardinality(S)
<1> DEFINE A == S \cup {a}
           B == A \cup {b}
<1>1. Cardinality(S) \in Nat
  BY FS_CardinalityType
<1>2. IsFiniteSet(A) /\ Cardinality(A) = Cardinality(S) + 1
  BY FS_AddElement
<1>3. b \notin A /\ c \notin B
  OBVIOUS
<1>4. {a, b, c} \cup S = B \cup {c}
  OBVIOUS
<1> HIDE DEF A
<1>5. IsFiniteSet(B) /\ Cardinality(B) = Cardinality(A) + 1
  BY <1>2, <1>3, FS_AddElement
<1> HIDE DEF B
<1>6. Cardinality(B \cup {c}) = Cardinality(B) + 1
  BY <1>3, <1>5, FS_AddElement
<1> QED BY <1>1, <1>2, <1>4, <1>5, <1>6

\* The poll vector polls the three fixed descriptors and those of the registered connections.
LEMMA PolledFds ==
    ASSUME SInv, Types, Tables, pc = "wait_for_ready_fds", UdpOpen
    PROVE  FdsOf(pfds) = {STDIN, UDP, LISTENER} \cup {conn[c].fd : c \in live}
<1>1. FdLaw /\ VecOK(pfds, conn) /\ Shape(pfds) /\ \A c \in Conns : ~ Pending(c)
  BY DEF Tables, Serving, Stopped, SInv, WaitOK, Types, LoopTypes, Pending
<1>2. /\ Len(pfds) \in Nat /\ DOMAIN pfds = 1 .. Len(pfds) /\ Len(pfds) > 2
      /\ pfds[1].fd = STDIN /\ pfds[2].fd = UDP /\ pfds[3].fd = LISTENER
  BY <1>1, VecTypes, FdsAreNumbers DEF UdpOpen, Shape, VecOK
<1>3. ASSUME NEW n \in DOMAIN pfds
      PROVE  pfds[n].fd \in {STDIN, UDP, LISTENER} \cup {conn[c].fd : c \in live}
  <2>1. CASE HoldsFd(conn, pfds[n].fd)
    <3>1. PICK c \in Conns : conn[c].fd = pfds[n].fd
      BY <2>1 DEF HoldsFd
    <3>2. pfds[n] \in Entries /\ pfds[n].fd # NoFd
      BY <1>1, VecTypes, EntryTypes DEF VecOK
    <3>3. c \in live
      BY <1>1, <3>1, <3>2 DEF FdLaw
    <3> QED BY <3>1, <3>3
  <2> QED BY <1>1, <2>1 DEF VecOK
<1>4. ASSUME NEW c \in live PROVE \E n \in DOMAIN pfds : pfds[n].fd = conn[c].fd
  <2>1. c \in Conns /\ conn[c].fd # NoFd
    BY <1>1 DEF FdLaw, live
  <2> QED BY <1>1, <2>1 DEF FdLaw
<1>5. \A x \in {STDIN, UDP, LISTENER} : \E n \in DOMAIN pfds : pfds[n].fd = x
  <2>1. 1 \in DOMAIN pfds /\ 2 \in DOMAIN pfds /\ 3 \in DOMAIN pfds
    BY <1>2
  <2> QED BY <1>2, <2>1
<1> QED BY <1>3, <1>4, <1>5 DEF FdsOf

\* As many as there are.
LEMMA PolledCount ==
    ASSUME SInv, Types, Tables, pc = "wait_for_ready_fds", UdpOpen
    PROVE  Len(pfds) = 3 + Cardinality(live)
<1>1. FdLaw /\ VecOK(pfds, conn) /\ ConnOK(conn)
  BY DEF Tables, Serving, Stopped, SInv, WaitOK
<1>2. Len(pfds) \in Nat /\ DOMAIN pfds = 1 .. Len(pfds)
  BY <1>1, VecTypes DEF VecOK
<1> DEFINE G == {conn[c].fd : c \in live}
           F == {STDIN, UDP, LISTENER} \cup G
<1>3. IsFiniteSet(live) /\ Cardinality(live) \in Nat
  <2>1. IsFiniteSet(Conns)
    BY BoundsAssumption, FS_Interval DEF Conns
  <2>2. live \in SUBSET Conns
    BY DEF live
  <2> QED BY <2>1, <2>2, FS_Subset, FS_CardinalityType
<1>4. IsFiniteSet(G) /\ Cardinality(G) = Cardinality(live)
  <2> DEFINE g == [c \in live |-> conn[c].fd]
  <2>1. g \in [live -> G]
    OBVIOUS
  <2>2. \A x, y \in live : g[x] = g[y] => x = y
    BY <1>1 DEF FdLaw, live
  <2>3. \A t \in G : \E x \in live : g[x] = t
    OBVIOUS
  <2> HIDE DEF g, G
  <2> QED BY <1>3, <2>1, <2>2, <2>3, SameCount
<1>5. Cardinality(F) = Len(pfds)
  <2> DEFINE h == [n \in 1 .. Len(pfds) |-> pfds[n].fd]
  <2>1. FdsOf(pfds) = F
    BY PolledFds
  <2>2. h \in [1 .. Len(pfds) -> F] /\ \A t \in F : \E n \in 1 .. Len(pfds) : h[n] = t
    <3> HIDE DEF F
    <3> QED BY <1>2, <2>1 DEF FdsOf
  <2>3. \A m, n \in 1 .. Len(pfds) : h[m] = h[n] => m = n
    BY <1>1, <1>2 DEF VecOK
  <2>4. IsFiniteSet(1 .. Len(pfds)) /\ Cardinality(1 .. Len(pfds)) = Len(pfds)
    <3>1. \A n \in Nat : IsFiniteSet(1 .. n) /\ Cardinality(1 .. n) = n
      BY FS_Interval
    <3> QED BY <1>2, <3>1
  <2> HIDE DEF h, F
  <2> QED BY <2>2, <2>3, <2>4, SameCount
<1>6. STDIN \notin G /\ UDP \notin G /\ LISTENER \notin G
  BY <1>1, FdTypes DEF FdLaw, live
<1>7. STDIN # UDP /\ STDIN # LISTENER /\ UDP # LISTENER
  BY DEF STDIN, UDP, LISTENER
<1> HIDE DEF G
<1>8. Cardinality(F) = 3 + Cardinality(G)
  BY <1>4, <1>6, <1>7, ThreeMore
<1> QED BY <1>4, <1>5, <1>8

\* The poll vector, the descriptors and the clients vector describe the same connections
\* between two handlers, however many there are and whatever was accepted, refused, closed
\* and reused before (server_utils.c: accept_client, recv_id, recv_end).
THEOREM TablesOfConnections == Spec => []TablesAgree
<1>1. SInv /\ Types /\ RoomOK /\ Tables => TablesAgree
  <2> SUFFICES ASSUME SInv, Types, Tables, pc = "wait_for_ready_fds", UdpOpen
               PROVE  /\ FdsOf(pfds) = {STDIN, UDP, LISTENER} \cup {conn[c].fd : c \in live}
                      /\ Len(pfds) = 3 + Cardinality(live)
                      /\ \A c \in Conns : c \in live <=> conn[c].fd # NoFd
                      /\ {<<clients[i].id, clients[i].fd>> :
                            i \in {j \in DOMAIN clients : clients[j].status = "ACTIVE"}}
                           = {<<conn[c].id, conn[c].fd>> : c \in live}
    BY DEF TablesAgree
  <2>1. FdLaw /\ SlotLaw /\ CV!TypeOK
    BY DEF Tables, Serving, Stopped, Types, SlotsOK
  <2>2. \A c \in Conns : c \in live <=> conn[c].fd # NoFd
    BY <2>1 DEF FdLaw, Pending
  <2>3. \A i \in DOMAIN clients : clients[i].status = "ACTIVE" =>
           \E c \in live : clients[i].id = conn[c].id /\ clients[i].fd = conn[c].fd
    BY <2>1 DEF SlotLaw, SlotOfConn
  <2>4. \A c \in live : \E i \in DOMAIN clients :
           /\ clients[i].status = "ACTIVE"
           /\ clients[i].id = conn[c].id /\ clients[i].fd = conn[c].fd
    <3> TAKE c \in live
    <3>1. PICK i \in DOMAIN clients : clients[i].id = conn[c].id /\ clients[i].fd = conn[c].fd
      BY <2>1 DEF SlotLaw, SlotOfConn
    <3>2. clients[i].fd # NoFd
      BY <2>2, <3>1 DEF live
    <3>3. clients[i].status = "ACTIVE"
      BY <2>1, <3>2, SlotTypes DEF SlotLaw
    <3> QED BY <3>1, <3>3
  <2>5. {<<clients[i].id, clients[i].fd>> :
            i \in {j \in DOMAIN clients : clients[j].status = "ACTIVE"}}
           = {<<conn[c].id, conn[c].fd>> : c \in live}
    BY <2>3, <2>4
  <2> QED BY <2>2, <2>5, PolledFds, PolledCount
<1> QED BY <1>1, AlwaysTables, PTL
-----------------------------------------------------------------------------
(* How the server calls the clients vector. *)

\* The store of the connection that was registered last shrinks: its slot is ACTIVE.
LEMMA ShrinkAllowed ==
    ASSUME SInv, Types, SlotLaw, pc = "retransmit", NEW i \in DOMAIN clients,
           CV!IsFirst(i, CV!SlotsOfFd(newFd)), NEW n \in 0 .. Len(clients[i].ready_msgs),
           CV!set_ready_msgs_len(i, n)
    PROVE  CV!Shrink
<1>1. pfds \in Seq(Entries) /\ Len(pfds) > 0
  BY DEF SInv, RoundOK, InRound, VecOK
<1>2. newFd = pfds[Len(pfds)].fd /\ Len(pfds) \in DOMAIN pfds
  BY <1>1, VecTypes DEF newFd, Last
<1>3. newFd # NoFd
  BY <1>1, <1>2, VecTypes, EntryTypes
<1>4. clients[i].fd = newFd
  BY DEF CV!IsFirst, CV!SlotsOfFd
<1>5. clients[i].status = "ACTIVE"
  BY <1>3, <1>4, SlotTypes DEF SlotLaw, Types, SlotsOK
<1> QED BY <1>5 DEF CV!Shrink

\* A pointer is stored for an absent subscriber that asked for it, where there is room.
LEMMA StoreAllowed ==
    ASSUME SInv, Types, RoomOK, transmit_store
    PROVE  CV!Store \/ UNCHANGED clients
<1> DEFINE p == [blk |-> blk, msg |-> Len(udp_msgs)]
<1>1. pc = "transmit" /\ clients[k].status = "DEAD" /\ k \in DOMAIN clients /\ k \in Nat
  BY DEF transmit_store, Now, Types, SlotsOK
<1>2. /\ Len(udp_msgs) \in 1 .. MaxPublish /\ blk \in Blocks /\ MaxPublish \in Nat
  BY <1>1, MessageTypes, BoundsAssumption DEF Types, DataTypes, ArrayTypes
<1>3. p \in Pointers
  BY <1>2 DEF Pointers
<1>4. Len(clients[k].ready_msgs) < MaxPublish
  <2>1. Len(clients[k].ready_msgs) < Len(udp_msgs)
    BY <1>1 DEF RoomOK, Stopped
  <2>2. Len(clients[k].ready_msgs) \in Nat
    BY <1>1, StoredTypes DEF Types, SlotsOK
  <2> QED BY <1>2, <2>1, <2>2
<1>5. CV!SubscribedWithSF(k)
  <2>1. "SF" \in Chosen(clients[k], Last(udp_msgs))
    BY <1>1 DEF RoomOK, Stopped, Concerns
  <2> QED BY <2>1 DEF Chosen, CV!SubscribedWithSF
<1> HIDE DEF p
<1>6. \E r \in CV!Results : CV!add_topic_msg_for_client(p, k, r)
  BY DEF transmit_store, p, CV!Results
<1> QED BY <1>1, <1>3, <1>4, <1>5, <1>6 DEF CV!Store

\* An ID is registered with a descriptor that no ACTIVE slot has.
LEMMA RegisterAllowed ==
    ASSUME SInv, Types, Tables, Serving, recv_id
    PROVE  CV!Register \/ UNCHANGED clients
<1>1. pc = "recv_id" /\ FdLaw /\ SlotLaw
  BY DEF recv_id, Now, Tables
<1>2. CASE \E c \in ConnsOf(newFd), result \in CV!Results :
             CV!register_new_client(conn[c].id, newFd, result)
  <2>1. PICK c \in ConnsOf(newFd), result \in CV!Results :
               CV!register_new_client(conn[c].id, newFd, result)
    BY <1>2
  <2>2. newFd \in Fds /\ newFd # NoFd /\ conn[c].id \in Ids
        /\ \A d \in Conns : Pending(d) <=> conn[d].fd = newFd
    BY <1>1, PendingConn DEF Pending
  <2>3. newFd \notin CV!LiveFds
    <3> SUFFICES ASSUME NEW i \in DOMAIN clients, clients[i].status = "ACTIVE",
                        clients[i].fd = newFd
                 PROVE  FALSE
      BY DEF CV!LiveFds
    <3>1. PICK d \in live : SlotOfConn(clients[i], d)
      BY <1>1 DEF SlotLaw
    <3>2. d \in Conns /\ conn[d].fd = newFd
      BY <3>1 DEF live, SlotOfConn
    <3> QED BY <1>1, <2>2, <3>1, <3>2 DEF FdLaw
  <2> QED BY <2>1, <2>2, <2>3 DEF CV!Register
<1>3. CASE UNCHANGED clients
  BY <1>3
<1> QED BY <1>2, <1>3 DEF recv_id

\* A command is one of the vector's.
LEMMA CommandAllowed ==
    ASSUME SInv, Types, recv_command
    PROVE  CV!Subscribe \/ CV!Unsubscribe \/ UNCHANGED clients
<1> DEFINE f == pfds[iter].fd
<1>1. pc = "process_ready_fds"
  BY DEF recv_command, Now
<1>2. f # NoFd
  BY <1>1, FdOfHandler
<1>3. PICK c \in ConnsOf(f), result \in CV!Results :
        /\ conn[c].inbox # << >>
        /\ LET m == Head(conn[c].inbox) IN
           \/ /\ m.cmd = "subscribe"
              /\ CV!subscribe_client_to_topic(f, m.topic, m.sf, result)
           \/ /\ m.cmd = "unsubscribe"
              /\ CV!unsubscribe_client_from_topic(f, m.topic, result)
           \/ UNCHANGED clients
  BY DEF recv_command
<1> HIDE DEF f
<1>4. f \in Fds /\ c \in Conns
  BY <1>2, ConnOfHandler DEF Types
<1> DEFINE m == Head(conn[c].inbox)
<1>5. /\ m.cmd \in {"subscribe", "unsubscribe"} => m.topic \in Topics
      /\ m.cmd = "subscribe" => m.sf \in CV!Options
  BY <1>3, <1>4, CommandTypes DEF Options, CV!Options
<1>6. \/ m.cmd = "subscribe" /\ CV!subscribe_client_to_topic(f, m.topic, m.sf, result)
      \/ m.cmd = "unsubscribe" /\ CV!unsubscribe_client_from_topic(f, m.topic, result)
      \/ UNCHANGED clients
  BY <1>3
<1> HIDE DEF m
<1>7. CASE m.cmd = "subscribe" /\ CV!subscribe_client_to_topic(f, m.topic, m.sf, result)
  BY <1>4, <1>5, <1>7 DEF CV!Subscribe
<1>8. CASE m.cmd = "unsubscribe" /\ CV!unsubscribe_client_from_topic(f, m.topic, result)
  BY <1>4, <1>5, <1>8 DEF CV!Unsubscribe
<1> QED BY <1>6, <1>7, <1>8

\* The end of a connection is one disconnection.
LEMMA EndAllowed ==
    ASSUME SInv, Types, recv_end
    PROVE  CV!Disconnect
<1> DEFINE f == pfds[iter].fd
<1>1. pc = "process_ready_fds"
  BY DEF recv_end, Now
<1>2. f # NoFd
  BY <1>1, FdOfHandler
<1>3. PICK c \in ConnsOf(f), result \in CV!Results : CV!close_active_client(f, result)
  BY DEF recv_end
<1> HIDE DEF f
<1>4. f \in Fds
  BY <1>2, ConnOfHandler DEF Types
<1> QED BY <1>3, <1>4 DEF CV!Disconnect

\* The retransmission empties a store or keeps its oldest messages.
LEMMA RetransmitAllowed ==
    ASSUME SInv, Types, Tables, Serving,
           retransmit_send \/ retransmit_done \/ retransmit_dangling
    PROVE  CV!Shrink \/ UNCHANGED clients \/ clients' = << >>
<1>1. pc = "retransmit" /\ SlotLaw /\ CV!TypeOK
  BY DEF retransmit_send, retransmit_done, retransmit_dangling, Now, Tables, Types, SlotsOK
<1>2. ASSUME NEW i \in DOMAIN clients
      PROVE  0 \in 0 .. Len(clients[i].ready_msgs)
  BY <1>1, StoredTypes
<1>3. ASSUME NEW i \in DOMAIN clients, CV!IsFirst(i, CV!SlotsOfFd(newFd))
      PROVE  k \in 0 .. Len(clients[i].ready_msgs)
  <2>1. Len(clients[i].ready_msgs) \in Nat
    BY <1>1, StoredTypes
  <2> QED BY <1>1, <1>3, <2>1 DEF Types, SlotsOK
<1>4. CASE retransmit_send
  <2>1. \/ UNCHANGED clients
        \/ \E i \in DOMAIN clients : /\ CV!IsFirst(i, CV!SlotsOfFd(newFd))
                                     /\ CV!set_ready_msgs_len(i, 0)
    BY <1>4 DEF retransmit_send, EndRetransmit
  <2> QED BY <1>1, <1>2, <2>1, ShrinkAllowed
<1>5. CASE retransmit_done
  <2>1. \E i \in DOMAIN clients : /\ CV!IsFirst(i, CV!SlotsOfFd(newFd))
                                  /\ CV!set_ready_msgs_len(i, 0)
    BY <1>5 DEF retransmit_done, EndRetransmit
  <2> QED BY <1>1, <1>2, <2>1, ShrinkAllowed
<1>6. CASE retransmit_dangling
  <2>1. \/ clients' = << >>
        \/ \E i \in DOMAIN clients : /\ CV!IsFirst(i, CV!SlotsOfFd(newFd))
                                     /\ CV!set_ready_msgs_len(i, k)
    BY <1>6 DEF retransmit_dangling, Gone
  <2> QED BY <1>1, <1>3, <2>1, ShrinkAllowed
<1> QED BY <1>4, <1>5, <1>6

\* Every step of the server keeps the contract.
LEMMA ContractStep ==
    ASSUME SInv, Types, RoomOK, Tables, UdpOpen, [Next]_vars
    PROVE  CV!Next \/ clients' = << >> \/ UNCHANGED clients
<1>1. CASE Env \/ UNCHANGED vars
  BY <1>1, EnvFacts DEF SInv, vars, serverVars
<1>2. CASE \/ wait_for_ready_fds \/ poll_fails \/ check_if_exit \/ recv_udp_message
           \/ recv_udp_from_client \/ transmit_send \/ accept_client
  BY <1>2 DEF wait_for_ready_fds, poll_fails, check_if_exit, recv_udp_message,
              recv_udp_from_client, transmit_send, accept_client
<1>3. CASE free_server \/ send_killed
  BY <1>3 DEF free_server, send_killed, Gone
<1>4. CASE transmit_store
  BY <1>4, StoreAllowed DEF CV!Next
<1>5. CASE recv_id \/ recv_command \/ recv_end
           \/ retransmit_send \/ retransmit_done \/ retransmit_dangling
  <2>1. Serving
    BY <1>5 DEF Serving, Stopped, recv_id, recv_command, recv_end, retransmit_send,
                retransmit_done, retransmit_dangling, Now
  <2>2. CV!Register \/ CV!Subscribe \/ CV!Unsubscribe \/ CV!Disconnect \/ CV!Shrink
        \/ UNCHANGED clients \/ clients' = << >>
    BY <1>5, <2>1, RegisterAllowed, CommandAllowed, EndAllowed, RetransmitAllowed
  <2> QED BY <2>2 DEF CV!Next
<1> QED BY <1>1, <1>2, <1>3, <1>4, <1>5, StepCases DEF ServerStep

\* The server calls the clients vector within the contract that the theorems of the vector
\* assume: an ID is registered with a descriptor no connected subscriber has, a message is
\* stored for an absent one that asked for it, a store shrinks while its subscriber is
\* connected (server_utils.c: recv_id, transmit_topic_to_clients, retransmit_topics_to_client).
THEOREM CallsWithinContract == Spec => KeepsClientVecContract
<1> DEFINE A == CV!Next \/ clients' = << >> \/ ~ UdpOpen
<1>1. Init => CV!Init
  BY DEF Init
<1>2. SInv /\ Types /\ RoomOK /\ Tables /\ [Next]_vars => [A]_clients
  BY ContractStep
<1> HIDE DEF A
<1>3. Spec => CV!Init /\ [][A]_clients
  BY <1>1, <1>2, AlwaysTables, PTL DEF Spec
<1> QED BY <1>3 DEF A, KeepsClientVecContract
-----------------------------------------------------------------------------
(***************************************************************************)
(* The ends of connections: what the poll reported as ended is closed, or  *)
(* its handler is still to come in this round.                             *)
(***************************************************************************)
EndOK(c) ==
    /\ PeerGone(c) /\ ~ InBacklog(c)
    /\ \/ conn[c].fd = NoFd
       \/ c \in live /\ conn[c].inbox = << >> /\ conn[c].fd \in todo

EndsLaw == Serving => \A c \in ends : EndOK(c)

\* A connection whose end was reported is left as it is.
EndKept(c) ==
    /\ PeerGone(c)' /\ (InBacklog(c)' => InBacklog(c))
    /\ \/ conn'[c].fd = NoFd
       \/ /\ conn'[c].fd = conn[c].fd /\ conn'[c].inbox = conn[c].inbox
          /\ since'[c] = since[c]
          /\ conn[c].fd \in todo => conn[c].fd \in todo'

\* Then the reported ends that were not closed are still to come.
LEMMA KeptEnds ==
    ASSUME \A c \in ends : EndOK(c), ends' = ends, \A c \in ends : EndKept(c)
    PROVE  \A c \in ends' : EndOK(c)'
BY DEF EndOK, EndKept, live

\* The server keeps the end of the subscriber's side, and the connections of others.
LEMMA EndKeptByServer ==
    ASSUME NEW c, PeerGone(c), conn'[c].peer = conn[c].peer,
           InBacklog(c)' => InBacklog(c),
           \/ conn'[c].fd = NoFd
           \/ /\ conn'[c].fd = conn[c].fd /\ conn'[c].inbox = conn[c].inbox
              /\ since'[c] = since[c]
              /\ conn[c].fd \in todo => conn[c].fd \in todo'
    PROVE  EndKept(c)
BY DEF EndKept, PeerGone

\* The poll reports the ends.
LEMMA PolledEnds ==
    ASSUME SInv, Types, FdLaw, pc = "wait_for_ready_fds", wait_for_ready_fds
    PROVE  \A c \in ends' : EndOK(c)'
<1> DEFINE w == [n \in DOMAIN pfds |-> Entry(pfds[n].fd, ReadableFd(pfds[n].fd))]
<1>1. /\ UNCHANGED <<conn, backlog, since>>
      /\ todo' = {w[n].fd : n \in ReportedFrom(w, 2)}
      /\ ends' = {c \in live : PeerGone(c) /\ conn[c].inbox = << >>}
  BY DEF wait_for_ready_fds, netVars
<1>2. /\ pfds \in Seq(Entries) /\ pfds[1].fd = STDIN /\ Len(pfds) \in Nat
      /\ DOMAIN pfds = 1 .. Len(pfds)
  BY VecTypes DEF SInv, WaitOK, VecOK
<1>3. w \in [1 .. Len(pfds) -> Entries]
  <2>1. \A n \in DOMAIN pfds : pfds[n] \in Entries /\ ReadableFd(pfds[n].fd) \in BOOLEAN
    BY <1>2, VecTypes DEF ReadableFd
  <2> QED BY <1>2, <2>1, EntryTypes DEF Entry, Entries
<1>4. Len(w) = Len(pfds)
  <2> HIDE DEF w
  <2> QED BY <1>2, <1>3, SeqDef, LenProperties
<1>5. \A n \in DOMAIN pfds : w[n].fd = pfds[n].fd /\ (w[n].pollin <=> ReadableFd(pfds[n].fd))
  BY DEF Entry
<1> HIDE DEF w
<1> SUFFICES ASSUME NEW c \in ends' PROVE EndOK(c)'
  OBVIOUS
<1>6. c \in live /\ c \in Conns /\ PeerGone(c) /\ conn[c].inbox = << >>
  BY <1>1 DEF live
<1>7. conn[c].fd # NoFd
  BY <1>6 DEF FdLaw
<1>8. ~ InBacklog(c)
  BY <1>7 DEF SInv, BacklogOK, InBacklog
<1>9. PICK n \in DOMAIN pfds : pfds[n].fd = conn[c].fd
  BY <1>6, <1>7 DEF FdLaw
<1>10. n \in 2 .. Len(pfds)
  BY <1>2, <1>6, <1>9, FdTypes DEF SInv
<1>11. ReadableFd(pfds[n].fd)
  BY <1>6, <1>9 DEF ReadableFd, Readable, ConnsOf
<1>12. n \in ReportedFrom(w, 2)
  BY <1>4, <1>5, <1>10, <1>11, <1>2 DEF ReportedFrom
<1>13. conn[c].fd \in todo'
  BY <1>1, <1>5, <1>9, <1>12
<1> QED BY <1>1, <1>6, <1>8, <1>13 DEF EndOK, PeerGone, InBacklog, live

\* Nobody revives a connection that ended.
LEMMA EnvEnds ==
    ASSUME SInv, \A c \in ends : EndOK(c), ends \subseteq Conns, Env \/ UNCHANGED vars
    PROVE  \A c \in ends' : EndOK(c)'
<1>1. CASE UNCHANGED vars
  <2>1. UNCHANGED <<conn, backlog, ends, since, todo>>
    BY <1>1 DEF vars, netVars, history
  <2> QED BY <2>1 DEF EndOK, PeerGone, InBacklog, live
<1>2. CASE Env
  <2>1. UNCHANGED <<ends, since, todo>> /\ OldConns /\ NewConns
    BY <1>2, EnvFacts DEF SInv, history
  <2>2. ASSUME NEW c \in ends PROVE EndKept(c)
    <3>1. PeerGone(c) /\ c \in Conns
      BY DEF EndOK
    <3>2. /\ PeerGone(c)' /\ conn'[c].fd = conn[c].fd /\ conn'[c].inbox = conn[c].inbox
      BY <2>1, <3>1 DEF OldConns
    <3>3. InBacklog(c)' => InBacklog(c)
      <4>1. conn[c].peer # "free"
        BY <3>1 DEF PeerGone
      <4>2. CASE backlog' = backlog
        BY <4>2 DEF InBacklog
      <4>3. CASE \E d \in Conns : conn[d].peer = "free" /\ backlog' = Append(backlog, d)
        <5>1. PICK d \in Conns : conn[d].peer = "free" /\ backlog' = Append(backlog, d)
          BY <4>3
        <5>2. backlog \in Seq(Conns) /\ d # c
          BY <4>1, <5>1 DEF SInv, BacklogOK
        <5>3. /\ Len(backlog) \in Nat /\ DOMAIN backlog = 1 .. Len(backlog)
              /\ DOMAIN backlog' = 1 .. Len(backlog) + 1
              /\ backlog'[Len(backlog) + 1] = d
              /\ \A n \in 1 .. Len(backlog) : backlog'[n] = backlog[n]
          BY <5>1, <5>2, AppendProperties, LenProperties
        <5> QED BY <5>2, <5>3 DEF InBacklog
      <4> QED BY <2>1, <4>2, <4>3 DEF NewConns
    <3> QED BY <2>1, <3>2, <3>3 DEF EndKept
  <2> QED BY <2>1, <2>2, KeptEnds
<1> QED BY <1>1, <1>2

\* A handler that touches neither the ends nor the connections.
LEMMA IdleEnds ==
    ASSUME \A c \in ends : EndOK(c),
           UNCHANGED <<ends, since, backlog>>,
           \A c \in ends : /\ conn'[c].peer = conn[c].peer /\ conn'[c].fd = conn[c].fd
                           /\ conn'[c].inbox = conn[c].inbox
                           /\ conn[c].fd \in todo => conn[c].fd \in todo'
    PROVE  \A c \in ends' : EndOK(c)'
<1>1. ASSUME NEW c \in ends PROVE EndKept(c)
  BY EndKeptByServer DEF EndOK, InBacklog
<1> QED BY <1>1, KeptEnds

\* An accepted connection had not been reported.
LEMMA AcceptEnds ==
    ASSUME SInv, \A c \in ends : EndOK(c), ends \subseteq Conns, accept_client
    PROVE  \A c \in ends' : EndOK(c)'
<1>1. UNCHANGED <<ends, since>> /\ todo' = todo \ {LISTENER} /\ backlog # << >>
  BY DEF accept_client, Handled
<1>2. \/ UNCHANGED <<conn, backlog>>
      \/ \E fd \in FreeFds : conn' = Accepted(Head(backlog), fd) /\ backlog' = Tail(backlog)
  BY DEF accept_client
<1>3. /\ backlog \in Seq(Conns) /\ Len(backlog) \in Nat /\ Len(backlog) > 0
      /\ DOMAIN backlog = 1 .. Len(backlog) /\ Head(backlog) = backlog[1]
      /\ backlog[1] \in Conns
  BY <1>1, LenProperties, HeadTailProperties, EmptySeq DEF SInv, BacklogOK
<1>4. ASSUME NEW c \in ends PROVE EndKept(c)
  <2>1. c \in Conns /\ PeerGone(c) /\ ~ InBacklog(c) /\ c # Head(backlog)
    BY <1>3 DEF EndOK, InBacklog
  <2>2. ~ InBacklog(c)'
    <3>1. CASE UNCHANGED backlog
      BY <2>1, <3>1 DEF InBacklog
    <3>2. CASE backlog' = Tail(backlog)
      <4>1. \A n \in DOMAIN Tail(backlog) :
               n + 1 \in DOMAIN backlog /\ Tail(backlog)[n] = backlog[n + 1]
        BY <1>3, HeadTailProperties
      <4> QED BY <2>1, <3>2, <4>1 DEF InBacklog
    <3> QED BY <1>2, <3>1, <3>2
  <2>3. conn'[c].peer = conn[c].peer /\ conn'[c].inbox = conn[c].inbox
        /\ conn'[c].fd = conn[c].fd
    <3>1. CASE UNCHANGED conn
      BY <3>1
    <3>2. CASE \E fd \in FreeFds : conn' = Accepted(Head(backlog), fd)
      BY <1>3, <2>1, <3>2, AcceptFacts DEF SameSubscriber, SInv
    <3> QED BY <1>2, <3>1, <3>2
  <2>4. conn[c].fd # LISTENER
    BY <2>1, FdTypes DEF SInv
  <2> QED BY <1>1, <2>1, <2>2, <2>3, <2>4, EndKeptByServer
<1> QED BY <1>1, <1>4, KeptEnds

\* The connection that waits for its ID had not been reported.
LEMMA RecvIdEnds ==
    ASSUME SInv, Types, FdLaw, \A c \in ends : EndOK(c), recv_id
    PROVE  \A c \in ends' : EndOK(c)'
<1>1. pc = "recv_id" /\ UNCHANGED <<ends, todo, backlog>> /\ ends \subseteq Conns
  BY DEF recv_id, Now, Types, HistoryTypes
<1>2. PICK c \in ConnsOf(newFd) :
         \/ conn' = Received(c) /\ since' = [since EXCEPT ![c] = Len(udp_msgs)]
         \/ conn' = [Received(c) EXCEPT ![c].fd = NoFd] /\ UNCHANGED since
         \/ UNCHANGED <<conn, since>>
  BY DEF recv_id
<1>3. c \in Conns /\ conn[c].fd # NoFd /\ c \notin live /\ since \in [Conns -> {Away} \cup Nat]
  BY <1>1, PendingConn DEF Types, HistoryTypes
<1>4. ASSUME NEW d \in ends PROVE EndKept(d)
  <2>1. d # c /\ d \in Conns /\ PeerGone(d)
    BY <1>1, <1>3 DEF EndOK
  <2>2. since'[d] = since[d]
    BY <1>2, <1>3, <2>1
  <2>3. conn'[d].peer = conn[d].peer /\ conn'[d].inbox = conn[d].inbox
        /\ conn'[d].fd = conn[d].fd
    <3>1. ConnOK(conn)
      BY DEF SInv
    <3>2. CASE conn' = Received(c)
      BY <1>3, <2>1, <3>1, <3>2, ReceiveFacts DEF SameSubscriber
    <3>3. CASE conn' = [Received(c) EXCEPT ![c].fd = NoFd]
      <4>1. conn'[d] = Received(c)[d]
        BY <2>1, <3>1, <3>3 DEF Received, ConnOK
      <4> QED BY <1>3, <2>1, <3>1, <4>1, ReceiveFacts DEF SameSubscriber
    <3> QED BY <1>2, <3>2, <3>3
  <2> QED BY <1>1, <2>1, <2>2, <2>3, EndKeptByServer DEF InBacklog
<1> QED BY <1>1, <1>4, KeptEnds

\* A command was read from a connection that had not ended.
LEMMA CommandEnds ==
    ASSUME SInv, Types, FdLaw, \A c \in ends : EndOK(c), recv_command
    PROVE  \A c \in ends' : EndOK(c)'
<1> DEFINE f == pfds[iter].fd
<1>1. /\ UNCHANGED <<ends, since, backlog>> /\ ends \subseteq Conns /\ todo' = todo \ {f}
      /\ pc = "process_ready_fds"
  BY DEF recv_command, Now, Types, HistoryTypes, Handled
<1>2. f # NoFd
  BY <1>1, FdOfHandler
<1>3. PICK c \in ConnsOf(f) : conn[c].inbox # << >> /\ conn' = Received(c)
  BY DEF recv_command
<1>4. c \in Conns /\ conn[c].fd = f
  BY DEF ConnsOf
<1> HIDE DEF f
<1>5. ASSUME NEW d \in ends
      PROVE  /\ conn'[d].peer = conn[d].peer /\ conn'[d].fd = conn[d].fd
             /\ conn'[d].inbox = conn[d].inbox
             /\ conn[d].fd \in todo => conn[d].fd \in todo'
  <2>1. d \in Conns /\ d # c /\ conn[d].fd # f
    BY <1>1, <1>2, <1>3, <1>4 DEF EndOK, FdLaw
  <2>2. ConnOK(conn)
    BY DEF SInv
  <2> QED BY <1>1, <1>3, <1>4, <2>1, <2>2, ReceiveFacts DEF SameSubscriber
<1> QED BY <1>1, <1>5, IdleEnds

\* A handled end is closed, and the others are still to come.
LEMMA HandledEnds ==
    ASSUME SInv, Types, FdLaw, SlotLaw, \A c \in ends : EndOK(c), recv_end
    PROVE  \A c \in ends' : EndOK(c)'
<1> DEFINE f == pfds[iter].fd
<1>1. /\ UNCHANGED <<ends, backlog>> /\ ends \subseteq Conns /\ todo' = todo \ {f}
  BY DEF recv_end, Types, HistoryTypes, Handled
<1>2. /\ f # NoFd /\ conn' = ClosedFd(f)
      /\ \E c \in ConnsOf(f) : since' = [since EXCEPT ![c] = Away]
  BY EndFacts
<1> HIDE DEF f
<1>3. PICK c \in ConnsOf(f) : since' = [since EXCEPT ![c] = Away]
  BY <1>2
<1>4. c \in Conns /\ conn[c].fd = f /\ since \in [Conns -> {Away} \cup Nat] /\ ConnOK(conn)
  BY DEF ConnsOf, Types, HistoryTypes, SInv
<1>5. ASSUME NEW d \in ends PROVE EndKept(d)
  <2>1. d \in Conns /\ PeerGone(d)
    BY <1>1 DEF EndOK
  <2>2. /\ conn'[d].peer = conn[d].peer /\ conn'[d].inbox = conn[d].inbox
        /\ d = c => conn'[d].fd = NoFd
        /\ conn[d].fd # f => conn'[d].fd = conn[d].fd
    BY <1>2, <1>4, <2>1, CloseFacts DEF SameSubscriber
  <2>3. d # c => conn[d].fd # f /\ since'[d] = since[d]
    BY <1>2, <1>3, <1>4, <2>1 DEF FdLaw
  <2> QED BY <1>1, <2>1, <2>2, <2>3, EndKeptByServer DEF InBacklog
<1> QED BY <1>1, <1>5, KeptEnds

\* Every step keeps the law of the ends.
LEMMA EndsStep ==
    ASSUME SInv, Types, Tables, EndsLaw, [Next]_vars
    PROVE  EndsLaw'
<1> SUFFICES ASSUME Serving' PROVE \A c \in ends' : EndOK(c)'
  BY DEF EndsLaw
<1>1. Serving
  BY ServedBefore
<1>2. /\ FdLaw /\ SlotLaw /\ \A c \in ends : EndOK(c)
      /\ ends \subseteq Conns
  BY <1>1 DEF Tables, EndsLaw, Types, HistoryTypes
<1>3. CASE Env \/ UNCHANGED vars
  BY <1>2, <1>3, EnvEnds
<1>4. CASE wait_for_ready_fds
  BY <1>2, <1>4, PolledEnds DEF wait_for_ready_fds, Now
<1>5. CASE poll_fails \/ free_server \/ send_killed
  BY <1>5, NotServing DEF poll_fails, free_server, send_killed
<1>6. CASE recv_udp_from_client
  BY <1>1, <1>6 DEF recv_udp_from_client, Serving
<1>7. CASE check_if_exit \/ recv_udp_message
  <2>1. UNCHANGED <<ends, since, backlog, conn>> /\ todo' \in {todo, todo \ {UDP}}
    BY <1>7 DEF check_if_exit, recv_udp_message, history, Handled
  <2>2. \A c \in ends : conn[c].fd # UDP
    BY <1>2 DEF FdLaw
  <2> QED BY <1>2, <2>1, <2>2, IdleEnds
<1>8. CASE transmit_send \/ retransmit_send
  <2>1. UNCHANGED <<ends, since, backlog, todo>> /\ \E fd, r : send_tcp_msg(fd, r)
    BY <1>8 DEF transmit_send, retransmit_send
  <2>2. \A c \in Conns : /\ conn'[c].peer = conn[c].peer
                         /\ conn'[c].fd = conn[c].fd /\ conn'[c].inbox = conn[c].inbox
    BY <2>1, SendFacts DEF SameSubscriber, SInv
  <2> QED BY <1>2, <2>1, <2>2, IdleEnds
<1>9. CASE transmit_store \/ retransmit_done \/ retransmit_dangling
  <2>1. CASE UNCHANGED <<ends, since, backlog, todo, conn>>
    BY <1>2, <2>1, IdleEnds
  <2>2. CASE Gone("killed")
    BY <2>2, NotServing
  <2> QED BY <1>9, <2>1, <2>2 DEF transmit_store, retransmit_done, retransmit_dangling,
                                  netVars, history
<1>10. CASE accept_client
  BY <1>2, <1>10, AcceptEnds
<1>11. CASE recv_id
  BY <1>2, <1>11, RecvIdEnds
<1>12. CASE recv_command
  BY <1>2, <1>12, CommandEnds
<1>13. CASE recv_end
  BY <1>2, <1>13, HandledEnds
<1> QED BY <1>3, <1>4, <1>5, <1>6, <1>7, <1>8, <1>9, <1>10, <1>11, <1>12, <1>13, StepCases
           DEF ServerStep

\* The end of a connection that a poll reported is handled in the round that follows it: when
\* the server polls again the connection is closed, and no later message is sent into it,
\* whatever else the round accepted, refused and removed (server_utils.c: process_ready_fds,
\* recv_tcp_message).
THEOREM EndsAreSeen == Spec => []EndsAreSeenInOneRound
<1>1. Init => EndsLaw
  BY DEF Init, EndsLaw
<1>2. SInv /\ Types /\ Tables /\ EndsLaw /\ [Next]_vars => EndsLaw'
  BY EndsStep
<1>3. SInv /\ Types /\ Tables /\ EndsLaw => EndsAreSeenInOneRound
  <2> SUFFICES ASSUME SInv, Tables, EndsLaw, pc = "wait_for_ready_fds", UdpOpen,
                      NEW c \in ends, c \in live
               PROVE  FALSE
    BY DEF EndsAreSeenInOneRound
  <2>1. FdLaw /\ EndOK(c) /\ todo = {}
    BY DEF Tables, EndsLaw, Serving, Stopped, SInv, WaitOK
  <2> QED BY <2>1 DEF EndOK, FdLaw, live
<1>4. Spec => []EndsLaw
  BY <1>1, <1>2, AlwaysTables, PTL DEF Spec
<1> QED BY <1>3, <1>4, AlwaysTables, PTL

-----------------------------------------------------------------------------
(***************************************************************************)
(* What was sent.  Whatever the log of a connection holds is due to its    *)
(* subscriber; until the array of the messages moves nothing is in two     *)
(* places of the logs of one subscriber, and every log is in order.        *)
(***************************************************************************)
Newest == Len(udp_msgs)

FreshLogs == \A c \in Conns : conn[c].peer = "free" => log[c] = << >>

DueWasSent == \A c \in Conns : \A n \in DOMAIN log[c] :
                 log[c][n] # Junk => log[c][n] \in due[conn[c].id]

DueReceived == \A id \in Ids : due[id] \subseteq 1 .. Newest

NoJunk == \A c \in Conns : \A n \in DOMAIN log[c] : log[c][n] # Junk

Once == \A c, d \in Conns : \A m \in DOMAIN log[c], n \in DOMAIN log[d] :
           conn[c].id = conn[d].id /\ log[c][m] = log[d][n] => c = d /\ m = n

InOrder(l, s) == \A p, n \in DOMAIN l : p < n =>
                    \/ l[n] > s  /\ l[p] < l[n]
                    \/ l[n] <= s /\ l[p] > l[n]

Ordered == \A c \in live : InOrder(log[c], since[c])

LogOK == FreshLogs /\ DueWasSent /\ DueReceived /\ (blk = 0 => NoJunk /\ Once /\ Ordered)

LogLaw == UdpOpen => LogOK

\* What SentTo collects.
LEMMA SentIs ==
    \A id, m : m \in SentTo(id) <=> \E c \in Conns : /\ conn[c].id = id
                                                    /\ \E n \in DOMAIN log[c] : log[c][n] = m
BY DEF SentTo

\* A connection that was sent something has an ID.
LEMMA SenderKnown ==
    ASSUME KnownIds, FreshLogs, NEW c \in Conns, log[c] # << >>
    PROVE  conn[c].id \in Ids
BY DEF KnownIds, FreshLogs

\* The subscribers of the connections that were sent something stay theirs.
SameSenders ==
    /\ \A c \in Conns : log[c] # << >> => conn'[c].id = conn[c].id
    /\ \A c \in Conns : conn'[c].peer = "free" => conn[c].peer = "free"

\* Nothing is sent.
LEMMA LogsStay ==
    ASSUME KnownIds, LogOK, log' = log, SameSenders, blk' = 0 => blk = 0,
           \A id \in Ids : due[id] \subseteq due'[id] /\ due'[id] \subseteq 1 .. Newest',
           \A c \in live' : log[c] = << >> \/ (c \in live /\ since'[c] = since[c])
    PROVE  LogOK'
<1>1. FreshLogs /\ DueWasSent /\ DueReceived /\ (blk = 0 => NoJunk /\ Once /\ Ordered)
  BY DEF LogOK
<1>2. \A c \in Conns : \A n \in DOMAIN log[c] :
         log[c] # << >> /\ conn'[c].id = conn[c].id /\ conn[c].id \in Ids
  BY <1>1, SenderKnown DEF SameSenders
<1>3. FreshLogs'
  BY <1>1 DEF FreshLogs, SameSenders
<1>4. DueWasSent'
  BY <1>1, <1>2 DEF DueWasSent
<1>5. DueReceived'
  BY DEF DueReceived
<1>6. ASSUME blk' = 0 PROVE NoJunk' /\ Once' /\ Ordered'
  <2>1. NoJunk' /\ Once'
    BY <1>1, <1>2, <1>6 DEF NoJunk, Once
  <2>2. ASSUME NEW c \in live' PROVE InOrder(log'[c], since'[c])
    BY <1>1, <1>6 DEF Ordered, InOrder
  <2> QED BY <2>1, <2>2 DEF Ordered
<1> QED BY <1>3, <1>4, <1>5, <1>6 DEF LogOK

\* What is sent next fits behind the log l of a connection registered at message s: a later
\* message, or one of the absence older than all that was sent.
Fits(m, l, s) == \/ m > s /\ \A n \in DOMAIN l : l[n] < m
                 \/ m <= s /\ \A n \in DOMAIN l : l[n] > m

\* The log of one connection.
LEMMA LogExtended ==
    ASSUME log \in Logs, NEW c \in Conns, NEW m \in {Junk} \cup 1 .. MaxPublish
    PROVE  /\ Len(log[c]) \in Nat /\ DOMAIN log[c] = 1 .. Len(log[c])
           /\ \A n \in DOMAIN log[c] : log[c][n] \in Nat
           /\ DOMAIN Append(log[c], m) = 1 .. Len(log[c]) + 1
           /\ Append(log[c], m)[Len(log[c]) + 1] = m
           /\ \A n \in DOMAIN log[c] : Append(log[c], m)[n] = log[c][n]
           /\ Append(log[c], m) # << >>
<1>1. log[c] \in Seq({Junk} \cup 1 .. MaxPublish)
  BY DEF Logs
<1>2. /\ Len(log[c]) \in Nat /\ DOMAIN log[c] = 1 .. Len(log[c])
      /\ \A n \in DOMAIN log[c] : log[c][n] \in {Junk} \cup 1 .. MaxPublish
  BY <1>1, LenProperties, ElementOfSeq
<1>3. /\ Append(log[c], m) \in Seq({Junk} \cup 1 .. MaxPublish)
      /\ Len(Append(log[c], m)) = Len(log[c]) + 1
      /\ Append(log[c], m)[Len(log[c]) + 1] = m
      /\ \A n \in 1 .. Len(log[c]) : Append(log[c], m)[n] = log[c][n]
  BY <1>1, AppendProperties
<1>4. DOMAIN Append(log[c], m) = 1 .. Len(log[c]) + 1
  BY <1>2, <1>3, LenProperties
<1>5. Append(log[c], m) # << >>
  <2>1. Len(Append(log[c], m)) # 0
    BY <1>2, <1>3
  <2> QED BY <2>1, EmptySeq
<1> QED BY <1>2, <1>3, <1>4, <1>5, BoundsAssumption DEF Junk

\* A message is sent on one connection.
LEMMA LogGrows ==
    ASSUME KnownIds, LogOK, log \in Logs, since \in [Conns -> {Away} \cup Nat],
           NEW c \in live, conn[c].peer # "free", NEW m \in {Junk} \cup 1 .. MaxPublish,
           log' = [d \in Conns |-> IF d = c THEN Append(log[d], m) ELSE log[d]],
           \A d \in Conns : conn'[d].id = conn[d].id /\ conn'[d].peer = conn[d].peer,
           due' = due, udp_msgs' = udp_msgs, blk' = blk, since' = since,
           m # Junk => m \in due[conn[c].id],
           blk = 0 => m # Junk /\ m \notin SentTo(conn[c].id) /\ Fits(m, log[c], since[c])
    PROVE  LogOK'
<1> DEFINE l == Len(log[c]) + 1
<1>1. FreshLogs /\ DueWasSent /\ DueReceived /\ (blk = 0 => NoJunk /\ Once /\ Ordered)
  BY DEF LogOK
<1>2. c \in Conns
  BY DEF live
<1>3. /\ l \in Nat /\ DOMAIN log[c] = 1 .. l - 1 /\ DOMAIN log'[c] = 1 .. l
      /\ log'[c][l] = m /\ \A n \in DOMAIN log[c] : log'[c][n] = log[c][n]
      /\ \A n \in DOMAIN log[c] : log[c][n] \in Nat
      /\ log'[c] # << >> /\ m \in Nat /\ since[c] \in Nat
  <2>1. log'[c] = Append(log[c], m)
    BY <1>2
  <2>2. m \in Nat /\ since[c] \in Nat
    BY <1>2, BoundsAssumption DEF Junk, live
  <2> QED BY <1>2, <2>1, <2>2, LogExtended
<1>4. \A d \in Conns : d # c => log'[d] = log[d]
  BY <1>2
<1> HIDE DEF l
<1>5. FreshLogs'
  BY <1>1, <1>4 DEF FreshLogs
<1>6. ASSUME NEW d \in Conns, NEW n \in DOMAIN log'[d]
      PROVE  \/ d = c /\ n = l /\ log'[d][n] = m
             \/ n \in DOMAIN log[d] /\ log'[d][n] = log[d][n] /\ (d = c => n < l)
  BY <1>3, <1>4
<1>7. DueWasSent'
  BY <1>1, <1>6 DEF DueWasSent
<1>8. DueReceived'
  BY <1>1 DEF DueReceived, Newest
<1>9. ASSUME blk' = 0 PROVE NoJunk' /\ Once' /\ Ordered'
  <2>1. m # Junk /\ m \notin SentTo(conn[c].id) /\ Fits(m, log[c], since[c])
        /\ NoJunk /\ Once /\ Ordered
    BY <1>1, <1>9
  <2>2. NoJunk'
    BY <1>6, <2>1 DEF NoJunk
  <2>3. \A d \in Conns : \A n \in DOMAIN log[d] : conn[d].id = conn[c].id => log[d][n] # m
    BY <2>1, SentIs
  <2>4. Once'
    <3> SUFFICES ASSUME NEW d \in Conns, NEW e \in Conns,
                        NEW p \in DOMAIN log'[d], NEW n \in DOMAIN log'[e],
                        conn'[d].id = conn'[e].id, log'[d][p] = log'[e][n]
                 PROVE  d = e /\ p = n
      BY DEF Once
    <3> QED BY <1>6, <2>1, <2>3 DEF Once
  <2>5. ASSUME NEW d \in live' PROVE InOrder(log'[d], since'[d])
    <3>1. d \in live /\ d \in Conns
      BY DEF live
    <3>2. InOrder(log[d], since[d])
      BY <2>1, <3>1 DEF Ordered
    <3>3. CASE d # c
      BY <1>4, <3>1, <3>2, <3>3
    <3>4. CASE d = c
      <4>0. DOMAIN log'[c] = 1 .. l /\ since'[d] = since[c] /\ log'[d] = log'[c]
        BY <1>3, <3>4
      <4> SUFFICES ASSUME NEW p \in 1 .. l, NEW n \in 1 .. l, p < n
                   PROVE  \/ log'[c][n] > since[c]  /\ log'[c][p] < log'[c][n]
                          \/ log'[c][n] <= since[c] /\ log'[c][p] > log'[c][n]
        BY <4>0 DEF InOrder
      <4>1. p \in DOMAIN log[c] /\ log'[c][p] = log[c][p] /\ log[c][p] \in Nat
        <5>1. p \in 1 .. l - 1
          BY <1>3
        <5> QED BY <1>3, <5>1
      <4>2. CASE n = l
        <5>1. log'[c][n] = m
          BY <1>3, <4>2
        <5>2. m \in Nat /\ since[c] \in Nat
          BY <1>3
        <5>3. Fits(m, log[c], since[c])
          BY <2>1
        <5>4. \/ m > since[c] /\ log[c][p] < m
              \/ m <= since[c] /\ log[c][p] > m
          BY <4>1, <5>3 DEF Fits
        <5> QED BY <4>1, <5>1, <5>4
      <4>3. CASE n # l
        <5>1. n \in DOMAIN log[c] /\ log'[c][n] = log[c][n]
          BY <1>3, <4>3
        <5> QED BY <3>2, <3>4, <4>1, <5>1 DEF InOrder
      <4> QED BY <4>2, <4>3
    <3> QED BY <3>3, <3>4
  <2> QED BY <2>2, <2>4, <2>5 DEF Ordered
<1> QED BY <1>5, <1>7, <1>8, <1>9 DEF LogOK

-----------------------------------------------------------------------------
(***************************************************************************)
(* What the stores hold.  A message that is due to an ID is settled (sent, *)
(* or given up after a failed send), held in the store of its slot, or     *)
(* coming: the loop of transmit_topic_to_clients has not reached the slot  *)
(* yet.  While a store is sent, only its k oldest messages are held.       *)
(***************************************************************************)
Settled(id) == SentTo(id) \cup lost[id]

Sending(i) == pc = "retransmit" /\ clients[i].fd = newFd

Keep(i) == IF Sending(i) THEN k ELSE Len(clients[i].ready_msgs)

Held(i) == {clients[i].ready_msgs[j].msg : j \in 1 .. Keep(i)}

Coming(i) == IF pc = "transmit" /\ i >= k /\ Concerns(clients[i], Last(udp_msgs))
             THEN {Newest} ELSE {}

\* A connection without a registered ID was sent nothing.
Blank == \A c \in Conns : InBacklog(c) \/ Pending(c) => log[c] = << >>

\* A stored pointer names a message that is due to the subscriber.
Pointing == \A i \in DOMAIN clients : \A j \in DOMAIN clients[i].ready_msgs :
               /\ clients[i].ready_msgs[j].msg \in due[clients[i].id]
               /\ clients[i].ready_msgs[j].blk <= blk

\* The message of the loop is due to every subscriber that the loop is still to serve.
Claimed == pc = "transmit" => \A i \in DOMAIN clients :
              i >= k /\ Concerns(clients[i], Last(udp_msgs)) => Newest \in due[clients[i].id]

\* A registration is older than the message of the loop.
Registered == \A c \in live : since[c] <= Newest /\ (pc = "transmit" => since[c] < Newest)

\* Nothing is due to an ID that never registered.
NoStray == \A id \in Ids : (\A i \in DOMAIN clients : clients[i].id # id)
                              => due[id] = {} /\ lost[id] = {}

Rising(s) == \A j, l \in DOMAIN s : j < l => s[j].msg < s[l].msg

Accounted(i) ==
    LET id == clients[i].id IN
    /\ due[id] = Settled(id) \cup Held(i) \cup Coming(i)
    /\ Held(i) \cap Settled(id) = {}
    /\ Coming(i) \cap (Held(i) \cup Settled(id)) = {}
    /\ clients[i].status = "ACTIVE" /\ ~ Sending(i) => clients[i].ready_msgs = << >>
    /\ Rising(clients[i].ready_msgs)

\* What was sent from the store so far is newer than what is left in it.
Resuming == \A i \in DOMAIN clients : \A c \in live :
               Sending(i) /\ conn[c].fd = newFd =>
                  /\ since[c] = Newest
                  /\ \A m \in DOMAIN log[c] : \A x \in 1 .. k :
                        log[c][m] > clients[i].ready_msgs[x].msg

StoresOK == /\ Blank /\ Pointing /\ Claimed /\ Registered /\ NoStray
            /\ blk = 0 => Resuming /\ \A i \in DOMAIN clients : Accounted(i)

StoreLaw == Serving => StoresOK

\* Nothing is sent: every subscriber was sent what it was.
LEMMA SameSent ==
    ASSUME log' = log, SameSenders
    PROVE  \A id : SentTo(id)' = SentTo(id)
<1> SUFFICES ASSUME NEW id, NEW m PROVE m \in SentTo(id)' <=> m \in SentTo(id)
  OBVIOUS
<1>1. \A c \in Conns : \A n \in DOMAIN log[c] : conn'[c].id = conn[c].id
  BY DEF SameSenders
<1> QED BY <1>1 DEF SentTo

\* A slot of which nothing changes that matters stays accounted for.
LEMMA SlotStaysAccounted ==
    ASSUME NEW i \in DOMAIN clients, Accounted(i),
           clients'[i].id = clients[i].id, clients'[i].ready_msgs = clients[i].ready_msgs,
           due'[clients[i].id] = due[clients[i].id],
           Settled(clients[i].id)' = Settled(clients[i].id),
           Keep(i)' = Keep(i), Coming(i)' = Coming(i),
           clients'[i].status = "ACTIVE" /\ ~ Sending(i)' =>
              (clients[i].status = "ACTIVE" /\ ~ Sending(i)) \/ clients[i].ready_msgs = << >>
    PROVE  Accounted(i)'
<1>1. Held(i)' = Held(i)
  BY DEF Held
<1> QED BY <1>1 DEF Accounted

\* The handlers that leave the messages alone.
LEMMA StoresStay ==
    ASSUME StoresOK, Blank', SameSenders, UNCHANGED <<log, due, lost, udp_msgs, blk>>,
           pc \notin {"transmit", "retransmit"}, pc' \notin {"transmit", "retransmit"},
           DOMAIN clients' = DOMAIN clients,
           \A i \in DOMAIN clients :
              /\ clients'[i].id = clients[i].id
              /\ clients'[i].ready_msgs = clients[i].ready_msgs
              /\ clients'[i].status = "ACTIVE" => clients[i].status = "ACTIVE",
           \A c \in live' : c \in live /\ since'[c] = since[c]
    PROVE  StoresOK'
<1>1. /\ Blank /\ Pointing /\ Claimed /\ Registered /\ NoStray
      /\ blk = 0 => Resuming /\ \A i \in DOMAIN clients : Accounted(i)
  BY DEF StoresOK
<1>2. Pointing'
  BY <1>1 DEF Pointing
<1>3. Claimed' /\ Resuming'
  BY DEF Claimed, Resuming, Sending
<1>4. Registered'
  BY <1>1 DEF Registered, Newest
<1>5. NoStray'
  BY <1>1 DEF NoStray
<1>6. ASSUME blk' = 0, NEW i \in DOMAIN clients' PROVE Accounted(i)'
  <2>1. Accounted(i) /\ i \in DOMAIN clients
    BY <1>1, <1>6
  <2>2. Settled(clients[i].id)' = Settled(clients[i].id)
    BY SameSent DEF Settled
  <2>3. ~ Sending(i) /\ ~ Sending(i)' /\ Coming(i) = {} /\ Coming(i)' = {}
    BY DEF Sending, Coming
  <2>4. Keep(i)' = Keep(i)
    BY <2>1, <2>3 DEF Keep
  <2> QED BY <2>1, <2>2, <2>3, <2>4, SlotStaysAccounted
<1> QED BY <1>2, <1>3, <1>4, <1>5, <1>6 DEF StoresOK

\* The environment leaves the server alone.
LEMMA EnvStores ==
    ASSUME SInv, Types, FdLaw, LogOK, StoresOK, Env \/ UNCHANGED vars
    PROVE  StoresOK'
<1>1. /\ UNCHANGED <<pc, pfds, k, clients, udp_msgs, blk, since, due, log, lost>>
      /\ OldConns \/ UNCHANGED conn
      /\ NewConns \/ UNCHANGED <<conn, backlog>>
  BY EnvFacts DEF SInv, vars, netVars, serverVars, history
<1>2. FreshLogs /\ KnownIds
  BY DEF LogOK, Types
<1>3. /\ \A c \in Conns : log[c] # << >> => conn'[c].id = conn[c].id
      /\ \A c \in Conns : conn'[c].fd = conn[c].fd /\ Pending(c)' = Pending(c)
  BY <1>1, <1>2 DEF OldConns, FreshLogs, Pending, newFd
<1>4. /\ Blank /\ Pointing /\ Claimed /\ Registered /\ NoStray
      /\ blk = 0 => Resuming /\ \A i \in DOMAIN clients : Accounted(i)
  BY DEF StoresOK
<1>5. Blank'
  <2> SUFFICES ASSUME NEW c \in Conns, InBacklog(c)' \/ Pending(c)', log[c] # << >>
               PROVE  FALSE
    BY <1>1 DEF Blank
  <2>1. ~ InBacklog(c) /\ ~ Pending(c)' /\ conn[c].peer # "free"
    BY <1>2, <1>3, <1>4 DEF Blank, FreshLogs
  <2>2. PICK d \in Conns : d # c /\ backlog' = Append(backlog, d)
    BY <1>1, <2>1 DEF NewConns, InBacklog
  <2>3. backlog \in Seq(Conns)
    BY DEF SInv, BacklogOK
  <2>4. /\ Len(backlog) \in Nat /\ DOMAIN backlog = 1 .. Len(backlog)
        /\ DOMAIN backlog' = 1 .. Len(backlog) + 1
        /\ backlog'[Len(backlog) + 1] = d
        /\ \A n \in 1 .. Len(backlog) : backlog'[n] = backlog[n]
    BY <2>2, <2>3, AppendProperties, LenProperties
  <2> QED BY <2>1, <2>2, <2>4 DEF InBacklog
<1>6. Pointing' /\ Claimed' /\ Registered' /\ NoStray'
  BY <1>1, <1>4 DEF Pointing, Claimed, Registered, NoStray, Newest, live
<1>7. Resuming => Resuming'
  BY <1>1, <1>3 DEF Resuming, Sending, Newest, live, newFd
<1>8. ASSUME NEW i \in DOMAIN clients, Accounted(i) PROVE Accounted(i)'
  <2>1. \A id : SentTo(id)' = SentTo(id)
    <3> SUFFICES ASSUME NEW id, NEW m PROVE m \in SentTo(id)' <=> m \in SentTo(id)
      OBVIOUS
    <3>1. \A c \in Conns : \A n \in DOMAIN log[c] : conn'[c].id = conn[c].id
      BY <1>3
    <3> QED BY <1>1, <3>1 DEF SentTo
  <2>2. Settled(clients[i].id)' = Settled(clients[i].id)
    BY <1>1, <2>1 DEF Settled
  <2>3. (Sending(i)' <=> Sending(i)) /\ Coming(i)' = Coming(i)
    BY <1>1 DEF Sending, Coming, newFd, Newest
  <2>4. Keep(i)' = Keep(i)
    BY <1>1, <2>3 DEF Keep
  <2> QED BY <1>1, <1>8, <2>2, <2>3, <2>4, SlotStaysAccounted
<1> QED BY <1>1, <1>4, <1>5, <1>6, <1>7, <1>8 DEF StoresOK

\* Only a registered connection is sent something, so the others stay blank.
LEMMA StillBlank ==
    ASSUME SInv, Types, Serving, Serving', FdLaw, Blank, ServerStep,
           \A c \in Conns : c \notin live => log'[c] = log[c]
    PROVE  Blank'
<1>1. ASSUME NEW c \in Conns, InBacklog(c)' \/ Pending(c)' PROVE InBacklog(c)
  <2>1. CASE accept_client
    <3>1. PICK d, fd : AcceptedAs(d, fd)
      BY <2>1, AcceptedConn
    <3>2. CASE Pending(c)'
      BY <3>1, <3>2 DEF AcceptedAs
    <3>3. CASE InBacklog(c)'
      <4>1. backlog \in Seq(Conns) /\ backlog # << >> /\ backlog' = Tail(backlog)
        BY <2>1, <3>1 DEF AcceptedAs, SInv, BacklogOK, accept_client
      <4>2. \A n \in DOMAIN Tail(backlog) :
               n + 1 \in DOMAIN backlog /\ Tail(backlog)[n] = backlog[n + 1]
        BY <4>1, HeadTailProperties, LenProperties
      <4> QED BY <3>3, <4>1, <4>2 DEF InBacklog
    <3> QED BY <1>1, <3>2, <3>3
  <2>2. CASE ~ accept_client
    <3>1. UNCHANGED backlog /\ pc' # "recv_id"
      BY <2>2, NotServing DEF ServerStep, wait_for_ready_fds, poll_fails, check_if_exit, free_server,
         recv_udp_message, recv_udp_from_client, transmit_send, transmit_store, recv_id,
         retransmit_send, retransmit_done, retransmit_dangling, send_killed, recv_command,
         recv_end, netVars, Now, ContinueAt, Fail, TransmitFrom, AddMessage, RefuseMessage,
         DropEntry, EndRetransmit
    <3> QED BY <1>1, <3>1 DEF InBacklog, Pending
  <2> QED BY <2>1, <2>2
<1>2. ASSUME NEW c \in Conns, InBacklog(c) PROVE log'[c] = << >>
  <2>1. conn[c].fd = NoFd
    BY <1>2 DEF SInv, BacklogOK, InBacklog
  <2>2. c \notin live
    BY <2>1 DEF FdLaw
  <2> QED BY <1>2, <2>2 DEF Blank
<1> QED BY <1>1, <1>2 DEF Blank

-----------------------------------------------------------------------------
(* The handlers outside the two loops. *)

\* No handler changes whose a connection is.
LEMMA ServerSenders ==
    ASSUME SInv, ServerStep
    PROVE  SameSenders
<1>1. SameConns
  BY ServerKeepsIds DEF SInv
<1> QED BY <1>1 DEF SameConns, SameSenders

\* The handlers that neither receive, send nor store a message, nor register an ID.
Idle == wait_for_ready_fds \/ check_if_exit \/ accept_client \/ recv_command \/ recv_end

\* They leave the stores alone.
LEMMA IdleStores ==
    ASSUME SInv, Types, Serving, Serving', FdLaw, SlotLaw, StoresOK, Idle
    PROVE  StoresOK'
<1>1. ServerStep /\ UNCHANGED <<log, due, lost, udp_msgs, blk>>
  BY DEF Idle, ServerStep, wait_for_ready_fds, check_if_exit, accept_client, recv_command,
         recv_end, history
<1>2. pc \notin {"transmit", "retransmit"} /\ pc' \notin {"transmit", "retransmit"}
  <2>1. pc \in {"wait_for_ready_fds", "check_if_exit", "process_ready_fds"}
    BY DEF Idle, wait_for_ready_fds, check_if_exit, accept_client, recv_command, recv_end,
           AtEntry, Now
  <2>2. \/ pc' \in {"check_if_exit", "recv_id"}
        \/ Fail
        \/ \E vec, n : ContinueAt(vec, n)
    <3>1. CASE wait_for_ready_fds
      BY <3>1 DEF wait_for_ready_fds
    <3>2. CASE check_if_exit
      BY <3>2 DEF check_if_exit
    <3>3. CASE accept_client
      BY <3>3 DEF accept_client
    <3>4. CASE recv_command
      BY <3>4 DEF recv_command
    <3>5. CASE recv_end
      BY <3>5 DEF recv_end, DropEntry
    <3> QED BY <3>1, <3>2, <3>3, <3>4, <3>5 DEF Idle
  <2>3. ~ Fail
    BY NotServing
  <2> QED BY <2>1, <2>2, <2>3, LeadsOutside
<1>3. /\ DOMAIN clients' = DOMAIN clients
      /\ \A i \in DOMAIN clients :
            /\ clients'[i].id = clients[i].id
            /\ clients'[i].ready_msgs = clients[i].ready_msgs
            /\ clients'[i].status = "ACTIVE" => clients[i].status = "ACTIVE"
  <2>1. CASE UNCHANGED clients
    BY <2>1
  <2>2. CASE recv_command
    BY <2>2, CommandFacts DEF SameSession, Types, SlotsOK
  <2>3. CASE recv_end
    <3>1. PICK i \in DOMAIN clients :
             /\ DOMAIN clients' = DOMAIN clients /\ clients'[i].status = "DEAD"
             /\ SameSubscriptions(clients[i], clients'[i])
             /\ clients'[i].ready_msgs = clients[i].ready_msgs
             /\ \A j \in DOMAIN clients : j # i => clients'[j] = clients[j]
      BY <2>3, EndFacts
    <3> QED BY <3>1 DEF SameSubscriptions
  <2> QED BY <2>1, <2>2, <2>3 DEF Idle, wait_for_ready_fds, check_if_exit, accept_client
<1>4. \A c \in live' : c \in live /\ since'[c] = since[c]
  <2>1. CASE UNCHANGED since
    BY <2>1 DEF live
  <2>2. CASE recv_end
    <3>1. PICK c \in Conns : since' = [since EXCEPT ![c] = Away]
      BY <2>2, EndFacts DEF ConnsOf
    <3>2. since \in [Conns -> {Away} \cup Nat]
      BY DEF Types, HistoryTypes
    <3> QED BY <3>1, <3>2 DEF live
  <2> QED BY <2>1, <2>2 DEF Idle, wait_for_ready_fds, check_if_exit, accept_client,
                            recv_command, history
<1>5. Blank'
  BY <1>1, StillBlank DEF StoresOK
<1>6. SameSenders
  BY <1>1, ServerSenders
<1> QED BY <1>1, <1>2, <1>3, <1>4, <1>5, <1>6, StoresStay

-----------------------------------------------------------------------------
(* A message is received. *)

\* A message is due to the IDs whose slots it concerns.
LEMMA TopicClaims ==
    ASSUME FdLaw, SlotLaw, WishLaw, CV!TypeOK, NEW t \in Topics
    PROVE  /\ \A i \in DOMAIN clients :
                 clients[i].id \in ClaimsTo(t) <=> Concerns(clients[i], t)
           /\ \A id \in ClaimsTo(t) : \E i \in DOMAIN clients : clients[i].id = id
<1>1. SlotFields
  BY SlotTypes DEF SlotFields
<1>2. ASSUME NEW i \in DOMAIN clients
      PROVE  /\ clients[i].status = "ACTIVE" <=> \E c \in live : conn[c].id = clients[i].id
             /\ clients[i].status \in {"ACTIVE", "DEAD"} /\ clients[i].id \in Ids
  <2>1. clients[i].status \in {"ACTIVE", "DEAD"} /\ clients[i].id \in Ids
    BY <1>1 DEF SlotFields
  <2>2. ASSUME clients[i].status = "ACTIVE" PROVE \E c \in live : conn[c].id = clients[i].id
    BY <2>2 DEF SlotLaw, SlotOfConn
  <2>3. ASSUME NEW c \in live, conn[c].id = clients[i].id PROVE clients[i].status = "ACTIVE"
    <3>1. PICK j \in DOMAIN clients : SlotOfConn(clients[j], c)
      BY DEF SlotLaw
    <3>2. j = i
      BY <2>3, <3>1 DEF SlotLaw, CV!OneSlotPerId, SlotOfConn
    <3>3. clients[i].fd # NoFd
      BY <3>1, <3>2 DEF FdLaw, SlotOfConn, live
    <3> QED BY <2>1, <3>3 DEF SlotLaw
  <2> QED BY <2>1, <2>2, <2>3
<1>3. ASSUME NEW i \in DOMAIN clients, NEW j \in DOMAIN clients[i].topics,
             clients[i].topics[j] = t
      PROVE  clients[i].options[j] = want[clients[i].id][t] /\ want[clients[i].id][t] # "none"
  <2>1. clients[i].options[j] = want[clients[i].id][t]
    BY <1>3 DEF WishLaw
  <2>2. clients[i].options[j] \in Options
    BY <1>1, ElementOfSeq DEF SlotFields
  <2> QED BY <2>1, <2>2 DEF Options
<1>4. ASSUME NEW i \in DOMAIN clients, want[clients[i].id][t] # "none"
      PROVE  want[clients[i].id][t] \in Chosen(clients[i], t)
  <2>1. PICK l \in DOMAIN clients : clients[l].id = clients[i].id
               /\ \E j \in DOMAIN clients[l].topics : clients[l].topics[j] = t
    BY <1>2, <1>4 DEF WishLaw
  <2>2. l = i
    BY <2>1 DEF SlotLaw, CV!OneSlotPerId
  <2> QED BY <1>3, <2>1, <2>2 DEF Chosen
<1>5. ASSUME NEW i \in DOMAIN clients
      PROVE  \A o \in Chosen(clients[i], t) :
                o = want[clients[i].id][t] /\ want[clients[i].id][t] # "none"
  BY <1>3 DEF Chosen
<1>6. ASSUME NEW i \in DOMAIN clients
      PROVE  clients[i].id \in ClaimsTo(t) <=> Concerns(clients[i], t)
  <2>1. Chosen(clients[i], t) # {} <=> want[clients[i].id][t] # "none"
    BY <1>4, <1>5
  <2>2. "SF" \in Chosen(clients[i], t) <=> want[clients[i].id][t] = "SF"
    BY <1>4, <1>5
  <2> QED BY <1>2, <2>1, <2>2, TopicsAssumption DEF ClaimsTo, Concerns
<1>7. ASSUME NEW id \in ClaimsTo(t) PROVE \E i \in DOMAIN clients : clients[i].id = id
  BY DEF WishLaw, ClaimsTo
<1> QED BY <1>6, <1>7

\* One without a topic is due to nobody and concerns nobody.
LEMMA ClaimsAreConcerns ==
    ASSUME FdLaw, SlotLaw, WishLaw, CV!TypeOK, NEW t \in Topics \cup {NoTopic}
    PROVE  /\ \A i \in DOMAIN clients :
                 clients[i].id \in ClaimsTo(t) <=> Concerns(clients[i], t)
           /\ \A id \in ClaimsTo(t) : \E i \in DOMAIN clients : clients[i].id = id
<1>1. CASE t \in Topics
  BY <1>1, TopicClaims
<1>2. CASE t = NoTopic
  <2>1. ClaimsTo(t) = {}
    BY <1>2 DEF ClaimsTo
  <2>2. ASSUME NEW i \in DOMAIN clients PROVE Chosen(clients[i], t) = {}
    <3>1. clients[i].topics \in Seq(Topics)
      BY SlotTypes
    <3>2. \A j \in DOMAIN clients[i].topics : clients[i].topics[j] \in Topics
      BY <3>1, ElementOfSeq
    <3> QED BY <1>2, <3>2, TopicsAssumption DEF Chosen
  <2> QED BY <2>1, <2>2 DEF Concerns
<1> QED BY <1>1, <1>2

\* The loop over the clients is still to serve the slots from n on that the message concerns.
LEMMA TransmitComing ==
    ASSUME CV!TypeOK, NEW n \in Nat, NEW t, TransmitFrom(n, t)
    PROVE  /\ pc' \in {"transmit", "process_ready_fds", "wait_for_ready_fds"}
           /\ \A i \in DOMAIN clients : Concerns(clients[i], t) =>
                 (pc' = "transmit" /\ i >= k' <=> i >= n)
<1>1. Len(clients) \in Nat /\ DOMAIN clients = 1 .. Len(clients)
  BY SlotTypes
<1>2. Concerned(n, t) = {i \in n .. Len(clients) : Concerns(clients[i], t)}
  BY ConcernedSlots
<1>3. \A i \in DOMAIN clients : Concerns(clients[i], t) => (i \in Concerned(n, t) <=> i >= n)
  BY <1>1, <1>2
<1>4. CASE Concerned(n, t) # {}
  <2>1. /\ pc' = "transmit" /\ k' \in Concerned(n, t)
        /\ \A l \in Concerned(n, t) : k' <= l
    BY <1>4 DEF TransmitFrom
  <2>2. k' \in Nat /\ k' >= n
    BY <1>1, <1>2, <2>1
  <2> QED BY <1>1, <1>3, <2>1, <2>2
<1>5. CASE Concerned(n, t) = {}
  <2>1. pc' \in {"process_ready_fds", "wait_for_ready_fds"}
    BY <1>5 DEF TransmitFrom, ContinueAt
  <2> QED BY <1>3, <1>5, <2>1
<1> QED BY <1>4, <1>5

\* What recv_udp_message does to the messages while the server goes on.
LEMMA NewMessage ==
    ASSUME SInv, Types, Serving, Serving', recv_udp_message
    PROVE  /\ UNCHANGED <<conn, clients, since, want, log, lost>>
           /\ pc = "process_ready_fds" /\ blk <= blk' /\ (blk' = 0 => blk = 0)
           /\ Newest \in Nat /\ Newest' = Newest + 1
           /\ \E t \in Topics \cup {NoTopic} :
                 /\ TransmitFrom(1, t) /\ Last(udp_msgs') = t
                 /\ due' = [id \in Ids |-> IF id \in ClaimsTo(t) THEN due[id] \cup {Newest + 1}
                                                                 ELSE due[id]]
<1>1. /\ UNCHANGED <<conn, clients, since, want, log, lost>>
      /\ pc = "process_ready_fds" /\ pfds[iter].fd = UDP
  BY DEF recv_udp_message, AtEntry, Now
<1>2. ~ Fail /\ ~ DropEntry
  BY <1>1, NotServing, EmptyEnds
<1>3. PICK t \in TopicsInBuf :
        /\ AddMessage(t)
        /\ due' = [id \in Ids |-> IF id \in ClaimsTo(t)
                                  THEN due[id] \cup {Len(udp_msgs) + 1} ELSE due[id]]
  BY <1>2 DEF recv_udp_message, RefuseMessage
<1>4. t \in Topics \cup {NoTopic}
  BY BufTypes DEF recv_udp_message, Types
<1>5. /\ udp_msgs' = Append(udp_msgs, t)
      /\ TransmitFrom(1, t) /\ MakeRoom
  BY <1>3 DEF AddMessage
<1>6. Newest \in Nat /\ Newest' = Newest + 1 /\ Last(udp_msgs') = t
  BY <1>4, <1>5, LastAdded DEF Newest, Types
<1>7. blk <= blk' /\ (blk' = 0 => blk = 0)
  <2>1. blk \in Nat
    BY BoundsAssumption DEF Types, DataTypes, ArrayTypes, Blocks
  <2>2. blk' \in {blk, blk + 1}
    BY <1>5 DEF MakeRoom
  <2> QED BY <2>1, <2>2
<1> QED BY <1>1, <1>3, <1>4, <1>5, <1>6, <1>7 DEF Newest

\* It is coming to whom it concerns.
LEMMA NewStores ==
    ASSUME SInv, Types, Serving, Serving', FdLaw, SlotLaw, WishLaw, LogOK, StoresOK,
           recv_udp_message
    PROVE  StoresOK'
<1>1. /\ UNCHANGED <<conn, clients, since, want, log, lost>>
      /\ pc = "process_ready_fds" /\ blk <= blk' /\ (blk' = 0 => blk = 0)
      /\ Newest \in Nat /\ Newest' = Newest + 1
  BY NewMessage
<1>2. PICK t \in Topics \cup {NoTopic} :
        /\ TransmitFrom(1, t) /\ Last(udp_msgs') = t
        /\ due' = [id \in Ids |-> IF id \in ClaimsTo(t) THEN due[id] \cup {Newest + 1}
                                                        ELSE due[id]]
  BY NewMessage
<1>3. /\ Blank /\ Pointing /\ Claimed /\ Registered /\ NoStray
      /\ blk = 0 => Resuming /\ \A i \in DOMAIN clients : Accounted(i)
  BY DEF StoresOK
<1>4. CV!TypeOK /\ SlotFields
  BY SlotTypes DEF SlotFields, Types, SlotsOK
<1>5. /\ pc' # "retransmit"
      /\ \A i \in DOMAIN clients : Concerns(clients[i], t) =>
            (pc' = "transmit" /\ i >= k' <=> i >= 1)
  BY <1>2, <1>4, TransmitComing
<1>6. /\ \A i \in DOMAIN clients :
            clients[i].id \in ClaimsTo(t) <=> Concerns(clients[i], t)
      /\ \A id \in ClaimsTo(t) : \E i \in DOMAIN clients : clients[i].id = id
  BY <1>4, ClaimsAreConcerns
<1>7. \A i \in DOMAIN clients : clients[i].id \in Ids /\ i >= 1
  BY <1>4 DEF SlotFields
<1>8. \A id \in Ids : due[id] \subseteq due'[id]
  BY <1>2
<1>9. Blank'
  BY <1>1, <1>3, StillBlank DEF ServerStep
<1>10. Pointing'
  <2> SUFFICES ASSUME NEW i \in DOMAIN clients, NEW j \in DOMAIN clients[i].ready_msgs
               PROVE  /\ clients[i].ready_msgs[j].msg \in due'[clients[i].id]
                      /\ clients[i].ready_msgs[j].blk <= blk'
    BY <1>1 DEF Pointing
  <2>1. clients[i].ready_msgs[j].blk \in Nat /\ blk \in Nat /\ blk' \in Nat
    <3>1. blk \in Nat
      BY BoundsAssumption DEF Types, DataTypes, ArrayTypes, Blocks
    <3>2. blk' \in {blk, blk + 1}
      BY <1>1, <1>2, NotServing DEF recv_udp_message, AddMessage, RefuseMessage, MakeRoom
    <3> QED BY <1>4, <3>1, <3>2, StoredTypes
  <2> QED BY <1>1, <1>3, <1>7, <1>8, <2>1 DEF Pointing
<1>11. Claimed'
  <2> SUFFICES ASSUME NEW i \in DOMAIN clients, Concerns(clients[i], t)
               PROVE  Newest + 1 \in due'[clients[i].id]
    BY <1>1, <1>2 DEF Claimed
  <2> QED BY <1>2, <1>6, <1>7
<1>12. Registered'
  <2>1. ASSUME NEW c \in live' PROVE since'[c] <= Newest' /\ since'[c] < Newest'
    <3>1. c \in live /\ since'[c] = since[c]
      BY <1>1 DEF live
    <3>2. since[c] \in Nat /\ since[c] <= Newest
      BY <1>3, <3>1 DEF Registered, live, Types, HistoryTypes
    <3> QED BY <1>1, <3>1, <3>2
  <2> QED BY <2>1 DEF Registered
<1>13. NoStray'
  <2> SUFFICES ASSUME NEW id \in Ids, \A i \in DOMAIN clients : clients[i].id # id
               PROVE  due'[id] = {} /\ lost[id] = {}
    BY <1>1 DEF NoStray
  <2> QED BY <1>2, <1>3, <1>6 DEF NoStray
<1>14. Resuming'
  BY <1>5 DEF Resuming, Sending
<1>15. ASSUME blk' = 0, NEW i \in DOMAIN clients PROVE Accounted(i)'
  <2> DEFINE id == clients[i].id
  <2>1. Accounted(i) /\ id \in Ids
    BY <1>1, <1>3, <1>7, <1>15
  <2>2. Settled(id)' = Settled(id)
    BY <1>1 DEF Settled, SentTo
  <2>3. ~ Sending(i) /\ ~ Sending(i)' /\ Coming(i) = {}
    BY <1>1, <1>5 DEF Sending, Coming
  <2>4. Held(i)' = Held(i)
    BY <1>1, <2>3 DEF Held, Keep
  <2>5. Newest + 1 \notin due[id]
    BY <1>1, <2>1 DEF LogOK, DueReceived
  <2>6. due'[id] = due[id] \cup Coming(i)'
    <3>1. CASE Concerns(clients[i], t)
      <4>1. Coming(i)' = {Newest + 1}
        BY <1>1, <1>2, <1>5, <1>7, <3>1 DEF Coming
      <4> QED BY <1>2, <1>6, <2>1, <3>1, <4>1
    <3>2. CASE ~ Concerns(clients[i], t)
      <4>1. Coming(i)' = {}
        BY <1>1, <1>2, <3>2 DEF Coming
      <4> QED BY <1>2, <1>6, <2>1, <3>2, <4>1
    <3> QED BY <3>1, <3>2
  <2>7. Coming(i)' \subseteq {Newest + 1}
    BY <1>1 DEF Coming
  <2> HIDE DEF id
  <2>8. /\ due[id] = Settled(id) \cup Held(i) /\ Held(i) \cap Settled(id) = {}
        /\ clients[i].status = "ACTIVE" => clients[i].ready_msgs = << >>
        /\ Rising(clients[i].ready_msgs)
    BY <2>1, <2>3 DEF Accounted, id
  <2>9. /\ due'[id] = Settled(id)' \cup Held(i)' \cup Coming(i)'
        /\ Held(i)' \cap Settled(id)' = {}
        /\ Coming(i)' \cap (Held(i)' \cup Settled(id)') = {}
    BY <2>2, <2>4, <2>5, <2>6, <2>7, <2>8
  <2> QED BY <1>1, <2>8, <2>9 DEF Accounted, id
<1> QED BY <1>1, <1>3, <1>9, <1>10, <1>11, <1>12, <1>13, <1>14, <1>15 DEF StoresOK

-----------------------------------------------------------------------------
(* The loop over the clients. *)

\* A message that is sent on a connection is sent to its subscriber only.
LEMMA SentGrows ==
    ASSUME log \in Logs, NEW c \in Conns, NEW m \in {Junk} \cup 1 .. MaxPublish,
           log' = [d \in Conns |-> IF d = c THEN Append(log[d], m) ELSE log[d]],
           \A d \in Conns : conn'[d].id = conn[d].id
    PROVE  \A id : /\ id = conn[c].id => SentTo(id)' = SentTo(id) \cup {m}
                   /\ id # conn[c].id => SentTo(id)' = SentTo(id)
<1> DEFINE l == Len(log[c]) + 1
<1>1. /\ DOMAIN log'[c] = 1 .. l /\ log'[c][l] = m /\ l \in 1 .. l
      /\ DOMAIN log[c] = 1 .. l - 1
      /\ \A n \in DOMAIN log[c] : n \in 1 .. l /\ log'[c][n] = log[c][n]
      /\ \A n \in 1 .. l : n = l \/ n \in DOMAIN log[c]
  <2>1. log'[c] = Append(log[c], m)
    OBVIOUS
  <2> QED BY <2>1, LogExtended
<1>2. \A d \in Conns : d # c => log'[d] = log[d]
  OBVIOUS
<1> HIDE DEF l
<1>3. ASSUME NEW id, NEW x
      PROVE  x \in SentTo(id)' <=> x \in SentTo(id) \/ (id = conn[c].id /\ x = m)
  <2>1. x \in SentTo(id)' <=> \E d \in Conns : conn'[d].id = id
                                     /\ \E n \in DOMAIN log'[d] : log'[d][n] = x
    BY DEF SentTo
  <2>2. ASSUME NEW d \in Conns, conn[d].id = id
        PROVE  (\E n \in DOMAIN log'[d] : log'[d][n] = x)
                  <=> (\E n \in DOMAIN log[d] : log[d][n] = x) \/ (d = c /\ x = m)
    <3>1. CASE d = c
      <4>1. ASSUME NEW n \in DOMAIN log'[c], log'[c][n] = x
            PROVE  x = m \/ \E p \in DOMAIN log[c] : log[c][p] = x
        BY <1>1, <4>1
      <4>2. ASSUME NEW n \in DOMAIN log[c], log[c][n] = x
            PROVE  \E p \in DOMAIN log'[c] : log'[c][p] = x
        BY <1>1, <4>2
      <4>3. x = m => \E p \in DOMAIN log'[c] : log'[c][p] = x
        BY <1>1
      <4> QED BY <3>1, <4>1, <4>2, <4>3
    <3>2. CASE d # c
      BY <1>2, <3>2
    <3> QED BY <3>1, <3>2
  <2> QED BY <2>1, <2>2, SentIs
<1>4. ASSUME NEW id, id = conn[c].id PROVE SentTo(id)' = SentTo(id) \cup {m}
  <2>1. \A x : x \in SentTo(id)' <=> x \in SentTo(id) \/ x = m
    BY <1>3, <1>4
  <2> QED BY <2>1
<1>5. ASSUME NEW id, id # conn[c].id PROVE SentTo(id)' = SentTo(id)
  <2>1. \A x : x \in SentTo(id)' <=> x \in SentTo(id)
    BY <1>3, <1>5
  <2> QED BY <2>1
<1> QED BY <1>4, <1>5

\* A connected slot is the one of a single connection.
LEMMA Receiver ==
    ASSUME SInv, FdLaw, SlotLaw, NEW i \in DOMAIN clients, clients[i].status = "ACTIVE"
    PROVE  \E c \in live : /\ c \in Conns /\ ConnsOf(clients[i].fd) = {c}
                           /\ conn[c].id = clients[i].id /\ conn[c].fd = clients[i].fd
                           /\ conn[c].peer # "free"
<1>1. PICK c \in live : SlotOfConn(clients[i], c)
  BY DEF SlotLaw
<1>2. c \in Conns /\ conn[c].fd # NoFd /\ conn[c].fd = clients[i].fd
      /\ conn[c].id = clients[i].id
  BY <1>1 DEF live, FdLaw, SlotOfConn
<1>3. ConnsOf(clients[i].fd) = {c}
  BY <1>2 DEF ConnsOf, FdLaw
<1>4. conn[c].peer # "free"
  BY <1>2 DEF SInv, ConnOK
<1> QED BY <1>2, <1>3, <1>4

\* Connection c is sent message m, or it is given up.
SendsOn(c, m) ==
    /\ \A d \in Conns : conn'[d].id = conn[d].id /\ conn'[d].peer = conn[d].peer
    /\ \/ /\ log' = [d \in Conns |-> IF d = c THEN Append(log[d], m) ELSE log[d]]
          /\ lost' = lost
       \/ /\ log' = log
          /\ lost' = [lost EXCEPT ![conn[c].id] = @ \cup {m}]

\* transmit_send is about the connection of the slot it is at.
LEMMA TransmitSends ==
    ASSUME SInv, Types, FdLaw, SlotLaw, transmit_send
    PROVE  /\ pc = "transmit" /\ k \in DOMAIN clients /\ TransmitFrom(k + 1, Last(udp_msgs))
           /\ UNCHANGED <<clients, udp_msgs, blk, since, due>>
           /\ \E c \in live : /\ SendsOn(c, Newest) /\ conn[c].id = clients[k].id
                              /\ conn[c].peer # "free"
<1>1. /\ pc = "transmit" /\ clients[k].status = "ACTIVE"
      /\ TransmitFrom(k + 1, Last(udp_msgs)) /\ UNCHANGED <<clients, udp_msgs, blk, since, due>>
  BY DEF transmit_send, Now
<1>2. k \in DOMAIN clients
  BY <1>1 DEF Types, SlotsOK
<1>3. PICK c \in live : /\ c \in Conns /\ ConnsOf(clients[k].fd) = {c}
                        /\ conn[c].id = clients[k].id /\ conn[c].peer # "free"
  BY <1>1, <1>2, Receiver
<1>4. PICK result \in {"OK", "FAILED"} :
        /\ send_tcp_msg(clients[k].fd, result)
        /\ log' = [d \in Conns |->
              IF result = "OK" /\ d \in ConnsOf(clients[k].fd)
              THEN Append(log[d], Len(udp_msgs)) ELSE log[d]]
        /\ lost' = IF result = "OK" THEN lost
                   ELSE [lost EXCEPT ![clients[k].id] = @ \cup {Len(udp_msgs)}]
  BY DEF transmit_send
<1>5. \A d \in Conns : conn'[d].id = conn[d].id /\ conn'[d].peer = conn[d].peer
  BY <1>4, SendFacts DEF SInv, SameSubscriber
<1>6. SendsOn(c, Newest)
  <2>1. CASE result = "OK"
    <3>1. log' = [d \in Conns |-> IF d = c THEN Append(log[d], Newest) ELSE log[d]]
      BY <1>3, <1>4, <2>1 DEF Newest
    <3>2. lost' = lost
      BY <1>4, <2>1
    <3> QED BY <1>5, <3>1, <3>2 DEF SendsOn
  <2>2. CASE result = "FAILED"
    <3>1. log' = [d \in Conns |-> log[d]]
      BY <1>4, <2>2
    <3>2. log \in [Conns -> Seq({Junk} \cup 1 .. MaxPublish)]
      BY DEF Types, HistoryTypes, Logs
    <3>3. log' = log
      BY <3>1, <3>2
    <3>4. lost' = [lost EXCEPT ![conn[c].id] = @ \cup {Newest}]
      BY <1>3, <1>4, <2>2 DEF Newest
    <3> QED BY <1>5, <3>3, <3>4 DEF SendsOn
  <2> QED BY <1>4, <2>1, <2>2
<1> QED BY <1>1, <1>2, <1>3, <1>6

\* It is settled for that subscriber.
LEMMA SettledGrows ==
    ASSUME log \in Logs, lost \in Claims, NEW c \in Conns, conn[c].id \in Ids,
           NEW m \in {Junk} \cup 1 .. MaxPublish, SendsOn(c, m)
    PROVE  \A id \in Ids : /\ id = conn[c].id => Settled(id)' = Settled(id) \cup {m}
                           /\ id # conn[c].id => Settled(id)' = Settled(id)
<1>1. \A d \in Conns : conn'[d].id = conn[d].id /\ conn'[d].peer = conn[d].peer
  BY DEF SendsOn
<1>2. CASE /\ log' = [d \in Conns |-> IF d = c THEN Append(log[d], m) ELSE log[d]]
           /\ lost' = lost
  <2>1. \A id : /\ id = conn[c].id => SentTo(id)' = SentTo(id) \cup {m}
                /\ id # conn[c].id => SentTo(id)' = SentTo(id)
    BY <1>1, <1>2, SentGrows
  <2> QED BY <1>2, <2>1 DEF Settled
<1>3. CASE /\ log' = log
           /\ lost' = [lost EXCEPT ![conn[c].id] = @ \cup {m}]
  <2>1. \A id : SentTo(id)' = SentTo(id)
    BY <1>1, <1>3, SameSent DEF SameSenders
  <2>2. \A id \in Ids : /\ id = conn[c].id => lost'[id] = lost[id] \cup {m}
                        /\ id # conn[c].id => lost'[id] = lost[id]
    BY <1>3 DEF Claims
  <2> QED BY <2>1, <2>2 DEF Settled
<1> QED BY <1>2, <1>3 DEF SendsOn

\* What is sent is due, is sent once and in order.
LEMMA SendsLog ==
    ASSUME Types, LogOK, NEW c \in live, conn[c].peer # "free",
           NEW m \in {Junk} \cup 1 .. MaxPublish, SendsOn(c, m),
           UNCHANGED <<udp_msgs, blk, since, due>>,
           m # Junk => m \in due[conn[c].id],
           blk = 0 => m # Junk /\ m \notin SentTo(conn[c].id) /\ Fits(m, log[c], since[c])
    PROVE  LogOK'
<1>1. KnownIds /\ log \in Logs /\ since \in [Conns -> {Away} \cup Nat]
  BY DEF Types, HistoryTypes
<1>2. \A d \in Conns : conn'[d].id = conn[d].id /\ conn'[d].peer = conn[d].peer
  BY DEF SendsOn
<1>3. CASE log' = [d \in Conns |-> IF d = c THEN Append(log[d], m) ELSE log[d]]
  BY <1>1, <1>2, <1>3, LogGrows
<1>4. CASE log' = log
  <2>1. SameSenders
    BY <1>2 DEF SameSenders
  <2>2. \A id \in Ids : due[id] \subseteq due'[id] /\ due'[id] \subseteq 1 .. Newest'
    BY DEF LogOK, DueReceived, Newest
  <2>3. \A d \in live' : d \in live /\ since'[d] = since[d]
    BY DEF live
  <2> QED BY <1>1, <1>4, <2>1, <2>2, <2>3, LogsStay
<1> QED BY <1>3, <1>4 DEF SendsOn

\* The message of the loop is due to the subscriber it is at and not settled for it yet.
LEMMA NewestComing ==
    ASSUME SInv, Types, RoomOK, LogOK, StoresOK, pc = "transmit"
    PROVE  /\ k \in DOMAIN clients /\ clients[k].id \in Ids /\ k \in Nat
           /\ Newest \in 1 .. MaxPublish /\ Newest \in due[clients[k].id]
           /\ blk = 0 => /\ Accounted(k) /\ Coming(k) = {Newest}
                         /\ Newest \notin Settled(clients[k].id) \cup Held(k)
<1>1. k \in DOMAIN clients /\ k \in Nat /\ CV!TypeOK
  BY DEF Types, SlotsOK
<1>2. clients[k].id \in Ids
  BY <1>1, SlotTypes
<1>3. Concerns(clients[k], Last(udp_msgs)) /\ k >= k
  BY <1>1 DEF RoomOK, Stopped
<1>4. Newest \in 1 .. MaxPublish
  BY MessageTypes DEF Newest, Types
<1>5. Newest \in due[clients[k].id]
  BY <1>1, <1>3 DEF StoresOK, Claimed
<1>6. ASSUME blk = 0
      PROVE  /\ Accounted(k) /\ Coming(k) = {Newest}
             /\ Newest \notin Settled(clients[k].id) \cup Held(k)
  <2>1. Accounted(k)
    BY <1>1, <1>6 DEF StoresOK
  <2>2. Coming(k) = {Newest}
    BY <1>3 DEF Coming
  <2> QED BY <2>1, <2>2 DEF Accounted
<1> QED BY <1>1, <1>2, <1>4, <1>5, <1>6

\* The live message comes last.
LEMMA NewestFits ==
    ASSUME Types, LogOK, StoresOK, pc = "transmit", blk = 0, NEW c \in live,
           conn[c].peer # "free", Newest \notin SentTo(conn[c].id)
    PROVE  Fits(Newest, log[c], since[c])
<1>1. c \in Conns /\ conn[c].id \in Ids
  BY DEF live, Types, KnownIds
<1>2. Newest > since[c]
  <2>1. since[c] < Newest
    BY DEF StoresOK, Registered
  <2>2. since[c] \in Nat /\ Newest \in Nat
    BY <1>1, MessageTypes, BoundsAssumption DEF live, Types, HistoryTypes, Newest
  <2> QED BY <2>1, <2>2
<1>3. ASSUME NEW n \in DOMAIN log[c] PROVE log[c][n] < Newest
  <2>1. log[c][n] \in due[conn[c].id] /\ due[conn[c].id] \subseteq 1 .. Newest
    BY <1>1 DEF LogOK, NoJunk, DueWasSent, DueReceived
  <2>2. log[c][n] # Newest
    BY <1>1, SentIs
  <2>3. Newest \in Nat
    BY MessageTypes, BoundsAssumption DEF Types, Newest
  <2> QED BY <2>1, <2>2, <2>3
<1> QED BY <1>2, <1>3 DEF Fits

\* transmit_send keeps the law of the logs.
LEMMA TransmitLog ==
    ASSUME SInv, Types, RoomOK, FdLaw, SlotLaw, LogOK, StoresOK, transmit_send
    PROVE  LogOK'
<1>1. pc = "transmit" /\ UNCHANGED <<udp_msgs, blk, since, due>>
  BY TransmitSends
<1>2. PICK c \in live : /\ SendsOn(c, Newest) /\ conn[c].id = clients[k].id
                        /\ conn[c].peer # "free"
  BY TransmitSends
<1>3. /\ Newest \in 1 .. MaxPublish /\ Newest \in due[clients[k].id]
      /\ blk = 0 => Newest \notin Settled(clients[k].id)
  BY <1>1, NewestComing
<1>4. Newest # Junk
  BY <1>3 DEF Junk
<1>5. blk = 0 => Newest \notin SentTo(conn[c].id) /\ Fits(Newest, log[c], since[c])
  <2>1. blk = 0 => Newest \notin SentTo(conn[c].id)
    BY <1>2, <1>3 DEF Settled
  <2> QED BY <1>1, <1>2, <2>1, NewestFits
<1> QED BY <1>1, <1>2, <1>3, <1>4, <1>5, SendsLog

\* The loop passes by the other slots.
LEMMA OthersAccounted ==
    ASSUME Types, pc = "transmit", k \in DOMAIN clients, UNCHANGED <<udp_msgs, due>>,
           TransmitFrom(k + 1, Last(udp_msgs)), NEW i \in DOMAIN clients, i # k,
           clients'[i] = clients[i], Settled(clients[i].id)' = Settled(clients[i].id),
           Accounted(i)
    PROVE  Accounted(i)'
<1>1. CV!TypeOK /\ k \in Nat /\ i \in Nat
  BY SlotTypes DEF Types, SlotsOK
<1>2. /\ pc' # "retransmit"
      /\ Concerns(clients[i], Last(udp_msgs)) => (pc' = "transmit" /\ i >= k' <=> i >= k + 1)
  <2>1. k + 1 \in Nat
    BY <1>1
  <2> QED BY <1>1, <2>1, TransmitComing
<1>3. i >= k + 1 <=> i >= k
  BY <1>1
<1>4. Coming(i)' = Coming(i)
  <2>1. CASE Concerns(clients[i], Last(udp_msgs)) /\ i >= k
    <3>1. Coming(i) = {Newest}
      BY <2>1 DEF Coming
    <3>2. Coming(i)' = {Newest'}
      BY <1>2, <1>3, <2>1 DEF Coming
    <3> QED BY <3>1, <3>2 DEF Newest
  <2>2. CASE ~ (Concerns(clients[i], Last(udp_msgs)) /\ i >= k)
    <3>1. Coming(i) = {}
      BY <2>2 DEF Coming
    <3>2. Coming(i)' = {}
      BY <1>2, <1>3, <2>2 DEF Coming
    <3> QED BY <3>1, <3>2
  <2> QED BY <2>1, <2>2
<1>5. ~ Sending(i) /\ ~ Sending(i)'
  BY <1>2 DEF Sending
<1>6. Keep(i)' = Keep(i)
  BY <1>5 DEF Keep
<1> QED BY <1>4, <1>5, <1>6, SlotStaysAccounted DEF Accounted

\* What holds of the stores apart from the accounts, when the loop goes on.
LEMMA LoopStores ==
    ASSUME Types, Serving, StoresOK, pc = "transmit", k \in DOMAIN clients,
           UNCHANGED <<udp_msgs, blk, since, due>>,
           TransmitFrom(k + 1, Last(udp_msgs)), DOMAIN clients' = DOMAIN clients,
           \A i \in DOMAIN clients : /\ clients'[i].id = clients[i].id
                                     /\ clients'[i].status = clients[i].status
                                     /\ SameSubscriptions(clients[i], clients'[i]),
           \A id \in Ids : lost'[id] # lost[id] => id = clients[k].id
    PROVE  Claimed' /\ Registered' /\ NoStray' /\ Resuming'
<1>1. CV!TypeOK /\ k \in Nat /\ k + 1 \in Nat /\ DOMAIN clients = 1 .. Len(clients)
      /\ Len(clients) \in Nat
  BY SlotTypes DEF Types, SlotsOK
<1>2. /\ pc' # "retransmit"
      /\ \A i \in DOMAIN clients : Concerns(clients[i], Last(udp_msgs)) =>
            (pc' = "transmit" /\ i >= k' <=> i >= k + 1)
  BY <1>1, TransmitComing
<1>3. \A i \in DOMAIN clients : Concerns(clients'[i], Last(udp_msgs'))
                                   <=> Concerns(clients[i], Last(udp_msgs))
  BY DEF Concerns, Chosen, SameSubscriptions
<1>4. Claimed'
  <2> SUFFICES ASSUME pc' = "transmit", NEW i \in DOMAIN clients, i >= k',
                      Concerns(clients[i], Last(udp_msgs))
               PROVE  Newest' \in due'[clients'[i].id]
    BY <1>3 DEF Claimed
  <2>1. i >= k
    BY <1>1, <1>2
  <2> QED BY <2>1 DEF StoresOK, Claimed, Newest
<1>5. Registered'
  BY DEF StoresOK, Registered, live, Newest
<1>6. NoStray'
  BY DEF StoresOK, NoStray
<1>7. Resuming'
  BY <1>2 DEF Resuming, Sending
<1> QED BY <1>4, <1>5, <1>6, <1>7

\* The message that was sent is settled for the slot.
LEMMA TransmitStores ==
    ASSUME SInv, Types, RoomOK, Serving, Serving', FdLaw, SlotLaw, LogOK, StoresOK,
           transmit_send
    PROVE  StoresOK'
<1>1. /\ pc = "transmit" /\ k \in DOMAIN clients /\ TransmitFrom(k + 1, Last(udp_msgs))
      /\ UNCHANGED <<clients, udp_msgs, blk, since, due>>
  BY TransmitSends
<1>2. PICK c \in live : /\ SendsOn(c, Newest) /\ conn[c].id = clients[k].id
                        /\ conn[c].peer # "free"
  BY TransmitSends
<1>3. /\ clients[k].id \in Ids /\ k \in Nat /\ Newest \in 1 .. MaxPublish
      /\ blk = 0 => /\ Accounted(k) /\ Coming(k) = {Newest}
                    /\ Newest \notin Settled(clients[k].id) \cup Held(k)
  BY <1>1, NewestComing
<1>4. c \in Conns /\ log \in Logs /\ lost \in Claims /\ CV!TypeOK /\ SlotFields
  BY SlotTypes DEF live, Types, HistoryTypes, SlotsOK, SlotFields
<1>5. \A id \in Ids :
         /\ id = clients[k].id => Settled(id)' = Settled(id) \cup {Newest}
         /\ id # clients[k].id => Settled(id)' = Settled(id)
  BY <1>2, <1>3, <1>4, SettledGrows
<1>6. \A d \in Conns : d \notin live => log'[d] = log[d]
  BY <1>2 DEF SendsOn
<1>7. Blank'
  BY <1>6, StillBlank DEF StoresOK, ServerStep
<1>8. Pointing'
  BY <1>1 DEF StoresOK, Pointing
<1>9. \A id \in Ids : lost'[id] # lost[id] => id = clients[k].id
  BY <1>2, <1>4 DEF SendsOn, Claims
<1>10. Claimed' /\ Registered' /\ NoStray' /\ Resuming'
  <2>1. \A i \in DOMAIN clients : /\ clients'[i].id = clients[i].id
                                  /\ clients'[i].status = clients[i].status
                                  /\ SameSubscriptions(clients[i], clients'[i])
    BY <1>1 DEF SameSubscriptions
  <2> QED BY <1>1, <1>9, <2>1, LoopStores
<1>11. ASSUME blk' = 0, NEW i \in DOMAIN clients PROVE Accounted(i)'
  <2>1. Accounted(i) /\ clients[i].id \in Ids
    BY <1>1, <1>4, <1>11 DEF StoresOK, SlotFields
  <2>2. CASE i # k
    <3>1. clients[i].id # clients[k].id
      BY <1>1, <2>2 DEF SlotLaw, CV!OneSlotPerId
    <3>2. clients'[i] = clients[i] /\ Settled(clients[i].id)' = Settled(clients[i].id)
      BY <1>1, <1>5, <2>1, <3>1
    <3> QED BY <1>1, <2>1, <2>2, <3>2, OthersAccounted
  <2>3. CASE i = k
    <3> DEFINE id == clients[i].id
    <3>1. /\ Settled(id)' = Settled(id) \cup {Newest} /\ Coming(i) = {Newest}
          /\ Newest \notin Settled(id) \cup Held(i)
      BY <1>1, <1>3, <1>5, <1>11, <2>3
    <3>2. /\ pc' # "retransmit"
          /\ Concerns(clients[i], Last(udp_msgs)) =>
                (pc' = "transmit" /\ i >= k' <=> i >= k + 1)
      BY <1>1, <1>3, <1>4, TransmitComing
    <3>3. Coming(i)' = {}
      BY <1>1, <1>3, <2>3, <3>2 DEF Coming
    <3>4. ~ Sending(i) /\ ~ Sending(i)'
      BY <1>1, <3>2 DEF Sending
    <3>5. Held(i)' = Held(i)
      BY <1>1, <3>4 DEF Held, Keep
    <3>6. due'[id] = due[id] /\ clients' = clients
      BY <1>1
    <3>7. /\ due[id] = Settled(id) \cup Held(i) \cup Coming(i)
          /\ Held(i) \cap Settled(id) = {}
          /\ clients[i].status = "ACTIVE" => clients[i].ready_msgs = << >>
          /\ Rising(clients[i].ready_msgs)
      BY <2>1, <3>4 DEF Accounted
    <3> HIDE DEF id
    <3>8. /\ due'[id] = Settled(id)' \cup Held(i)' \cup Coming(i)'
          /\ Held(i)' \cap Settled(id)' = {}
          /\ Coming(i)' \cap (Held(i)' \cup Settled(id)') = {}
      BY <3>1, <3>3, <3>5, <3>6, <3>7
    <3> QED BY <3>6, <3>7, <3>8 DEF Accounted, id
  <2> QED BY <2>2, <2>3
<1> QED BY <1>1, <1>7, <1>8, <1>10, <1>11 DEF StoresOK

\* A store with one more pointer.
LEMMA AppendedStore ==
    ASSUME NEW s \in Seq(Pointers), NEW p \in Pointers
    PROVE  /\ Len(s) \in Nat /\ DOMAIN s = 1 .. Len(s) /\ Len(Append(s, p)) = Len(s) + 1
           /\ DOMAIN Append(s, p) = 1 .. Len(s) + 1
           /\ \A j \in 1 .. Len(s) : Append(s, p)[j] = s[j] /\ s[j] \in Pointers
           /\ Append(s, p)[Len(s) + 1] = p
<1>1. Append(s, p) \in Seq(Pointers) /\ Len(Append(s, p)) = Len(s) + 1
      /\ \A j \in 1 .. Len(s) : Append(s, p)[j] = s[j]
      /\ Append(s, p)[Len(s) + 1] = p
  BY AppendProperties
<1>2. Len(s) \in Nat /\ DOMAIN s = 1 .. Len(s)
  BY LenProperties
<1>3. DOMAIN Append(s, p) = 1 .. Len(s) + 1
  BY <1>1, LenProperties
<1>4. \A j \in 1 .. Len(s) : s[j] \in Pointers
  BY <1>2, ElementOfSeq
<1> QED BY <1>1, <1>2, <1>3, <1>4

\* It holds one more message, and stays in order if that is the newest.
LEMMA AppendedMessages ==
    ASSUME NEW s \in Seq(Pointers), NEW p \in Pointers
    PROVE  /\ {Append(s, p)[j].msg : j \in 1 .. Len(Append(s, p))}
                 = {s[j].msg : j \in 1 .. Len(s)} \cup {p.msg}
           /\ Rising(s) /\ (\A j \in DOMAIN s : s[j].msg < p.msg) => Rising(Append(s, p))
<1>1. /\ Len(s) \in Nat /\ DOMAIN s = 1 .. Len(s) /\ Len(Append(s, p)) = Len(s) + 1
      /\ DOMAIN Append(s, p) = 1 .. Len(s) + 1
      /\ \A j \in 1 .. Len(s) : Append(s, p)[j] = s[j]
      /\ Append(s, p)[Len(s) + 1] = p
  BY AppendedStore
<1> DEFINE w == Append(s, p)
<1> HIDE DEF w
<1>2. /\ Len(s) \in Nat /\ DOMAIN s = 1 .. Len(s) /\ Len(w) = Len(s) + 1
      /\ DOMAIN w = 1 .. Len(s) + 1
      /\ \A j \in 1 .. Len(s) : w[j] = s[j]
      /\ w[Len(s) + 1] = p
  BY <1>1 DEF w
<1>3. {w[j].msg : j \in 1 .. Len(w)} = {s[j].msg : j \in 1 .. Len(s)} \cup {p.msg}
  <2>1. \A j \in 1 .. Len(w) : j \in 1 .. Len(s) \/ j = Len(s) + 1
    BY <1>2
  <2>2. \A j \in 1 .. Len(s) : j \in 1 .. Len(w)
    BY <1>2
  <2>3. Len(s) + 1 \in 1 .. Len(w)
    BY <1>2
  <2> QED BY <1>2, <2>1, <2>2, <2>3
<1>4. ASSUME Rising(s), \A j \in DOMAIN s : s[j].msg < p.msg PROVE Rising(w)
  <2> SUFFICES ASSUME NEW j \in DOMAIN w, NEW l \in DOMAIN w, j < l
               PROVE  w[j].msg < w[l].msg
    BY DEF Rising
  <2>1. j \in DOMAIN s /\ w[j] = s[j]
    BY <1>2
  <2>2. CASE l = Len(s) + 1
    BY <1>2, <1>4, <2>1, <2>2
  <2>3. CASE l # Len(s) + 1
    <3>1. l \in DOMAIN s /\ w[l] = s[l]
      BY <1>2, <2>3
    <3> QED BY <1>4, <2>1, <3>1 DEF Rising
  <2> QED BY <2>2, <2>3
<1> QED BY <1>3, <1>4 DEF w

\* The message that was stored is held for the slot.
LEMMA StoredStores ==
    ASSUME SInv, Types, RoomOK, Serving, Serving', FdLaw, SlotLaw, LogOK, StoresOK,
           transmit_store
    PROVE  StoresOK'
<1> DEFINE p == [blk |-> blk, msg |-> Newest]
<1>1. /\ pc = "transmit" /\ clients[k].status = "DEAD"
      /\ UNCHANGED <<conn, backlog, udp_msgs, blk, since, due, log, lost>>
      /\ CV!add_topic_msg_for_client(p, k, "OK") /\ TransmitFrom(k + 1, Last(udp_msgs))
  BY NotServing DEF transmit_store, Now, netVars, history, Newest
<1>2. /\ k \in DOMAIN clients /\ clients[k].id \in Ids /\ k \in Nat
      /\ Newest \in 1 .. MaxPublish /\ Newest \in due[clients[k].id]
      /\ blk = 0 => /\ Accounted(k) /\ Coming(k) = {Newest}
                    /\ Newest \notin Settled(clients[k].id) \cup Held(k)
  BY <1>1, NewestComing
<1>3. CV!TypeOK /\ SlotFields /\ blk \in Blocks /\ blk \in Nat
  BY SlotTypes, BoundsAssumption
     DEF Types, SlotsOK, SlotFields, DataTypes, ArrayTypes, Blocks
<1>4. p \in Pointers /\ p.msg = Newest /\ p.blk = blk
  BY <1>2, <1>3 DEF Pointers
<1> HIDE DEF p
<1>5. PICK i \in DOMAIN clients : i = k
  BY <1>2
<1>6. /\ DOMAIN clients' = DOMAIN clients
      /\ clients'[i].id = clients[i].id /\ clients'[i].status = clients[i].status
      /\ SameSubscriptions(clients[i], clients'[i])
      /\ clients'[i].ready_msgs = Append(clients[i].ready_msgs, p)
      /\ \A j \in DOMAIN clients : j # i => clients'[j] = clients[j]
  BY <1>1, <1>3, <1>4, <1>5, StoreFacts
<1>7. clients[i].ready_msgs \in Seq(Pointers)
  BY <1>3 DEF SlotFields
<1>8. Blank'
  BY <1>1, StillBlank DEF StoresOK, ServerStep
<1>9. Pointing'
  <2> SUFFICES ASSUME NEW l \in DOMAIN clients, NEW j \in DOMAIN clients'[l].ready_msgs
               PROVE  /\ clients'[l].ready_msgs[j].msg \in due[clients'[l].id]
                      /\ clients'[l].ready_msgs[j].blk <= blk
    BY <1>1, <1>6 DEF Pointing
  <2>1. CASE l # i
    BY <1>6, <2>1 DEF StoresOK, Pointing
  <2>2. CASE l = i
    <3>1. \/ j \in DOMAIN clients[i].ready_msgs
             /\ clients'[l].ready_msgs[j] = clients[i].ready_msgs[j]
          \/ clients'[l].ready_msgs[j] = p
      BY <1>4, <1>6, <1>7, <2>2, AppendedStore
    <3> QED BY <1>2, <1>3, <1>4, <1>5, <1>6, <2>2, <3>1 DEF StoresOK, Pointing
  <2> QED BY <2>1, <2>2
<1>10. Claimed' /\ Registered' /\ NoStray' /\ Resuming'
  <2>1. \A l \in DOMAIN clients : /\ clients'[l].id = clients[l].id
                                  /\ clients'[l].status = clients[l].status
                                  /\ SameSubscriptions(clients[l], clients'[l])
    BY <1>6 DEF SameSubscriptions
  <2>2. \A id \in Ids : lost'[id] # lost[id] => id = clients[k].id
    BY <1>1
  <2> QED BY <1>1, <1>2, <1>6, <2>1, <2>2, LoopStores
<1>11. \A id : Settled(id)' = Settled(id)
  BY <1>1 DEF Settled, SentTo
<1>12. ASSUME blk' = 0, NEW l \in DOMAIN clients PROVE Accounted(l)'
  <2>1. Accounted(l)
    BY <1>1, <1>12 DEF StoresOK
  <2>2. CASE l # i
    <3>1. clients'[l] = clients[l] /\ Settled(clients[l].id)' = Settled(clients[l].id)
      BY <1>6, <1>11, <2>2
    <3>2. l # k /\ UNCHANGED <<udp_msgs, due>>
      BY <1>1, <1>5, <2>2
    <3> QED BY <1>1, <1>2, <2>1, <3>1, <3>2, OthersAccounted
  <2>3. CASE l = i
    <3> DEFINE id == clients[i].id
    <3>1. Coming(i) = {Newest} /\ Newest \notin Settled(id) \cup Held(i)
      BY <1>1, <1>2, <1>5, <1>12
    <3>2. /\ pc' # "retransmit"
          /\ Concerns(clients[i], Last(udp_msgs)) =>
                (pc' = "transmit" /\ i >= k' <=> i >= k + 1)
      <4>1. k + 1 \in Nat
        BY <1>2
      <4> QED BY <1>1, <1>3, <4>1, TransmitComing
    <3>3. Coming(i)' = {}
      <4>1. Concerns(clients'[i], Last(udp_msgs')) <=> Concerns(clients[i], Last(udp_msgs))
        BY <1>1, <1>6 DEF Concerns, Chosen, SameSubscriptions
      <4>2. ~ i >= k + 1
        BY <1>2, <1>5
      <4> QED BY <3>2, <4>1, <4>2 DEF Coming
    <3>4. ~ Sending(i) /\ ~ Sending(i)'
      BY <1>1, <3>2 DEF Sending
    <3>5. Held(i) = {clients[i].ready_msgs[j].msg : j \in 1 .. Len(clients[i].ready_msgs)}
      BY <3>4 DEF Held, Keep
    <3>6. Held(i)' = {clients'[i].ready_msgs[j].msg : j \in 1 .. Len(clients'[i].ready_msgs)}
      BY <3>4 DEF Held, Keep
    <3>7. Held(i)' = Held(i) \cup {Newest}
      BY <1>4, <1>6, <1>7, <3>5, <3>6, AppendedMessages
    <3>8. Rising(clients'[i].ready_msgs)
      <4>1. ASSUME NEW j \in DOMAIN clients[i].ready_msgs
            PROVE  clients[i].ready_msgs[j].msg < p.msg
        <5>1. clients[i].ready_msgs[j].msg \in Held(i)
          BY <1>7, <3>5, AppendedStore, <1>4
        <5>2. clients[i].ready_msgs[j].msg \in due[clients[i].id]
          BY DEF StoresOK, Pointing
        <5>3. clients[i].ready_msgs[j].msg \in 1 .. Newest
          BY <1>2, <1>5, <5>2 DEF LogOK, DueReceived
        <5> QED BY <1>2, <1>4, <3>1, <5>1, <5>3, BoundsAssumption
      <4>2. Rising(clients[i].ready_msgs)
        BY <2>1, <2>3 DEF Accounted
      <4> QED BY <1>4, <1>6, <1>7, <4>1, <4>2, AppendedMessages
    <3>9. /\ due'[id] = due[id] /\ Settled(id)' = Settled(id) /\ clients'[i].id = id
          /\ clients'[i].status = "DEAD"
      BY <1>1, <1>5, <1>6, <1>11
    <3>10. due[id] = Settled(id) \cup Held(i) \cup Coming(i) /\ Held(i) \cap Settled(id) = {}
      BY <2>1, <2>3 DEF Accounted
    <3> HIDE DEF id
    <3>11. /\ due'[id] = Settled(id)' \cup Held(i)' \cup Coming(i)'
           /\ Held(i)' \cap Settled(id)' = {}
           /\ Coming(i)' \cap (Held(i)' \cup Settled(id)') = {}
      BY <3>1, <3>3, <3>7, <3>9, <3>10
    <3> QED BY <2>3, <3>8, <3>9, <3>11 DEF Accounted, id
  <2> QED BY <2>2, <2>3
<1> QED BY <1>1, <1>6, <1>8, <1>9, <1>10, <1>12 DEF StoresOK

-----------------------------------------------------------------------------
(* The registration of a connection. *)

\* What recv_id does to the messages while the server goes on.
LEMMA RegistersOrRefuses ==
    ASSUME SInv, Types, Serving, Serving', FdLaw, recv_id
    PROVE  /\ pc = "recv_id" /\ UNCHANGED <<backlog, udp_msgs, blk, due, log, lost>>
           /\ \E c \in ConnsOf(newFd) :
                 \/ /\ CV!register_new_client(conn[c].id, newFd, "OK")
                    /\ conn' = Received(c) /\ since' = [since EXCEPT ![c] = Newest]
                    /\ pc' = "retransmit" /\ UNCHANGED pfds
                    /\ \E i \in DOMAIN clients' : /\ clients'[i].fd = newFd
                                                  /\ k' = Len(clients'[i].ready_msgs)
                 \/ /\ UNCHANGED <<clients, since>>
                    /\ \E vec, n : ContinueAt(vec, n)
<1>1. pc = "recv_id" /\ UNCHANGED <<backlog, udp_msgs, blk, due, log, lost>>
  BY DEF recv_id, Now
<1>2. PICK c \in ConnsOf(newFd), result \in CV!Results :
        /\ CV!register_new_client(conn[c].id, newFd, result)
        /\ \/ /\ result = "OK" /\ conn' = Received(c)
              /\ since' = [since EXCEPT ![c] = Len(udp_msgs)]
              /\ pc' = "retransmit"
              /\ k' \in {Len(clients'[i].ready_msgs) :
                            i \in {j \in DOMAIN clients' :
                                     /\ clients'[j].fd = newFd
                                     /\ \A l \in 1 .. j - 1 : clients'[l].fd # newFd}}
              /\ UNCHANGED <<pfds, iter>>
           \/ /\ result # "OK"
              /\ ContinueAt(poll_vec_remove_fd(pfds, Len(pfds)), iter + 1)
              /\ UNCHANGED <<since, k>>
  BY NotServing DEF recv_id
<1>3. CASE result = "OK"
  BY <1>1, <1>2, <1>3 DEF Newest
<1>4. CASE result # "OK"
  <2>1. UNCHANGED clients
    BY <1>2, <1>4, RefusedFacts
  <2> QED BY <1>1, <1>2, <1>4, <2>1
<1> QED BY <1>3, <1>4

\* No slot has the descriptor of a new connection.
LEMMA NewFdIsFree ==
    ASSUME SInv, Types, FdLaw, SlotLaw, pc = "recv_id", NEW c \in ConnsOf(newFd)
    PROVE  \A j \in DOMAIN clients : clients[j].fd # newFd
<1> SUFFICES ASSUME NEW j \in DOMAIN clients, clients[j].fd = newFd PROVE FALSE
  OBVIOUS
<1>1. /\ newFd # NoFd /\ c \notin live /\ \A d \in Conns : d # c => conn[d].fd # newFd
  BY PendingConn
<1>2. clients[j].status = "ACTIVE"
  BY <1>1, SlotTypes DEF SlotLaw, Types, SlotsOK
<1>3. PICK d \in live : SlotOfConn(clients[j], d)
  BY <1>2 DEF SlotLaw
<1> QED BY <1>1, <1>3 DEF SlotOfConn, live

\* The slot of the ID is there or new, and holds what was stored for the ID.
LEMMA RegisteredSlot ==
    ASSUME SInv, Types, FdLaw, SlotLaw, pc = "recv_id", NEW c \in ConnsOf(newFd),
           CV!register_new_client(conn[c].id, newFd, "OK")
    PROVE  \E i \in DOMAIN clients' :
              /\ clients'[i].fd = newFd /\ clients'[i].id = conn[c].id
              /\ \A j \in DOMAIN clients' : j # i =>
                    /\ j \in DOMAIN clients /\ clients'[j] = clients[j]
                    /\ clients[j].fd # newFd
              /\ \A j \in DOMAIN clients : j \in DOMAIN clients'
              /\ \/ /\ i \in DOMAIN clients /\ clients[i].id = conn[c].id
                    /\ clients'[i].ready_msgs = clients[i].ready_msgs
                 \/ /\ \A j \in DOMAIN clients : j # i /\ clients[j].id # conn[c].id
                    /\ clients'[i].ready_msgs = << >>
<1>1. newFd \in Fds /\ conn[c].id \in Ids
  BY PendingConn
<1>2. \A j \in DOMAIN clients : clients[j].fd # newFd
  BY NewFdIsFree
<1>3. CV!TypeOK /\ Len(clients) \in Nat /\ DOMAIN clients = 1 .. Len(clients)
  BY SlotTypes DEF Types, SlotsOK
<1>4. CASE \E i \in DOMAIN clients :
              /\ clients[i].id = conn[c].id /\ DOMAIN clients' = DOMAIN clients
              /\ clients'[i].fd = newFd
              /\ SameSubscriptions(clients[i], clients'[i])
              /\ clients'[i].ready_msgs = clients[i].ready_msgs
              /\ \A j \in DOMAIN clients : j # i => clients'[j] = clients[j]
  BY <1>2, <1>4 DEF SameSubscriptions
<1>5. CASE /\ \A j \in DOMAIN clients : clients[j].id # conn[c].id /\ clients'[j] = clients[j]
           /\ DOMAIN clients' = 1 .. Len(clients) + 1
           /\ clients'[Len(clients) + 1] = CV!NewSlot(conn[c].id, newFd)
  <2> DEFINE i == Len(clients) + 1
  <2>1. /\ i \in DOMAIN clients' /\ \A j \in DOMAIN clients : j # i /\ j \in DOMAIN clients'
        /\ \A j \in DOMAIN clients' : j # i => j \in DOMAIN clients
    BY <1>3, <1>5
  <2>2. /\ clients'[i].fd = newFd /\ clients'[i].id = conn[c].id
        /\ clients'[i].ready_msgs = << >>
    BY <1>5 DEF CV!NewSlot
  <2> HIDE DEF i
  <2> QED BY <1>2, <1>5, <2>1, <2>2
<1> QED BY <1>1, <1>3, <1>4, <1>5, RegisterFacts

\* An ID is registered with all that is held for it still to be sent, or refused.
LEMMA RegisteredStores ==
    ASSUME SInv, Types, Serving, Serving', FdLaw, SlotLaw, LogOK, StoresOK, recv_id
    PROVE  StoresOK'
<1>1. pc = "recv_id" /\ UNCHANGED <<backlog, udp_msgs, blk, due, log, lost>>
  BY RegistersOrRefuses
<1>2. PICK c \in ConnsOf(newFd) :
         \/ /\ CV!register_new_client(conn[c].id, newFd, "OK")
            /\ conn' = Received(c) /\ since' = [since EXCEPT ![c] = Newest]
            /\ pc' = "retransmit" /\ UNCHANGED pfds
            /\ \E i \in DOMAIN clients' : /\ clients'[i].fd = newFd
                                          /\ k' = Len(clients'[i].ready_msgs)
         \/ /\ UNCHANGED <<clients, since>>
            /\ \E vec, n : ContinueAt(vec, n)
  BY RegistersOrRefuses
<1>3. SameSenders
  BY ServerSenders DEF ServerStep
<1>4. Blank'
  BY <1>1, StillBlank DEF StoresOK, ServerStep
<1>5. CASE UNCHANGED <<clients, since>> /\ \E vec, n : ContinueAt(vec, n)
  <2>1. pc' \notin {"transmit", "retransmit"}
    BY <1>5, LeadsOutside
  <2>2. \A d \in live' : d \in live /\ since'[d] = since[d]
    BY <1>5 DEF live
  <2> QED BY <1>1, <1>3, <1>4, <1>5, <2>1, <2>2, StoresStay
<1>6. CASE /\ CV!register_new_client(conn[c].id, newFd, "OK")
           /\ conn' = Received(c) /\ since' = [since EXCEPT ![c] = Newest]
           /\ pc' = "retransmit" /\ UNCHANGED pfds
           /\ \E i \in DOMAIN clients' : /\ clients'[i].fd = newFd
                                         /\ k' = Len(clients'[i].ready_msgs)
  <2>1. /\ c \in Conns /\ c \notin live /\ conn[c].id \in Ids /\ Pending(c)
        /\ \A d \in Conns : d # c => conn[d].fd # newFd
    BY <1>1, PendingConn
  <2>2. PICK i \in DOMAIN clients' :
          /\ clients'[i].fd = newFd /\ clients'[i].id = conn[c].id
          /\ \A j \in DOMAIN clients' : j # i =>
                /\ j \in DOMAIN clients /\ clients'[j] = clients[j]
                /\ clients[j].fd # newFd
          /\ \A j \in DOMAIN clients : j \in DOMAIN clients'
          /\ \/ /\ i \in DOMAIN clients /\ clients[i].id = conn[c].id
                /\ clients'[i].ready_msgs = clients[i].ready_msgs
             \/ /\ \A j \in DOMAIN clients : j # i /\ clients[j].id # conn[c].id
                /\ clients'[i].ready_msgs = << >>
    BY <1>1, <1>6, RegisteredSlot
  <2>3. k' = Len(clients'[i].ready_msgs) /\ newFd' = newFd
    BY <1>6, <2>2 DEF newFd
  <2>4. ASSUME NEW d \in live'
        PROVE  (d = c /\ since'[d] = Newest) \/ (d \in live /\ since'[d] = since[d])
    <3>1. since \in [Conns -> {Away} \cup Nat] /\ d \in Conns /\ since'[d] # Away
      BY DEF Types, HistoryTypes, live
    <3>2. since'[d] = IF d = c THEN Newest ELSE since[d]
      BY <1>6, <2>1, <3>1
    <3> QED BY <3>1, <3>2 DEF live
  <2>5. \A d \in Conns : conn'[d].fd = conn[d].fd
    BY <1>6, <2>1, ReceiveFacts DEF SInv
  <2>6. log[c] = << >>
    BY <2>1 DEF StoresOK, Blank
  <2>7. Pointing'
    <3> SUFFICES ASSUME NEW j \in DOMAIN clients', NEW l \in DOMAIN clients'[j].ready_msgs
                 PROVE  /\ clients'[j].ready_msgs[l].msg \in due[clients'[j].id]
                        /\ clients'[j].ready_msgs[l].blk <= blk
      BY <1>1 DEF Pointing
    <3>1. CASE j # i
      BY <2>2, <3>1 DEF StoresOK, Pointing
    <3>2. CASE j = i
      <4>1. clients'[i].ready_msgs # << >>
        BY <3>2
      <4>2. /\ i \in DOMAIN clients /\ clients[i].id = conn[c].id
            /\ clients'[i].ready_msgs = clients[i].ready_msgs
        BY <2>2, <4>1
      <4> QED BY <2>2, <3>2, <4>2 DEF StoresOK, Pointing
    <3> QED BY <3>1, <3>2
  <2>8. Claimed'
    BY <1>6 DEF Claimed
  <2>9. Registered'
    <3> SUFFICES ASSUME NEW d \in live' PROVE since'[d] <= Newest
      BY <1>1, <1>6 DEF Registered, Newest
    <3>1. Newest \in Nat
      BY LenProperties DEF Newest, Types, DataTypes, ArrayTypes
    <3> QED BY <2>4, <3>1 DEF StoresOK, Registered
  <2>10. NoStray'
    BY <1>1, <2>2 DEF StoresOK, NoStray
  <2>11. Resuming'
    <3> SUFFICES ASSUME NEW j \in DOMAIN clients', NEW d \in live', conn'[d].fd = newFd
                 PROVE  since'[d] = Newest /\ log'[d] = << >>
      BY <1>1, <2>3 DEF Resuming, Newest
    <3>1. d = c
      BY <2>1, <2>5 DEF live
    <3> QED BY <1>1, <2>1, <2>4, <2>6, <3>1
  <2>12. ASSUME blk' = 0, NEW j \in DOMAIN clients' PROVE Accounted(j)'
    <3>1. \A id : Settled(id)' = Settled(id)
      BY <1>1, <1>3, SameSent DEF Settled
    <3>2. (Sending(j)' <=> j = i) /\ Coming(j)' = {}
      BY <1>6, <2>2, <2>3 DEF Sending, Coming
    <3>3. Keep(j)' = Len(clients'[j].ready_msgs)
      BY <2>3, <3>2 DEF Keep
    <3>4. CASE j \in DOMAIN clients /\ clients'[j].id = clients[j].id
               /\ clients'[j].ready_msgs = clients[j].ready_msgs
      <4>1. Accounted(j)
        BY <1>1, <2>12, <3>4 DEF StoresOK
      <4>2. ~ Sending(j) /\ Coming(j) = {}
        BY <1>1 DEF Sending, Coming
      <4>3. Keep(j)' = Keep(j)
        BY <3>3, <3>4, <4>2 DEF Keep
      <4>4. due'[clients[j].id] = due[clients[j].id]
            /\ Settled(clients[j].id)' = Settled(clients[j].id)
        BY <1>1, <3>1, <3>4
      <4>5. clients'[j].status = "ACTIVE" /\ ~ Sending(j)' => clients[j].status = "ACTIVE"
        BY <2>2, <3>2
      <4> QED BY <3>2, <3>4, <4>1, <4>2, <4>3, <4>4, <4>5, SlotStaysAccounted
    <3>5. CASE /\ j = i /\ clients'[i].ready_msgs = << >>
               /\ \A l \in DOMAIN clients : clients[l].id # conn[c].id
      <4> DEFINE id == conn[c].id
      <4>1. due[id] = {} /\ lost[id] = {}
        BY <2>1, <3>5 DEF StoresOK, NoStray
      <4>2. SentTo(id) = {}
        <5>1. \A m \in SentTo(id) : m \in due[id]
          BY <1>1, <2>12, SentIs DEF LogOK, DueWasSent, NoJunk
        <5> QED BY <4>1, <5>1
      <4>3. Settled(id) = {}
        BY <4>1, <4>2 DEF Settled
      <4> HIDE DEF id
      <4>4. Settled(id) = {} /\ due[id] = {} /\ clients'[j].id = id
        BY <2>2, <3>5, <4>1, <4>3 DEF id
      <4>5. Settled(clients[j].id)' = {} /\ due'[clients'[j].id] = {}
        BY <1>1, <3>1, <4>4
      <4>6. Held(j)' = {}
        BY <3>3, <3>5 DEF Held
      <4>7. Rising(clients'[j].ready_msgs) /\ clients'[j].ready_msgs = << >>
        BY <3>5 DEF Rising
      <4> QED BY <3>2, <4>5, <4>6, <4>7 DEF Accounted
    <3>6. CASE j # i
      BY <2>2, <3>4, <3>6
    <3>7. CASE j = i
      BY <2>2, <3>4, <3>5, <3>7
    <3> QED BY <3>6, <3>7
  <2> QED BY <1>4, <2>7, <2>8, <2>9, <2>10, <2>11, <2>12 DEF StoresOK
<1> QED BY <1>2, <1>5, <1>6

-----------------------------------------------------------------------------
(* The loop over the stored messages. *)

\* The loop is at the slot of the connection that was registered last.
LEMMA RetransmitSlot ==
    ASSUME SInv, Types, FdLaw, SlotLaw, pc = "retransmit", NEW i \in DOMAIN clients,
           CV!IsFirst(i, CV!SlotsOfFd(newFd))
    PROVE  /\ clients[i].fd = newFd /\ newFd # NoFd /\ clients[i].status = "ACTIVE"
           /\ clients[i].id \in Ids /\ Sending(i)
           /\ \A j \in DOMAIN clients : Sending(j) => j = i
           /\ \A j \in DOMAIN clients : j # i => clients[j].id # clients[i].id
           /\ Len(clients[i].ready_msgs) \in Nat /\ k \in 0 .. Len(clients[i].ready_msgs)
           /\ DOMAIN clients[i].ready_msgs = 1 .. Len(clients[i].ready_msgs)
           /\ \A j \in DOMAIN clients[i].ready_msgs : clients[i].ready_msgs[j] \in Pointers
<1>1. pfds \in Seq(Entries) /\ Len(pfds) > 0
  BY DEF SInv, RoundOK, InRound, VecOK
<1>2. newFd = pfds[Len(pfds)].fd /\ Len(pfds) \in DOMAIN pfds
  BY <1>1, VecTypes DEF newFd, Last
<1>3. newFd # NoFd
  BY <1>1, <1>2, VecTypes, EntryTypes
<1>4. clients[i].fd = newFd
  BY DEF CV!IsFirst, CV!SlotsOfFd
<1>5. CV!TypeOK /\ k \in Nat
  BY DEF Types, SlotsOK
<1>6. clients[i].status = "ACTIVE" /\ clients[i].id \in Ids
  BY <1>3, <1>4, <1>5, SlotTypes DEF SlotLaw
<1>7. \A j \in DOMAIN clients : clients[j].fd = newFd => j = i
  BY <1>3, <1>4, <1>5, OneSlotPerFd
<1>8. \A j \in DOMAIN clients : j # i => clients[j].id # clients[i].id
  BY DEF SlotLaw, CV!OneSlotPerId
<1>9. k <= Len(clients[i].ready_msgs)
  BY DEF Types, SlotsOK
<1>10. /\ Len(clients[i].ready_msgs) \in Nat
       /\ DOMAIN clients[i].ready_msgs = 1 .. Len(clients[i].ready_msgs)
       /\ \A j \in DOMAIN clients[i].ready_msgs : clients[i].ready_msgs[j] \in Pointers
  BY <1>5, StoredTypes
<1> QED BY <1>3, <1>4, <1>5, <1>6, <1>7, <1>8, <1>9, <1>10 DEF Sending

\* The messages of the oldest n pointers.
LEMMA FirstMessages ==
    ASSUME NEW s \in Seq(Pointers), NEW n \in 0 .. Len(s)
    PROVE  MessagesOf(SubSeq(s, 1, n)) = {s[j].msg : j \in 1 .. n}
<1>1. Len(s) \in Nat /\ DOMAIN s = 1 .. Len(s)
  BY LenProperties
<1>2. /\ DOMAIN SubSeq(s, 1, n) = 1 .. n
      /\ \A j \in 1 .. n : SubSeq(s, 1, n)[j] = s[j]
  BY <1>1, SubSeqProperties, LenProperties
<1> QED BY <1>2 DEF MessagesOf

\* What reading a stored pointer yields is due, unless the array moved since.
LEMMA StoredMessage ==
    ASSUME SInv, Types, StoresOK, NEW i \in DOMAIN clients,
           NEW j \in DOMAIN clients[i].ready_msgs, NEW m \in Stored(clients[i].ready_msgs[j])
    PROVE  /\ m \in {Junk} \cup 1 .. MaxPublish
           /\ m # Junk => m = clients[i].ready_msgs[j].msg /\ m \in due[clients[i].id]
           /\ blk = 0 => m = clients[i].ready_msgs[j].msg /\ m # Junk
<1> DEFINE p == clients[i].ready_msgs[j]
<1>1. /\ p.msg \in 1 .. MaxPublish /\ p.blk \in Nat
  BY StoredTypes DEF Types, SlotsOK
<1>2. p.msg \in due[clients[i].id] /\ p.blk <= blk
  BY DEF StoresOK, Pointing
<1>3. m = p.msg \/ (m = Junk /\ p.blk # blk)
  BY DEF Stored
<1> HIDE DEF p
<1>4. blk = 0 => p.blk = blk
  BY <1>1, <1>2
<1>5. p.msg # Junk
  BY <1>1 DEF Junk
<1>6. /\ m \in {Junk} \cup 1 .. MaxPublish
      /\ m # Junk => m = p.msg /\ m \in due[clients[i].id]
      /\ blk = 0 => m = p.msg /\ m # Junk
  BY <1>1, <1>2, <1>3, <1>4, <1>5
<1> QED BY <1>6 DEF p

\* retransmit_send sends the k-th message of the slot, or gives up the first k.
LEMMA RetransmitSends ==
    ASSUME SInv, Types, FdLaw, SlotLaw, retransmit_send
    PROVE  /\ pc = "retransmit" /\ k > 0 /\ UNCHANGED <<udp_msgs, blk, since, due>>
           /\ \A d \in Conns : conn'[d].id = conn[d].id /\ conn'[d].peer = conn[d].peer
                               /\ conn'[d].fd = conn[d].fd
           /\ \E i \in DOMAIN clients, c \in live :
                 /\ CV!IsFirst(i, CV!SlotsOfFd(newFd))
                 /\ conn[c].id = clients[i].id /\ conn[c].peer # "free"
                 /\ conn[c].fd = newFd
                 /\ \/ /\ UNCHANGED <<pc, pfds, clients>> /\ k' = k - 1
                       /\ \E m \in Stored(clients[i].ready_msgs[k]) :
                             /\ SendsOn(c, m) /\ lost' = lost
                             /\ log' = [d \in Conns |-> IF d = c THEN Append(log[d], m)
                                                                 ELSE log[d]]
                    \/ /\ log' = log /\ EndRetransmit(i)
                       /\ lost' = [lost EXCEPT ![clients[i].id] =
                            @ \cup {clients[i].ready_msgs[j].msg : j \in 1 .. k}]
<1>1. pc = "retransmit" /\ k > 0 /\ UNCHANGED <<udp_msgs, blk, since, due>>
  BY DEF retransmit_send, Now
<1>2. \E result : send_tcp_msg(newFd, result)
  BY DEF retransmit_send
<1>3. \A d \in Conns : conn'[d].id = conn[d].id /\ conn'[d].peer = conn[d].peer
                       /\ conn'[d].fd = conn[d].fd
  BY <1>2, SendFacts DEF SInv, SameSubscriber
<1>4. PICK i \in DOMAIN clients : CV!IsFirst(i, CV!SlotsOfFd(newFd)) /\
        \E m \in Stored(clients[i].ready_msgs[k]) :
           \/ /\ log' = [c \in Conns |-> IF c \in ConnsOf(newFd) THEN Append(log[c], m)
                                                                 ELSE log[c]]
              /\ k' = k - 1
              /\ UNCHANGED <<pc, pfds, iter, clients, lost>>
           \/ /\ lost' = [lost EXCEPT ![clients[i].id] =
                             @ \cup MessagesOf(SubSeq(clients[i].ready_msgs, 1, k))]
              /\ EndRetransmit(i)
              /\ UNCHANGED log
  BY DEF retransmit_send, NextStored
<1>5. /\ clients[i].fd = newFd /\ clients[i].status = "ACTIVE"
      /\ k \in 0 .. Len(clients[i].ready_msgs)
  BY <1>1, <1>4, RetransmitSlot
<1>6. PICK c \in live : /\ ConnsOf(newFd) = {c} /\ conn[c].id = clients[i].id
                        /\ conn[c].fd = newFd /\ conn[c].peer # "free"
  BY <1>5, Receiver
<1>7. MessagesOf(SubSeq(clients[i].ready_msgs, 1, k))
         = {clients[i].ready_msgs[j].msg : j \in 1 .. k}
  BY <1>5, SlotTypes, FirstMessages DEF Types, SlotsOK
<1>8. ASSUME NEW m \in Stored(clients[i].ready_msgs[k]),
             log' = [d \in Conns |-> IF d \in ConnsOf(newFd) THEN Append(log[d], m)
                                                              ELSE log[d]],
             k' = k - 1, UNCHANGED <<pc, pfds, iter, clients, lost>>
      PROVE  /\ UNCHANGED <<pc, pfds, clients>> /\ k' = k - 1
             /\ SendsOn(c, m) /\ lost' = lost
             /\ log' = [d \in Conns |-> IF d = c THEN Append(log[d], m) ELSE log[d]]
  <2>1. log' = [d \in Conns |-> IF d = c THEN Append(log[d], m) ELSE log[d]]
    BY <1>6, <1>8
  <2>2. SendsOn(c, m)
    BY <1>3, <1>8, <2>1 DEF SendsOn
  <2> QED BY <1>8, <2>1, <2>2
<1>9. CASE /\ lost' = [lost EXCEPT ![clients[i].id] =
                          @ \cup MessagesOf(SubSeq(clients[i].ready_msgs, 1, k))]
           /\ EndRetransmit(i)
           /\ UNCHANGED log
  BY <1>1, <1>3, <1>4, <1>6, <1>7, <1>9
<1>10. CASE \E m \in Stored(clients[i].ready_msgs[k]) :
           /\ log' = [d \in Conns |-> IF d \in ConnsOf(newFd) THEN Append(log[d], m)
                                                              ELSE log[d]]
           /\ k' = k - 1
           /\ UNCHANGED <<pc, pfds, iter, clients, lost>>
  BY <1>1, <1>3, <1>4, <1>6, <1>8, <1>10
<1> QED BY <1>4, <1>9, <1>10

\* The message of the store that is sent next is the newest of those that are held.
LEMMA NextHeld ==
    ASSUME SInv, Types, FdLaw, SlotLaw, LogOK, StoresOK, pc = "retransmit", k > 0, blk = 0,
           NEW i \in DOMAIN clients, CV!IsFirst(i, CV!SlotsOfFd(newFd)),
           NEW c \in live, conn[c].id = clients[i].id, conn[c].fd = newFd
    PROVE  LET m == clients[i].ready_msgs[k].msg IN
           /\ m \notin Settled(clients[i].id) /\ Fits(m, log[c], since[c])
           /\ Held(i) = {clients[i].ready_msgs[j].msg : j \in 1 .. k - 1} \cup {m}
           /\ \A j \in 1 .. k - 1 : clients[i].ready_msgs[j].msg < m
<1> DEFINE s == clients[i].ready_msgs
           m == s[k].msg
<1>1. /\ Sending(i) /\ Len(s) \in Nat /\ k \in 0 .. Len(s) /\ DOMAIN s = 1 .. Len(s)
      /\ clients[i].id \in Ids
  BY RetransmitSlot
<1>2. Accounted(i) /\ Resuming
  BY DEF StoresOK
<1>3. k \in 1 .. k /\ k \in DOMAIN s /\ k \in Nat
  BY <1>1
<1>4. Held(i) = {s[j].msg : j \in 1 .. k}
  BY <1>1 DEF Held, Keep
<1>5. Rising(s) /\ Held(i) \cap Settled(clients[i].id) = {}
  BY <1>2 DEF Accounted
<1>6. m \in due[clients[i].id]
  BY <1>3 DEF StoresOK, Pointing
<1>7. m \in 1 .. Newest /\ Newest \in Nat
  BY <1>1, <1>6, LenProperties DEF LogOK, DueReceived, Newest, Types, DataTypes, ArrayTypes
<1>8. /\ since[c] = Newest
      /\ \A n \in DOMAIN log[c] : \A x \in 1 .. k : log[c][n] > s[x].msg
  BY <1>1, <1>2 DEF Resuming
<1> HIDE DEF s
<1>9. m \notin Settled(clients[i].id)
  BY <1>3, <1>4, <1>5
<1>10. Held(i) = {s[j].msg : j \in 1 .. k - 1} \cup {m}
  <2>1. \A j : j \in 1 .. k <=> j \in 1 .. k - 1 \/ j = k
    BY <1>3
  <2> QED BY <1>4, <2>1
<1>11. \A j \in 1 .. k - 1 : s[j].msg < m
  <2>1. \A j \in 1 .. k - 1 : j \in DOMAIN s /\ j < k
    BY <1>1
  <2> QED BY <1>3, <1>5, <2>1 DEF Rising
<1>12. Fits(m, log[c], since[c])
  <2>1. m <= since[c]
    BY <1>7, <1>8
  <2>2. \A n \in DOMAIN log[c] : log[c][n] > m
    BY <1>3, <1>8
  <2> QED BY <2>1, <2>2 DEF Fits
<1> QED BY <1>9, <1>10, <1>11, <1>12 DEF s

\* retransmit_send keeps the law of the logs.
LEMMA RetransmitLog ==
    ASSUME SInv, Types, FdLaw, SlotLaw, LogOK, StoresOK, retransmit_send
    PROVE  LogOK'
<1>1. /\ pc = "retransmit" /\ k > 0 /\ UNCHANGED <<udp_msgs, blk, since, due>>
      /\ \A d \in Conns : conn'[d].id = conn[d].id /\ conn'[d].peer = conn[d].peer
  BY RetransmitSends
<1>2. CASE log' = log
  <2>1. SameSenders /\ KnownIds
    BY <1>1 DEF SameSenders, Types
  <2>2. \A id \in Ids : due[id] \subseteq due'[id] /\ due'[id] \subseteq 1 .. Newest'
    BY <1>1 DEF LogOK, DueReceived, Newest
  <2>3. \A d \in live' : d \in live /\ since'[d] = since[d]
    BY <1>1 DEF live
  <2> QED BY <1>1, <1>2, <2>1, <2>2, <2>3, LogsStay
<1>3. ASSUME NEW i \in DOMAIN clients, NEW c \in live,
             CV!IsFirst(i, CV!SlotsOfFd(newFd)),
             conn[c].id = clients[i].id, conn[c].peer # "free", conn[c].fd = newFd,
             NEW m \in Stored(clients[i].ready_msgs[k]), SendsOn(c, m)
      PROVE  LogOK'
  <2>1. k \in DOMAIN clients[i].ready_msgs
    <3>1. /\ k \in 0 .. Len(clients[i].ready_msgs) /\ Len(clients[i].ready_msgs) \in Nat
          /\ DOMAIN clients[i].ready_msgs = 1 .. Len(clients[i].ready_msgs)
      BY <1>1, <1>3, RetransmitSlot
    <3> QED BY <1>1, <3>1
  <2>2. /\ m \in {Junk} \cup 1 .. MaxPublish
        /\ m # Junk => m \in due[clients[i].id]
        /\ blk = 0 => m = clients[i].ready_msgs[k].msg /\ m # Junk
    BY <1>3, <2>1, StoredMessage
  <2>3. blk = 0 => m # Junk /\ m \notin SentTo(conn[c].id) /\ Fits(m, log[c], since[c])
    <3>1. blk = 0 => m \notin Settled(clients[i].id) /\ Fits(m, log[c], since[c])
      BY <1>1, <1>3, <2>2, NextHeld
    <3> QED BY <1>3, <2>2, <3>1 DEF Settled
  <2> QED BY <1>1, <1>3, <2>2, <2>3, SendsLog
<1> QED BY <1>2, <1>3, RetransmitSends

\* What holds of the stores apart from the accounts, after a step of the loop.
LEMMA ResendingStores ==
    ASSUME Types, StoresOK, pc = "retransmit", UNCHANGED <<udp_msgs, blk, since, due>>,
           pc' # "transmit", DOMAIN clients' = DOMAIN clients, NEW i \in DOMAIN clients,
           \A j \in DOMAIN clients : clients'[j].id = clients[j].id,
           \A j \in DOMAIN clients : \A l \in DOMAIN clients'[j].ready_msgs :
              /\ l \in DOMAIN clients[j].ready_msgs
              /\ clients'[j].ready_msgs[l] = clients[j].ready_msgs[l],
           \A id \in Ids : lost'[id] # lost[id] => id = clients[i].id
    PROVE  Pointing' /\ Claimed' /\ Registered' /\ NoStray'
<1>1. Pointing'
  BY DEF StoresOK, Pointing
<1>2. Claimed'
  BY DEF Claimed
<1>3. Registered'
  BY DEF StoresOK, Registered, live, Newest
<1>4. NoStray'
  BY DEF StoresOK, NoStray
<1> QED BY <1>1, <1>2, <1>3, <1>4

\* The message that was sent is settled and not held any more.
LEMMA ResentStores ==
    ASSUME SInv, Types, Serving, Serving', FdLaw, SlotLaw, LogOK, StoresOK, retransmit_send,
           pc' = "retransmit", UNCHANGED <<pfds, clients>>, k' = k - 1,
           NEW i \in DOMAIN clients, CV!IsFirst(i, CV!SlotsOfFd(newFd)),
           NEW c \in live, conn[c].id = clients[i].id, conn[c].fd = newFd,
           NEW m \in Stored(clients[i].ready_msgs[k]), SendsOn(c, m), lost' = lost,
           log' = [d \in Conns |-> IF d = c THEN Append(log[d], m) ELSE log[d]]
    PROVE  StoresOK'
<1>1. /\ pc = "retransmit" /\ k > 0 /\ UNCHANGED <<udp_msgs, blk, since, due>>
      /\ \A d \in Conns : conn'[d].fd = conn[d].fd
  BY RetransmitSends
<1>2. /\ newFd # NoFd /\ clients[i].status = "ACTIVE" /\ clients[i].id \in Ids /\ Sending(i)
      /\ \A j \in DOMAIN clients : Sending(j) => j = i
      /\ \A j \in DOMAIN clients : j # i => clients[j].id # clients[i].id
      /\ Len(clients[i].ready_msgs) \in Nat /\ k \in 0 .. Len(clients[i].ready_msgs)
      /\ DOMAIN clients[i].ready_msgs = 1 .. Len(clients[i].ready_msgs)
  BY <1>1, RetransmitSlot
<1>3. k \in DOMAIN clients[i].ready_msgs /\ k \in Nat
  BY <1>1, <1>2
<1>4. /\ m \in {Junk} \cup 1 .. MaxPublish
      /\ blk = 0 => m = clients[i].ready_msgs[k].msg /\ m # Junk
  BY <1>3, StoredMessage
<1>5. c \in Conns /\ log \in Logs /\ lost \in Claims /\ newFd' = newFd
  BY DEF live, Types, HistoryTypes, newFd
<1>6. Blank'
  <2>1. \A d \in Conns : d \notin live => log'[d] = log[d]
    BY <1>5
  <2> QED BY <2>1, StillBlank DEF StoresOK, ServerStep
<1>7. Pointing' /\ Claimed' /\ Registered' /\ NoStray'
  BY <1>1, ResendingStores
<1>8. CASE blk # 0
  BY <1>1, <1>6, <1>7, <1>8 DEF StoresOK
<1>9. CASE blk = 0
  <2>1. /\ m \notin Settled(clients[i].id)
        /\ Held(i) = {clients[i].ready_msgs[j].msg : j \in 1 .. k - 1} \cup {m}
        /\ \A j \in 1 .. k - 1 : clients[i].ready_msgs[j].msg < m
    BY <1>1, <1>4, <1>9, NextHeld
  <2>2. /\ since[c] = Newest
        /\ \A n \in DOMAIN log[c] : \A x \in 1 .. k : log[c][n] > clients[i].ready_msgs[x].msg
    BY <1>2, <1>9 DEF StoresOK, Resuming
  <2>3. \A j \in DOMAIN clients : Sending(j)' <=> Sending(j)
    BY <1>1, <1>5 DEF Sending
  <2>4. Resuming'
    <3>1. \A d \in live' : conn'[d].fd = newFd => d = c
      BY <1>1, <1>2, <1>5 DEF FdLaw, live
    <3>2. ASSUME NEW n \in DOMAIN log'[c], NEW x \in 1 .. k - 1
          PROVE  log'[c][n] > clients[i].ready_msgs[x].msg
      <4>1. log'[c] = Append(log[c], m)
        BY <1>5
      <4>2. \/ n \in DOMAIN log[c] /\ log'[c][n] = log[c][n]
            \/ log'[c][n] = m
        BY <1>4, <1>5, <4>1, LogExtended
      <4>3. x \in 1 .. k
        BY <1>3
      <4> QED BY <2>1, <2>2, <4>2, <4>3
    <3>3. since'[c] = Newest' /\ k' = k - 1 /\ clients' = clients
      BY <1>1, <2>2 DEF Newest
    <3>4. ASSUME NEW j \in DOMAIN clients', NEW d \in live',
                 Sending(j)', conn'[d].fd = newFd'
          PROVE  /\ since'[d] = Newest'
                 /\ \A n \in DOMAIN log'[d] : \A x \in 1 .. k' :
                       log'[d][n] > clients'[j].ready_msgs[x].msg
      <4>1. d = c
        BY <1>5, <3>1, <3>4
      <4>2. Sending(j)
        BY <2>3, <3>3, <3>4
      <4>3. j = i
        BY <1>2, <3>3, <4>2
      <4> QED BY <3>2, <3>3, <4>1, <4>3
    <3> QED BY <3>4 DEF Resuming
  <2>5. \A id \in Ids : /\ id = clients[i].id => Settled(id)' = Settled(id) \cup {m}
                        /\ id # clients[i].id => Settled(id)' = Settled(id)
    BY <1>2, <1>4, <1>5, SettledGrows
  <2>6. ASSUME NEW j \in DOMAIN clients PROVE Accounted(j)'
    <3>1. Accounted(j) /\ clients[j].id \in Ids /\ Coming(j) = {} /\ Coming(j)' = {}
      BY <1>1, <1>9, SlotTypes DEF StoresOK, Coming, Types, SlotsOK
    <3>2. CASE j # i
      <4>1. ~ Sending(j)
        BY <1>2, <3>2
      <4>2. Keep(j)' = Keep(j)
        BY <2>3, <4>1 DEF Keep
      <4>3. Settled(clients[j].id)' = Settled(clients[j].id) /\ due' = due
            /\ clients' = clients
        BY <1>1, <1>2, <2>5, <3>1, <3>2
      <4> QED BY <2>3, <3>1, <4>1, <4>2, <4>3, SlotStaysAccounted
    <3>3. CASE j = i
      <4> DEFINE id == clients[j].id
      <4>1. Settled(id)' = Settled(id) \cup {m} /\ due'[id] = due[id] /\ clients' = clients
        BY <1>1, <2>5, <3>1, <3>3
      <4>2. Held(j)' = {clients[j].ready_msgs[l].msg : l \in 1 .. k - 1}
        BY <1>2, <2>3, <3>3 DEF Held, Keep
      <4>3. m \notin Held(j)'
        <5>1. m \in Nat /\ ~ m < m
          BY <1>4, BoundsAssumption DEF Junk
        <5> QED BY <2>1, <3>3, <4>2, <5>1
      <4>4. Held(j) = Held(j)' \cup {m}
        BY <2>1, <3>3, <4>2
      <4>5. /\ due[id] = Settled(id) \cup Held(j) /\ Held(j) \cap Settled(id) = {}
            /\ Rising(clients[j].ready_msgs)
        BY <3>1 DEF Accounted
      <4>6. Sending(j)'
        BY <1>2, <2>3, <3>3
      <4> HIDE DEF id
      <4>7. /\ due'[id] = Settled(id)' \cup Held(j)' /\ Held(j)' \cap Settled(id)' = {}
        BY <4>1, <4>3, <4>4, <4>5
      <4> QED BY <3>1, <4>1, <4>5, <4>6, <4>7 DEF Accounted, id
    <3> QED BY <3>2, <3>3
  <2> QED BY <1>1, <1>6, <1>7, <2>4, <2>6 DEF StoresOK
<1> QED BY <1>8, <1>9

\* The store is emptied: what was held in it is settled.
LEMMA EndStores ==
    ASSUME SInv, Types, Serving, Serving', FdLaw, SlotLaw, StoresOK, ServerStep,
           pc = "retransmit", NEW i \in DOMAIN clients, CV!IsFirst(i, CV!SlotsOfFd(newFd)),
           EndRetransmit(i), UNCHANGED <<udp_msgs, blk, since, due, log>>,
           \A id \in Ids : /\ id = clients[i].id => lost'[id] = lost[id] \cup Held(i)
                           /\ id # clients[i].id => lost'[id] = lost[id]
    PROVE  StoresOK'
<1>1. /\ clients[i].id \in Ids /\ Sending(i)
      /\ \A j \in DOMAIN clients : Sending(j) => j = i
      /\ \A j \in DOMAIN clients : j # i => clients[j].id # clients[i].id
      /\ Len(clients[i].ready_msgs) \in Nat
  BY RetransmitSlot
<1>2. /\ DOMAIN clients' = DOMAIN clients
      /\ clients'[i].id = clients[i].id
      /\ clients'[i].ready_msgs \in Seq(Pointers) /\ Len(clients'[i].ready_msgs) = 0
      /\ \A j \in DOMAIN clients : j # i => clients'[j] = clients[j]
  <2>1. 0 \in 0 .. Len(clients[i].ready_msgs) /\ CV!TypeOK /\ CV!set_ready_msgs_len(i, 0)
    BY <1>1 DEF Types, SlotsOK, EndRetransmit
  <2> QED BY <2>1, ShrinkFacts
<1>3. clients'[i].ready_msgs = << >>
  BY <1>2, EmptySeq
<1>4. pc' \notin {"transmit", "retransmit"}
  BY LeadsOutside DEF EndRetransmit
<1>5. SameSenders
  BY ServerSenders
<1>6. Blank'
  BY StillBlank DEF StoresOK
<1>7. Pointing' /\ Claimed' /\ Registered' /\ NoStray'
  <2>1. \A j \in DOMAIN clients : clients'[j].id = clients[j].id
    BY <1>2
  <2>2. \A j \in DOMAIN clients : \A l \in DOMAIN clients'[j].ready_msgs :
           /\ l \in DOMAIN clients[j].ready_msgs
           /\ clients'[j].ready_msgs[l] = clients[j].ready_msgs[l]
    BY <1>2, <1>3
  <2> QED BY <1>2, <1>4, <2>1, <2>2, ResendingStores
<1>8. Resuming'
  BY <1>4 DEF Resuming, Sending
<1>9. ASSUME blk' = 0, NEW j \in DOMAIN clients PROVE Accounted(j)'
  <2>1. /\ Accounted(j) /\ clients[j].id \in Ids /\ Coming(j) = {} /\ Coming(j)' = {}
        /\ ~ Sending(j)'
    BY <1>4, <1>9, SlotTypes DEF StoresOK, Coming, Types, SlotsOK, Sending
  <2>2. \A id \in Ids : /\ id = clients[i].id => Settled(id)' = Settled(id) \cup Held(i)
                        /\ id # clients[i].id => Settled(id)' = Settled(id)
    BY <1>5, SameSent DEF Settled
  <2>3. CASE j # i
    <3>1. ~ Sending(j) /\ clients'[j] = clients[j]
      BY <1>1, <1>2, <2>3
    <3>2. Keep(j)' = Keep(j)
      BY <2>1, <3>1 DEF Keep
    <3>3. Settled(clients[j].id)' = Settled(clients[j].id) /\ due' = due
      BY <1>1, <2>1, <2>2, <2>3, <3>1
    <3> QED BY <2>1, <3>1, <3>2, <3>3, SlotStaysAccounted
  <2>4. CASE j = i
    <3> DEFINE id == clients[j].id
    <3>1. Settled(id)' = Settled(id) \cup Held(j) /\ due'[id] = due[id] /\ clients'[j].id = id
      BY <1>2, <2>1, <2>2, <2>4
    <3>2. Held(j)' = {}
      BY <1>2, <2>1, <2>4 DEF Held, Keep
    <3>3. due[id] = Settled(id) \cup Held(j)
      BY <2>1 DEF Accounted
    <3>4. Rising(clients'[j].ready_msgs) /\ clients'[j].ready_msgs = << >>
      BY <1>3, <2>4 DEF Rising
    <3> HIDE DEF id
    <3>5. due'[id] = Settled(id)'
      BY <3>1, <3>3
    <3> QED BY <2>1, <3>1, <3>2, <3>4, <3>5 DEF Accounted, id
  <2> QED BY <2>3, <2>4
<1> QED BY <1>2, <1>6, <1>7, <1>8, <1>9 DEF StoresOK

\* Every iteration of the loop over the stored messages accounts for them.
LEMMA RetransmitStores ==
    ASSUME SInv, Types, Serving, Serving', FdLaw, SlotLaw, LogOK, StoresOK,
           retransmit_send \/ retransmit_done \/ retransmit_dangling
    PROVE  StoresOK'
<1>1. ServerStep /\ pc = "retransmit" /\ UNCHANGED <<udp_msgs, blk, since, due>>
  <2>1. ~ Gone("killed")
    BY NotServing
  <2> QED BY <2>1 DEF ServerStep, retransmit_send, retransmit_done, retransmit_dangling, Now,
                      history
<1>2. CASE retransmit_send
  <2>1. PICK i \in DOMAIN clients, c \in live :
          /\ CV!IsFirst(i, CV!SlotsOfFd(newFd))
          /\ conn[c].id = clients[i].id /\ conn[c].fd = newFd
          /\ \/ /\ UNCHANGED <<pc, pfds, clients>> /\ k' = k - 1
                /\ \E m \in Stored(clients[i].ready_msgs[k]) :
                      /\ SendsOn(c, m) /\ lost' = lost
                      /\ log' = [d \in Conns |-> IF d = c THEN Append(log[d], m) ELSE log[d]]
             \/ /\ log' = log /\ EndRetransmit(i)
                /\ lost' = [lost EXCEPT ![clients[i].id] =
                               @ \cup {clients[i].ready_msgs[j].msg : j \in 1 .. k}]
    BY <1>2, RetransmitSends
  <2>2. CASE /\ UNCHANGED <<pc, pfds, clients>> /\ k' = k - 1
             /\ \E m \in Stored(clients[i].ready_msgs[k]) :
                   /\ SendsOn(c, m) /\ lost' = lost
                   /\ log' = [d \in Conns |-> IF d = c THEN Append(log[d], m) ELSE log[d]]
    <3>1. pc' = "retransmit" /\ UNCHANGED <<pfds, clients>> /\ k' = k - 1
      BY <1>1, <2>2
    <3> QED BY <1>2, <2>1, <2>2, <3>1, ResentStores
  <2>3. CASE /\ log' = log /\ EndRetransmit(i)
             /\ lost' = [lost EXCEPT ![clients[i].id] =
                            @ \cup {clients[i].ready_msgs[j].msg : j \in 1 .. k}]
    <3>1. Held(i) = {clients[i].ready_msgs[j].msg : j \in 1 .. k}
      BY <1>1, <2>1, RetransmitSlot DEF Held, Keep
    <3>2. lost \in Claims
      BY DEF Types, HistoryTypes
    <3>3. \A id \in Ids : /\ id = clients[i].id => lost'[id] = lost[id] \cup Held(i)
                          /\ id # clients[i].id => lost'[id] = lost[id]
      BY <2>3, <3>1, <3>2 DEF Claims
    <3> QED BY <1>1, <2>1, <2>3, <3>3, EndStores
  <2> QED BY <2>1, <2>2, <2>3
<1>3. CASE retransmit_done
  <2>1. PICK i \in DOMAIN clients :
          CV!IsFirst(i, CV!SlotsOfFd(newFd)) /\ EndRetransmit(i) /\ k = 0
    BY <1>3 DEF retransmit_done
  <2>2. Held(i) = {}
    BY <1>1, <2>1, RetransmitSlot DEF Held, Keep
  <2>3. UNCHANGED <<log, lost>>
    BY <1>3 DEF retransmit_done, history
  <2> QED BY <1>1, <2>1, <2>2, <2>3, EndStores
<1>4. CASE retransmit_dangling
  <2>1. PICK i \in DOMAIN clients :
          /\ CV!IsFirst(i, CV!SlotsOfFd(newFd)) /\ k > 0
          /\ clients[i].ready_msgs[k].blk # blk
          /\ CV!set_ready_msgs_len(i, k) /\ ContinueAt(pfds, iter + 1)
          /\ UNCHANGED <<log, lost>>
    BY <1>4, NotServing DEF retransmit_dangling, history
  <2>2. /\ k \in 0 .. Len(clients[i].ready_msgs) /\ Len(clients[i].ready_msgs) \in Nat
        /\ DOMAIN clients[i].ready_msgs = 1 .. Len(clients[i].ready_msgs)
        /\ CV!TypeOK
    BY <1>1, <2>1, RetransmitSlot DEF Types, SlotsOK
  <2>3. blk # 0
    <3>1. k \in DOMAIN clients[i].ready_msgs
      BY <2>1, <2>2
    <3>2. clients[i].ready_msgs[k].blk <= blk /\ clients[i].ready_msgs[k].blk \in Nat
      BY <2>2, <3>1, StoredTypes DEF StoresOK, Pointing
    <3> QED BY <2>1, <3>2
  <2>4. /\ DOMAIN clients' = DOMAIN clients /\ clients'[i].id = clients[i].id
        /\ Len(clients'[i].ready_msgs) = k /\ clients'[i].ready_msgs \in Seq(Pointers)
        /\ \A l \in 1 .. k : clients'[i].ready_msgs[l] = clients[i].ready_msgs[l]
        /\ \A j \in DOMAIN clients : j # i => clients'[j] = clients[j]
    BY <2>1, <2>2, ShrinkFacts
  <2>5. \A j \in DOMAIN clients : clients'[j].id = clients[j].id
    BY <2>4
  <2>6. \A j \in DOMAIN clients : \A l \in DOMAIN clients'[j].ready_msgs :
           /\ l \in DOMAIN clients[j].ready_msgs
           /\ clients'[j].ready_msgs[l] = clients[j].ready_msgs[l]
    <3>1. DOMAIN clients'[i].ready_msgs = 1 .. k
      BY <2>4, LenProperties
    <3> QED BY <2>2, <2>4, <3>1
  <2>7. pc' # "transmit"
    BY <2>1, LeadsOutside
  <2>8. Pointing' /\ Claimed' /\ Registered' /\ NoStray'
    BY <1>1, <2>1, <2>4, <2>5, <2>6, <2>7, ResendingStores
  <2>9. Blank'
    BY <1>1, <2>1, StillBlank DEF StoresOK
  <2> QED BY <1>1, <2>3, <2>8, <2>9 DEF StoresOK
<1> QED BY <1>2, <1>3, <1>4

-----------------------------------------------------------------------------
(* The two laws hold always. *)

\* A handler that neither receives nor sends a message keeps the law of the logs.
LEMMA SilentLog ==
    ASSUME SInv, Types, LogOK, ServerStep, UNCHANGED <<log, due, udp_msgs>>,
           blk' = 0 => blk = 0,
           \A c \in live' : log[c] = << >> \/ (c \in live /\ since'[c] = since[c])
    PROVE  LogOK'
<1>1. KnownIds
  BY DEF Types
<1>2. SameSenders
  BY ServerSenders
<1>3. \A id \in Ids : due[id] \subseteq due'[id] /\ due'[id] \subseteq 1 .. Newest'
  BY DEF LogOK, DueReceived, Newest
<1> QED BY <1>1, <1>2, <1>3, LogsStay

\* So do the handlers that leave the registrations alone ...
LEMMA IdleLog ==
    ASSUME SInv, Types, LogOK,
           \/ wait_for_ready_fds \/ poll_fails \/ check_if_exit \/ transmit_store
           \/ accept_client \/ recv_command
           \/ (retransmit_done \/ retransmit_dangling) /\ UNCHANGED history
    PROVE  LogOK' \/ Gone("killed")
<1>1. ServerStep
  BY DEF ServerStep
<1>2. UNCHANGED <<log, due, udp_msgs, blk, since>> \/ Gone("killed")
  BY DEF wait_for_ready_fds, poll_fails, check_if_exit, transmit_store, accept_client,
         recv_command, retransmit_done, retransmit_dangling, history
<1>3. ASSUME UNCHANGED <<log, due, udp_msgs, blk, since>> PROVE LogOK'
  BY <1>1, <1>3, SilentLog DEF live
<1> QED BY <1>2, <1>3

\* ... and those that register an ID or close its connection.
LEMMA SessionLog ==
    ASSUME SInv, Types, FdLaw, SlotLaw, LogOK, StoresOK, recv_id \/ recv_end
    PROVE  LogOK'
<1>1. ServerStep /\ UNCHANGED <<log, due, udp_msgs, blk>>
  BY DEF ServerStep, recv_id, recv_end
<1>2. since \in [Conns -> {Away} \cup Nat]
  BY DEF Types, HistoryTypes
<1>3. ASSUME NEW c \in live' PROVE log[c] = << >> \/ (c \in live /\ since'[c] = since[c])
  <2>1. CASE recv_end
    <3>1. PICK d : since' = [since EXCEPT ![d] = Away]
      BY <2>1, EndFacts
    <3> QED BY <1>2, <1>3, <3>1 DEF live
  <2>2. CASE recv_id
    <3>1. PICK d \in ConnsOf(newFd) : since' = [since EXCEPT ![d] = Len(udp_msgs)]
                                      \/ since' = since
      BY <2>2 DEF recv_id
    <3>2. Pending(d)
      BY <2>2, <3>1 DEF recv_id, Now, Pending, ConnsOf
    <3>3. log[d] = << >>
      BY <3>1, <3>2 DEF StoresOK, Blank, ConnsOf
    <3>4. \A e \in Conns : e # d => since'[e] = since[e]
      BY <1>2, <3>1
    <3> QED BY <1>3, <3>3, <3>4 DEF live
  <2> QED BY <2>1, <2>2
<1> QED BY <1>1, <1>3, SilentLog

\* A message is received, and nothing is sent yet.
LEMMA ReceivedLog ==
    ASSUME SInv, Types, Serving, UdpOpen', FdLaw, SlotLaw, LogOK, recv_udp_message
    PROVE  LogOK'
<1>1. ServerStep
  BY DEF ServerStep
<1>2. CASE pc' \in Stopped
  <2>1. RefuseMessage /\ UNCHANGED <<due, since, log>>
    BY <1>2 DEF recv_udp_message, Stopped, AddMessage, TransmitFrom, DropEntry, ContinueAt
  <2>2. blk \in Nat
    BY DEF Types, DataTypes, ArrayTypes, Blocks
  <2>3. udp_msgs' = udp_msgs /\ blk' \in {blk, blk + 1}
    BY <2>1 DEF RefuseMessage, MakeRoom
  <2>4. blk' = 0 => blk = 0
    BY <2>2, <2>3
  <2>5. \A c \in live' : c \in live /\ since'[c] = since[c]
    BY <2>1 DEF live
  <2> QED BY <1>1, <2>1, <2>3, <2>4, <2>5, SilentLog
<1>3. CASE pc' \notin Stopped
  <2>1. Serving'
    BY <1>3 DEF Serving
  <2>2. /\ UNCHANGED <<since, log>> /\ (blk' = 0 => blk = 0)
        /\ Newest \in Nat /\ Newest' = Newest + 1
    BY <2>1, NewMessage
  <2>3. PICK t \in Topics \cup {NoTopic} :
           due' = [id \in Ids |-> IF id \in ClaimsTo(t) THEN due[id] \cup {Newest + 1}
                                                        ELSE due[id]]
    BY <2>1, NewMessage
  <2>4. ASSUME NEW id \in Ids
        PROVE  due[id] \subseteq due'[id] /\ due'[id] \subseteq 1 .. Newest'
    <3>1. due[id] \subseteq 1 .. Newest
      BY DEF LogOK, DueReceived
    <3>2. due'[id] = due[id] \/ due'[id] = due[id] \cup {Newest + 1}
      BY <2>3
    <3>3. 1 .. Newest \subseteq 1 .. Newest + 1 /\ Newest + 1 \in 1 .. Newest + 1
      BY <2>2
    <3> QED BY <2>2, <3>1, <3>2, <3>3
  <2>5. \A c \in live' : c \in live /\ since'[c] = since[c]
    BY <2>2 DEF live
  <2>6. KnownIds /\ SameSenders
    BY <1>1, ServerSenders DEF Types
  <2> QED BY <2>2, <2>4, <2>5, <2>6, LogsStay
<1> QED BY <1>2, <1>3

\* The environment sends nothing in the server's name.
LEMMA EnvLog ==
    ASSUME SInv, Types, LogOK, Env \/ UNCHANGED vars
    PROVE  LogOK'
<1>1. /\ UNCHANGED <<udp_msgs, blk, since, due, log>>
      /\ OldConns \/ UNCHANGED conn
      /\ NewConns \/ UNCHANGED conn
  BY EnvFacts DEF SInv, vars, netVars, serverVars, history
<1>2. FreshLogs /\ KnownIds /\ DueReceived
  BY DEF LogOK, Types
<1>3. SameSenders
  <2>1. \A c \in Conns : log[c] # << >> => conn'[c].id = conn[c].id
    BY <1>1, <1>2 DEF OldConns, FreshLogs
  <2>2. \A c \in Conns : conn'[c].peer = "free" => conn[c].peer = "free"
    BY <1>1 DEF OldConns
  <2> QED BY <2>1, <2>2 DEF SameSenders
<1>4. \A id \in Ids : due[id] \subseteq due'[id] /\ due'[id] \subseteq 1 .. Newest'
  BY <1>1, <1>2 DEF DueReceived, Newest
<1>5. \A c \in live' : c \in live /\ since'[c] = since[c]
  BY <1>1 DEF live
<1> QED BY <1>1, <1>2, <1>3, <1>4, <1>5, LogsStay

\* Every step keeps the law of the logs.
LEMMA LogStep ==
    ASSUME SInv, Types, RoomOK, Tables, LogLaw, StoreLaw, [Next]_vars
    PROVE  LogLaw'
<1> SUFFICES ASSUME UdpOpen' PROVE LogOK'
  BY DEF LogLaw
<1>1. UdpOpen
  BY LoopStep DEF LoopGoesOn, Types
<1>2. LogOK
  BY <1>1 DEF LogLaw
<1>3. ASSUME Gone("done") \/ Gone("killed") PROVE FALSE
  BY <1>3 DEF Gone, UdpOpen
<1>4. CASE Env \/ UNCHANGED vars
  BY <1>2, <1>4, EnvLog
<1>5. CASE free_server \/ send_killed
  BY <1>3, <1>5 DEF free_server, send_killed
<1>6. CASE recv_udp_from_client
  BY <1>1, <1>6 DEF recv_udp_from_client
<1>7. ASSUME ServerStep, ~ free_server, ~ send_killed
      PROVE  FdLaw /\ SlotLaw /\ StoresOK /\ Serving
  <2>1. pc \notin Stopped
    BY <1>7 DEF ServerStep, wait_for_ready_fds, poll_fails, check_if_exit, recv_udp_message,
       recv_udp_from_client, transmit_send, transmit_store, accept_client, recv_id,
       retransmit_send, retransmit_done, retransmit_dangling, recv_command, recv_end,
       AtEntry, Now, Stopped
  <2> QED BY <1>1, <2>1 DEF Serving, Tables, StoreLaw
<1>8. ASSUME ServerStep, ~ free_server, ~ send_killed, ~ recv_udp_from_client
      PROVE  LogOK'
  <2>0. FdLaw /\ SlotLaw /\ StoresOK /\ Serving
    BY <1>7, <1>8
  <2>1. CASE \/ wait_for_ready_fds \/ poll_fails \/ check_if_exit \/ transmit_store
             \/ accept_client \/ recv_command \/ retransmit_done
    <3>1. retransmit_done => UNCHANGED history
      BY DEF retransmit_done
    <3> QED BY <1>2, <1>3, <2>1, <3>1, IdleLog
  <2>2. CASE retransmit_dangling
    <3>1. UNCHANGED history \/ Gone("killed")
      BY <2>2 DEF retransmit_dangling
    <3> QED BY <1>2, <1>3, <2>2, <3>1, IdleLog
  <2>3. CASE recv_id \/ recv_end
    BY <1>2, <2>0, <2>3, SessionLog
  <2>4. CASE recv_udp_message
    BY <1>2, <2>0, <2>4, ReceivedLog
  <2>5. CASE transmit_send
    BY <1>2, <2>0, <2>5, TransmitLog
  <2>6. CASE retransmit_send
    BY <1>2, <2>0, <2>6, RetransmitLog
  <2> QED BY <1>8, <2>1, <2>2, <2>3, <2>4, <2>5, <2>6 DEF ServerStep
<1> QED BY <1>4, <1>5, <1>6, <1>8, StepCases

\* Every step keeps the law of the stores.
LEMMA StoreStep ==
    ASSUME SInv, Types, RoomOK, Tables, LogLaw, StoreLaw, [Next]_vars
    PROVE  StoreLaw'
<1> SUFFICES ASSUME Serving' PROVE StoresOK'
  BY DEF StoreLaw
<1>1. Serving
  BY ServedBefore
<1>2. FdLaw /\ SlotLaw /\ WishLaw /\ LogOK /\ StoresOK
  BY <1>1 DEF Tables, LogLaw, StoreLaw, Serving
<1>3. CASE Env \/ UNCHANGED vars
  BY <1>2, <1>3, EnvStores
<1>4. CASE poll_fails \/ free_server \/ send_killed
  BY <1>4, NotServing DEF poll_fails, free_server, send_killed
<1>5. CASE recv_udp_from_client
  BY <1>1, <1>5 DEF recv_udp_from_client, Serving
<1>6. CASE wait_for_ready_fds \/ check_if_exit \/ accept_client \/ recv_command \/ recv_end
  BY <1>1, <1>2, <1>6, IdleStores DEF Idle
<1>7. CASE recv_udp_message
  BY <1>1, <1>2, <1>7, NewStores
<1>8. CASE transmit_send
  BY <1>1, <1>2, <1>8, TransmitStores
<1>9. CASE transmit_store
  BY <1>1, <1>2, <1>9, StoredStores
<1>10. CASE recv_id
  BY <1>1, <1>2, <1>10, RegisteredStores
<1>11. CASE retransmit_send \/ retransmit_done \/ retransmit_dangling
  BY <1>1, <1>2, <1>11, RetransmitStores
<1> QED BY <1>3, <1>4, <1>5, <1>6, <1>7, <1>8, <1>9, <1>10, <1>11, StepCases DEF ServerStep

\* They hold when the server starts, with nothing sent and no slot.
LEMMA InitMessages == Init => LogLaw /\ StoreLaw
<1> SUFFICES ASSUME Init PROVE LogOK /\ StoresOK
  BY DEF LogLaw, StoreLaw
<1>1. /\ \A c \in Conns : log[c] = << >> /\ since[c] = Away
      /\ \A id \in Ids : due[id] = {} /\ lost[id] = {}
      /\ clients = << >> /\ pc = "wait_for_ready_fds" /\ udp_msgs = << >>
  BY DEF Init, NothingSent, AllAway, NoMessages, CV!Init
<1>2. live = {} /\ DOMAIN clients = {} /\ \A c \in Conns : DOMAIN log[c] = {}
  BY <1>1 DEF live
<1>3. FreshLogs /\ DueWasSent /\ DueReceived /\ NoJunk /\ Once /\ Ordered
  BY <1>1, <1>2 DEF FreshLogs, DueWasSent, DueReceived, NoJunk, Once, Ordered
<1>4. Blank /\ Pointing /\ Claimed /\ Registered /\ NoStray /\ Resuming
  BY <1>1, <1>2 DEF Blank, Pointing, Claimed, Registered, NoStray, Resuming
<1>5. \A i \in DOMAIN clients : Accounted(i)
  BY <1>2
<1> QED BY <1>3, <1>4, <1>5 DEF LogOK, StoresOK

\* They hold always.
LEMMA AlwaysMessages == Spec => [](SInv /\ Types /\ LogLaw /\ StoreLaw)
<1>1. Init => LogLaw /\ StoreLaw
  BY InitMessages
<1>2. SInv /\ Types /\ RoomOK /\ Tables /\ LogLaw /\ StoreLaw /\ [Next]_vars
         => (LogLaw /\ StoreLaw)'
  BY LogStep, StoreStep
<1> QED BY <1>1, <1>2, AlwaysTables, PTL DEF Spec

-----------------------------------------------------------------------------
(* What the laws say to a subscriber. *)

\* A subscriber is sent messages that are due to it and no others: what a connection carries
\* is on topics its own subscriber asked for, however often the descriptors of the
\* connections are reused (server_utils.c: transmit_topic_to_clients,
\* retransmit_topics_to_client).
THEOREM OnlyDueIsSent == Spec => []OnlyWhatIsDue
<1>1. LogLaw => OnlyWhatIsDue
  <2> SUFFICES ASSUME LogOK, NEW id \in Ids, NEW m \in SentTo(id), m # Junk
               PROVE  m \in due[id]
    BY DEF OnlyWhatIsDue, LogLaw
  <2>1. PICK c \in Conns : conn[c].id = id /\ \E n \in DOMAIN log[c] : log[c][n] = m
    BY SentIs
  <2> QED BY <2>1 DEF LogOK, DueWasSent
<1> QED BY <1>1, AlwaysMessages, PTL

\* While the array of the messages has not moved, no message reaches a subscriber twice: not
\* on one connection and not on two, not from the loop over the clients and from its store
\* (server_utils.c: transmit_topic_to_clients, retransmit_topics_to_client).
THEOREM NothingIsSentTwice == Spec => []AtMostOnce
<1>1. LogLaw => AtMostOnce
  BY DEF LogLaw, LogOK, Once, AtMostOnce
<1> QED BY <1>1, AlwaysMessages, PTL

\* The messages of an absence come first, from the newest to the oldest, and then the later
\* ones in the order of their arrival: no live message overtakes the store (server_utils.c:
\* retransmit_topics_to_client ends before the loop over the entries goes on).
THEOREM SessionsAreInOrder == Spec => []SessionOrder
<1>1. LogLaw /\ Types => SessionOrder
  <2> SUFFICES ASSUME LogOK, Types, blk = 0, NEW c \in live,
                      NEW m \in DOMAIN log[c], NEW n \in DOMAIN log[c], m < n
               PROVE  IF log[c][n] > since[c] THEN log[c][m] < log[c][n]
                                              ELSE log[c][m] > log[c][n]
    BY DEF SessionOrder, LogLaw
  <2>1. log \in Logs /\ c \in Conns /\ since[c] \in Nat
    BY DEF Types, HistoryTypes, live
  <2>2. log[c][n] \in Nat /\ log[c][m] \in Nat
    BY <2>1, BoundsAssumption, LogExtended DEF Junk
  <2>3. InOrder(log[c], since[c])
    BY DEF LogOK, Ordered
  <2>4. \/ log[c][n] > since[c]  /\ log[c][m] < log[c][n]
        \/ log[c][n] <= since[c] /\ log[c][m] > log[c][n]
    BY <2>3 DEF InOrder
  <2> QED BY <2>1, <2>2, <2>4
<1> QED BY <1>1, AlwaysMessages, PTL

\* The slots of an ID: the stores of those that are DEAD hold what is due and not settled.
LEMMA RestOfSlot ==
    ASSUME Types, SlotLaw, StoresOK, blk = 0, pc = "wait_for_ready_fds",
           NEW i \in DOMAIN clients
    PROVE  LET id == clients[i].id
               s  == clients[i].ready_msgs IN
           /\ due[id] \ Settled(id) = MessagesOf(s)
           /\ clients[i].status # "DEAD" => MessagesOf(s) = {}
           /\ \A j \in DOMAIN clients : clients[j].id = id => j = i
<1>1. Accounted(i) /\ ~ Sending(i) /\ Coming(i) = {}
  BY DEF StoresOK, Sending, Coming
<1>2. DOMAIN clients[i].ready_msgs = 1 .. Len(clients[i].ready_msgs)
  BY SlotTypes DEF Types, SlotsOK
<1>3. Held(i) = MessagesOf(clients[i].ready_msgs)
  BY <1>1, <1>2 DEF Held, Keep, MessagesOf
<1>4. /\ due[clients[i].id] = Settled(clients[i].id) \cup Held(i)
      /\ Held(i) \cap Settled(clients[i].id) = {}
      /\ clients[i].status = "ACTIVE" => clients[i].ready_msgs = << >>
  BY <1>1 DEF Accounted
<1>5. due[clients[i].id] \ Settled(clients[i].id) = MessagesOf(clients[i].ready_msgs)
  BY <1>3, <1>4
<1>6. clients[i].status # "DEAD" => MessagesOf(clients[i].ready_msgs) = {}
  <2>1. clients[i].status \in {"ACTIVE", "DEAD"}
    BY SlotTypes DEF Types, SlotsOK
  <2> QED BY <1>4, <2>1 DEF MessagesOf
<1>7. \A j \in DOMAIN clients : clients[j].id = clients[i].id => j = i
  BY DEF SlotLaw, CV!OneSlotPerId
<1> QED BY <1>5, <1>6, <1>7

\* Between two rounds and while the array has not moved, every message that is due is sent, or
\* a send of it (live or from the store) returned an error, or it is in the store of its
\* subscriber, which is absent; and a store holds only what is due and not sent
\* (server_utils.c: transmit_topic_to_clients, retransmit_topics_to_client; client_vec.c:
\* add_topic_msg_for_client).
THEOREM EveryClaimIsAccountedFor == Spec => []StoreHoldsTheRest
<1>1. Types /\ Tables /\ LogLaw /\ StoreLaw => StoreHoldsTheRest
  <2> SUFFICES ASSUME Types, SlotLaw, StoresOK, blk = 0, pc = "wait_for_ready_fds",
                      NEW id \in Ids
               PROVE  due[id] \ (SentTo(id) \cup lost[id])
                         = UNION {MessagesOf(clients[i].ready_msgs) :
                              i \in {j \in CV!SlotsOfId(id) : clients[j].status = "DEAD"}}
    BY DEF StoreHoldsTheRest, StoreLaw, Tables, Serving, Stopped
  <2> DEFINE Rest == due[id] \ Settled(id)
  <2> SUFFICES Rest = UNION {MessagesOf(clients[i].ready_msgs) :
                                i \in {j \in CV!SlotsOfId(id) : clients[j].status = "DEAD"}}
    BY DEF Settled
  <2>1. CASE \A i \in DOMAIN clients : clients[i].id # id
    <3>1. due[id] = {}
      BY <2>1 DEF StoresOK, NoStray
    <3>2. CV!SlotsOfId(id) = {}
      BY <2>1 DEF CV!SlotsOfId
    <3> QED BY <3>1, <3>2
  <2>2. CASE \E i \in DOMAIN clients : clients[i].id = id
    <3>1. PICK i \in DOMAIN clients : clients[i].id = id
      BY <2>2
    <3>2. /\ due[id] \ Settled(id) = MessagesOf(clients[i].ready_msgs)
          /\ clients[i].status # "DEAD" => MessagesOf(clients[i].ready_msgs) = {}
          /\ \A j \in DOMAIN clients : clients[j].id = id => j = i
      BY <3>1, RestOfSlot
    <3>3. CV!SlotsOfId(id) = {i}
      BY <3>1, <3>2 DEF CV!SlotsOfId
    <3>4. CASE clients[i].status = "DEAD"
      <4>1. {j \in CV!SlotsOfId(id) : clients[j].status = "DEAD"} = {i}
        BY <3>3, <3>4
      <4> QED BY <3>2, <4>1
    <3>5. CASE clients[i].status # "DEAD"
      <4>1. {j \in CV!SlotsOfId(id) : clients[j].status = "DEAD"} = {}
        BY <3>3, <3>5
      <4> QED BY <3>2, <3>5, <4>1
    <3> QED BY <3>4, <3>5
  <2> QED BY <2>1, <2>2
<1> QED BY <1>1, AlwaysMessages, AlwaysTables, PTL
=============================================================================
