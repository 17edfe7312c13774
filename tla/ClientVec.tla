----------------------------- MODULE ClientVec -----------------------------
(***************************************************************************)
(* The clients vector of the server (src/src/client_vec.c): one slot per   *)
(* subscriber ID that ever registered.  A slot outlives the connection: a  *)
(* DEAD slot keeps its topics and collects pointers to the messages it     *)
(* missed, and the next connection with the same ID revives it.            *)
(*                                                                         *)
(* Every operation takes the value the C function returns as its last      *)
(* argument, so that a caller can branch on it.  Init and Next at the end  *)
(* are the contract the server keeps when it calls the operations.         *)
(***************************************************************************)
EXTENDS Integers, Sequences, SequencesExt

CONSTANTS
    Ids,            \* subscriber IDs
    Topics,         \* topic names
    Fds,            \* file descriptors accept() can return
    Ptrs,           \* pointers into the server's udp_msgs array
    MaxReady,       \* bound of the model on the length of ready_msgs
    AllocFails      \* whether malloc and realloc may return NULL

ASSUME FdsAssumption        == Fds \subseteq Nat
ASSUME MaxReadyAssumption   == MaxReady \in Nat
ASSUME AllocFailsAssumption == AllocFails \in BOOLEAN

VARIABLE clients    \* client_vec_t: the slots in order of first registration

NoFd == -1          \* the fd of a DEAD slot

Statuses == {"ACTIVE", "DEAD"}
Options  == {"NO_SF", "SF"}

\* client_type_t.  topics and options are parallel arrays of length topics_len.
Slots == [id         : Ids,
          status     : Statuses,
          fd         : Fds \cup {NoFd},
          topics     : Seq(Topics),
          options    : Seq(Options),
          ready_msgs : Seq(Ptrs)]

NewSlot(id, fd) == [id |-> id, status |-> "ACTIVE", fd |-> fd,
                    topics |-> << >>, options |-> << >>, ready_msgs |-> << >>]

(***************************************************************************)
(* The searches of the C code: loops that stop at the first match.         *)
(***************************************************************************)
IsFirst(i, S) == i \in S /\ \A j \in S : i <= j

SlotsOfId(id)       == {i \in DOMAIN clients : clients[i].id = id}
SlotsOfFd(fd)       == {i \in DOMAIN clients : clients[i].fd = fd}
TopicIndices(i, t)  == {j \in DOMAIN clients[i].topics : clients[i].topics[j] = t}
SubscribedWithSF(i) == \E j \in DOMAIN clients[i].topics : clients[i].options[j] = "SF"

-----------------------------------------------------------------------------
(* The forms named ..._bug are variants that a mistake in the C code would produce; no     *)
(* specification uses them.  Each breaks one of the properties at the end.                 *)

\* A DEAD slot of the ID is not recognised.
register_new_client_bug(id, fd, result) ==
    /\ {i \in SlotsOfId(id) : clients[i].status = "ACTIVE"} = {}
    /\ result = "OK"
    /\ clients' = Append(clients, NewSlot(id, fd))

\* The check that the ID is not connected already is missing.
register_takes_over_bug(id, fd, result) ==
    /\ result = "OK"
    /\ \/ \E i \in SlotsOfId(id) :
             clients' = [clients EXCEPT ![i].fd = fd, ![i].status = "ACTIVE"]
       \/ SlotsOfId(id) = {} /\ clients' = Append(clients, NewSlot(id, fd))

\* The new slot is counted before its last allocation.
register_half_made_bug(id, fd, result) ==
    \/ \E i \in SlotsOfId(id) :
        \/ clients[i].status = "ACTIVE" /\ result = "ALREADY_CONNECTED" /\ UNCHANGED clients
        \/ clients[i].status = "DEAD" /\ result = "OK"
              /\ clients' = [clients EXCEPT ![i].fd = fd, ![i].status = "ACTIVE"]
    \/ /\ SlotsOfId(id) = {}
       /\ result = "OK" \/ (AllocFails /\ result = "ALLOCATION_FAILED")
       /\ clients' = Append(clients, NewSlot(id, fd))

(* register_new_client: revive the slot of the ID, or append a fresh one. *)
register_new_client(id, fd, result) ==
    \/ \E i \in DOMAIN clients :
        /\ IsFirst(i, SlotsOfId(id))
        /\ \/ /\ clients[i].status = "ACTIVE"
              /\ result = "ALREADY_CONNECTED"
              /\ UNCHANGED clients
           \/ /\ clients[i].status = "DEAD"
              /\ result = "OK"
              /\ clients' = [clients EXCEPT ![i].fd = fd, ![i].status = "ACTIVE"]
    \/ /\ SlotsOfId(id) = {}
       /\ \/ /\ result = "OK"
             /\ clients' = Append(clients, NewSlot(id, fd))
          \/ /\ AllocFails
             /\ result = "ALLOCATION_FAILED"
             /\ UNCHANGED clients

\* The descriptor of the closed connection stays in the slot.
close_active_client_bug(fd, result) ==
    \E i \in SlotsOfFd(fd) : result = "OK" /\ clients' = [clients EXCEPT ![i].status = "DEAD"]

(* close_active_client: the slot stays, without a descriptor. *)
close_active_client(fd, result) ==
    \/ \E i \in DOMAIN clients :
        /\ IsFirst(i, SlotsOfFd(fd))
        /\ \/ /\ clients[i].status = "DEAD"
              /\ result = "ALREADY_DEAD"
              /\ UNCHANGED clients
           \/ /\ clients[i].status = "ACTIVE"
              /\ result = "OK"
              /\ clients' = [clients EXCEPT ![i].status = "DEAD", ![i].fd = NoFd]
    \/ /\ SlotsOfFd(fd) = {}
       /\ result = "NOT_FOUND"
       /\ UNCHANGED clients

\* The search for the topic is missing.
subscribe_client_to_topic_bug(fd, t, sf, result) ==
    \E i \in SlotsOfFd(fd) :
        /\ result = "OK" /\ Len(clients[i].topics) < 2
        /\ clients' = [clients EXCEPT ![i].topics  = Append(@, t),
                                      ![i].options = Append(@, sf)]

(* subscribe_client_to_topic: overwrite the option of a known topic, or append. *)
subscribe_client_to_topic(fd, t, sf, result) ==
    \/ \E i \in DOMAIN clients :
        /\ IsFirst(i, SlotsOfFd(fd))
        /\ \/ \E j \in DOMAIN clients[i].topics :
                /\ IsFirst(j, TopicIndices(i, t))
                /\ result = "OK"
                /\ clients' = [clients EXCEPT ![i].options[j] = sf]
           \/ /\ TopicIndices(i, t) = {}
              /\ \/ /\ result = "OK"
                    /\ clients' = [clients EXCEPT ![i].topics  = Append(@, t),
                                                  ![i].options = Append(@, sf)]
                 \/ /\ AllocFails
                    /\ result = "ALLOCATION_FAILED"
                    /\ UNCHANGED clients
    \/ /\ SlotsOfFd(fd) = {}
       /\ result = "NOT_FOUND"
       /\ UNCHANGED clients

\* Only the topics are shifted, and the options keep their length ...
unsubscribe_length_bug(fd, t, result) ==
    \E i \in SlotsOfFd(fd) : \E j \in TopicIndices(i, t) :
        result = "OK" /\ clients' = [clients EXCEPT ![i].topics = RemoveAt(@, j)]

\* ... or lose their last element instead of the removed one.
unsubscribe_shift_bug(fd, t, result) ==
    \E i \in SlotsOfFd(fd) : \E j \in TopicIndices(i, t) :
        /\ result = "OK"
        /\ clients' = [clients EXCEPT ![i].topics  = RemoveAt(@, j),
                                      ![i].options = RemoveAt(@, Len(@))]

(* unsubscribe_client_from_topic: both arrays are shifted over the hole. *)
unsubscribe_client_from_topic(fd, t, result) ==
    \/ \E i \in DOMAIN clients :
        /\ IsFirst(i, SlotsOfFd(fd))
        /\ \/ \E j \in DOMAIN clients[i].topics :
                /\ IsFirst(j, TopicIndices(i, t))
                /\ result = "OK"
                /\ clients' = [clients EXCEPT ![i].topics  = RemoveAt(@, j),
                                              ![i].options = RemoveAt(@, j)]
           \/ /\ TopicIndices(i, t) = {}
              /\ result = "TOPIC_NOT_FOUND"
              /\ UNCHANGED clients
    \/ /\ SlotsOfFd(fd) = {}
       /\ result = "NOT_FOUND"
       /\ UNCHANGED clients

(* add_topic_msg_for_client: the caller names the slot by its index. *)
add_topic_msg_for_client(p, i, result) ==
    \/ /\ i \in DOMAIN clients
       /\ result = "OK"
       /\ clients' = [clients EXCEPT ![i].ready_msgs = Append(@, p)]
    \/ /\ AllocFails
       /\ i \in DOMAIN clients
       /\ result = "ALLOCATION_FAILED"
       /\ UNCHANGED clients
    \/ /\ i \notin DOMAIN clients
       /\ result = "INDEX_OUT_OF_BOUND"
       /\ UNCHANGED clients

(* The assignments to ready_msgs_len in retransmit_topics_to_client: the oldest n stay. *)
set_ready_msgs_len(i, n) == clients' = [clients EXCEPT ![i].ready_msgs = SubSeq(@, 1, n)]

-----------------------------------------------------------------------------
(***************************************************************************)
(* The contract of the callers: accept() returns a descriptor no live slot *)
(* uses, messages are stored for a DEAD slot that has the SF option, and   *)
(* the store shrinks only while its subscriber is connected.               *)
(***************************************************************************)
LiveFds == {clients[i].fd : i \in {j \in DOMAIN clients : clients[j].status = "ACTIVE"}}

Results == {"OK", "ALREADY_CONNECTED", "ALREADY_DEAD", "NOT_FOUND", "TOPIC_NOT_FOUND",
            "ALLOCATION_FAILED", "INDEX_OUT_OF_BOUND"}

Register    == \E id \in Ids, fd \in Fds, r \in Results :
                  fd \notin LiveFds /\ register_new_client(id, fd, r)
Disconnect  == \E fd \in Fds, r \in Results : close_active_client(fd, r)
Subscribe   == \E fd \in Fds, t \in Topics, sf \in Options, r \in Results :
                  subscribe_client_to_topic(fd, t, sf, r)
Unsubscribe == \E fd \in Fds, t \in Topics, r \in Results :
                  unsubscribe_client_from_topic(fd, t, r)
Store       == \E p \in Ptrs, i \in DOMAIN clients, r \in Results :
                  /\ clients[i].status = "DEAD"
                  /\ SubscribedWithSF(i)
                  /\ Len(clients[i].ready_msgs) < MaxReady
                  /\ add_topic_msg_for_client(p, i, r)
Shrink      == \E i \in DOMAIN clients : \E n \in 0 .. Len(clients[i].ready_msgs) :
                  clients[i].status = "ACTIVE" /\ set_ready_msgs_len(i, n)

Init == clients = << >>

Next == Register \/ Disconnect \/ Subscribe \/ Unsubscribe \/ Store \/ Shrink

Spec == Init /\ [][Next]_clients

-----------------------------------------------------------------------------
\* Every slot is a well-formed client_type_t whose parallel arrays have one length.
TypeOK == /\ clients \in Seq(Slots)
          /\ \A i \in DOMAIN clients : Len(clients[i].topics) = Len(clients[i].options)

\* A subscriber ID owns one slot for ever: a reconnection finds the subscriptions and
\* the stored messages of the earlier connections, never a second, empty slot.
OneSlotPerId ==
    \A i, j \in DOMAIN clients : clients[i].id = clients[j].id => i = j

\* The fd lookups of close, subscribe and unsubscribe reach the slot of the connection
\* they were called for: a slot has a descriptor exactly while it is ACTIVE, and no two
\* slots have the same one although the kernel reuses descriptors.
FdNamesOneClient ==
    /\ \A i \in DOMAIN clients : clients[i].fd = NoFd <=> clients[i].status = "DEAD"
    /\ \A i, j \in DOMAIN clients :
          clients[i].fd = clients[j].fd /\ clients[i].fd # NoFd => i = j

\* No slot lists a topic twice, so the option the first match finds is the last one the
\* subscriber asked for and one removal ends the subscription.
TopicsDistinct ==
    \A i \in DOMAIN clients : \A m, n \in DOMAIN clients[i].topics :
        clients[i].topics[m] = clients[i].topics[n] => m = n

(***************************************************************************)
(* What the vector promises, with the slots forgotten (Registry): the fd   *)
(* session, the subscriptions and the stored messages of each ID.          *)
(***************************************************************************)
Known(id) == \E i \in DOMAIN clients : clients[i].id = id

FdOf == [id \in Ids |->
    IF Known(id) THEN (CHOOSE c \in {clients[i] : i \in SlotsOfId(id)} : TRUE).fd
                 ELSE NoFd]

SubsOf == [id \in Ids |-> [t \in Topics |->
    IF \E i \in SlotsOfId(id) : TopicIndices(i, t) # {}
    THEN CHOOSE o \in Options : \E i \in SlotsOfId(id) : \E j \in TopicIndices(i, t) :
             clients[i].options[j] = o
    ELSE "none"]]

StoredOf == [id \in Ids |->
    IF Known(id) THEN (CHOOSE c \in {clients[i] : i \in SlotsOfId(id)} : TRUE).ready_msgs
                 ELSE << >>]

Abstract == INSTANCE Registry WITH fdOf <- FdOf, subs <- SubsOf, stored <- StoredOf

\* The slots, the parallel arrays and the first-match searches implement the registry:
\* whatever the order of the calls, an operation changes one fact about one subscriber,
\* a disconnection and a reconnection keep its subscriptions and its stored messages,
\* and an unsubscription leaves the options of the other topics with their topics.
ImplementsRegistry == Abstract!Spec
=============================================================================
