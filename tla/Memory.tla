------------------------------- MODULE Memory -------------------------------
(***************************************************************************)
(* What the two programs allocate and open, and where they give it back:   *)
(* init_server and free_server (src/src/server_utils.c), init_client and   *)
(* free_client (src/src/subscriber_utils.c), and the arrays of the clients *)
(* vector that grow in between (src/src/client_vec.c).  Any allocation may *)
(* fail.  The descriptors of the connections, which come and go with the   *)
(* sessions, are in PollVec and Server.                                    *)
(***************************************************************************)
EXTENDS Integers, Sequences, SequencesExt

CONSTANTS
    InitCapacity,   \* INIT_CLIENTS, INIT_TOPICS_CAPACITY
    MaxSlots,       \* bound: clients
    MaxTopics,      \* bound: topics of a client
    MaxReady        \* bound: messages stored for a client

ASSUME CapacityAssumption == InitCapacity \in Nat \ {0}

VARIABLES
    program,        \* "server" or "subscriber"
    stage,          \* what init is about to acquire, or "running", "failed", "freed"
    live,           \* the blocks and descriptors the program holds
    wrong,          \* what was freed or closed and not held at that moment
    entities,       \* the client slots: capacities, and the sizes the arrays really have
    capacity,       \* clients->capacity
    entitiesSize    \* the size of the array

vars == <<program, stage, live, wrong, entities, capacity, entitiesSize>>

REALLOC_FACTOR == 2

ServerBuffers == <<"buf", "cmd", "send_msg", "recv_msg", "udp_msgs">>
ClientBuffers == <<"cmd", "send_msg", "recv_msg">>
Descriptors   == {"stdin", "udp_socket", "tcp_socket"}

\* What init acquires, in this order.
ServerAcquires ==
    <<"server">> \o ServerBuffers \o
    <<"udp_socket", "tcp_socket", "poll_vec", "pfds", "clients", "entities">>

ClientAcquires == <<"client", "id">> \o ClientBuffers \o <<"tcp_socket", "poll_vec", "pfds">>

Acquired == IF program = "server" THEN ServerAcquires ELSE ClientAcquires

\* free_poll_vec closes every descriptor that is polled.
free_poll_vec == IF program = "server"
                 THEN <<"stdin", "udp_socket", "tcp_socket", "pfds", "poll_vec">>
                 ELSE <<"stdin", "tcp_socket", "pfds", "poll_vec">>

Position(names, what) == CHOOSE n \in DOMAIN names : names[n] = what

StageOf(what) == Position(Acquired, what)
Before(what)  == SubSeq(Acquired, 1, StageOf(what) - 1)
After(what)   == IF what = Last(Acquired) THEN "running" ELSE Acquired[StageOf(what) + 1]

\* The buffers got before the one that failed.
GotOf(buffers, what) == SubSeq(buffers, 1, Position(buffers, what) - 1)

\* What init frees and closes, in this order, when it could not get a thing.
ServerErrorPath(what) ==
    CASE what = "server"               -> << >>
      [] Contains(ServerBuffers, what) -> GotOf(ServerBuffers, what) \o <<"server">>
      [] what = "udp_socket"           -> ServerBuffers \o <<"server">>
      [] what = "tcp_socket"           -> <<"udp_socket">> \o ServerBuffers \o <<"server">>
      [] what \in {"poll_vec", "pfds"} ->
            <<"udp_socket", "tcp_socket">> \o ServerBuffers \o <<"server">>
      [] OTHER ->
            <<"udp_socket", "tcp_socket">> \o ServerBuffers \o free_poll_vec \o <<"server">>

\* All the buffers are freed, whichever failed, as if they were NULL.
ClientErrorPath_bug(what) ==
    CASE what = "client"               -> << >>
      [] what = "id"                   -> <<"client">>
      [] Contains(ClientBuffers, what) -> ClientBuffers \o <<"client">>
      [] what = "tcp_socket"           -> <<"id">> \o ClientBuffers \o <<"client">>
      [] OTHER -> <<"tcp_socket", "id">> \o ClientBuffers \o <<"client">>

\* The ID is forgotten when a buffer fails.
ClientErrorPath(what) ==
    CASE what = "client"               -> << >>
      [] what = "id"                   -> <<"client">>
      [] Contains(ClientBuffers, what) -> GotOf(ClientBuffers, what) \o <<"client">>
      [] what = "tcp_socket"           -> <<"id">> \o ClientBuffers \o <<"client">>
      [] OTHER -> <<"tcp_socket", "id">> \o ClientBuffers \o <<"client">>

ErrorPath(what) == IF program = "server" THEN ServerErrorPath(what) ELSE ClientErrorPath(what)

\* A block is a name and a number, 0 for what there is once.
Own(names) == [n \in DOMAIN names |-> <<names[n], 0>>]

\* A sequence of calls of free and close, on top of what is held.
Release(held, blocks) ==
    /\ live' = held \ ToSet(blocks)
    /\ LET again == {m \in DOMAIN blocks :
                         blocks[m] \notin held \/ \E l \in 1 .. m - 1 : blocks[l] = blocks[m]}
       IN  wrong' = wrong \cup {blocks[n] : n \in again}

Init ==
    /\ program \in {"server", "subscriber"}
    /\ stage = Acquired[1]
    /\ live = {<<"stdin", 0>>} /\ wrong = {}
    /\ entities = << >> /\ capacity = InitCapacity /\ entitiesSize = InitCapacity

-----------------------------------------------------------------------------
(* init_server, init_client *)
Starting == stage \notin {"running", "failed", "freed"}

Acquire ==
    /\ Starting
    /\ live' = live \cup {<<stage, 0>>}
    /\ stage' = After(stage)
    /\ UNCHANGED <<program, wrong, entities, capacity, entitiesSize>>

\* malloc or socket fails, or a call on the new socket does (setsockopt, bind, listen,
\* connect), which leaves the socket open.
FailToAcquire ==
    /\ Starting
    /\ \/ Release(live, Own(ErrorPath(stage)))
       \/ stage \in Descriptors /\ Release(live \cup {<<stage, 0>>}, Own(ErrorPath(stage)))
    /\ stage' = "failed"
    /\ UNCHANGED <<program, entities, capacity, entitiesSize>>

-----------------------------------------------------------------------------
(* The clients vector. *)
Serving == stage = "running" /\ program = "server"

\* The four blocks of slot n, in the order they are allocated.
SlotBlocks(n) == <<<<"id", n>>, <<"topics", n>>, <<"options", n>>, <<"ready_msgs", n>>>>

NewSlot == [topics |-> << >>, cap |-> InitCapacity,
            topicsSize |-> InitCapacity, optionsSize |-> InitCapacity,
            ready |-> 0, readyCap |-> InitCapacity]

\* The third allocation failed and the second block is not freed.
register_fails_bug(n) ==
    /\ live' = live \cup {<<"topics", n>>}
    /\ UNCHANGED <<wrong, entities>>

\* One of the four fails, and the ones before it are freed.
register_fails(n) ==
    /\ \E m \in 0 .. 3 : LET got == SubSeq(SlotBlocks(n), 1, m)
                         IN  Release(live \cup ToSet(got), got)
    /\ UNCHANGED entities

\* A new ID: the array grows if it is full, and stays grown if the slot fails.
register_new_client ==
    /\ Serving /\ Len(entities) < MaxSlots
    /\ \/ /\ Len(entities) < capacity
          /\ UNCHANGED <<capacity, entitiesSize>>
       \/ /\ Len(entities) = capacity
          /\ capacity' = REALLOC_FACTOR * capacity /\ entitiesSize' = capacity'
    /\ LET n == Len(entities) + 1 IN
       \/ register_fails(n)
       \/ /\ live' = live \cup ToSet(SlotBlocks(n))
          /\ entities' = Append(entities, NewSlot)
          /\ UNCHANGED wrong
    /\ UNCHANGED <<program, stage>>

\* The block malloc returns for a topic: a free one, reused at once.
FreshTopics == LET free == {n \in 1 .. MaxSlots * MaxTopics : <<"topic", n>> \notin live}
               IN  {<<"topic", n>> : n \in {m \in free : \A k \in free : m <= k}}

\* Slot i becomes slot with the new topic.
AddTopic(i, slot) ==
    \E b \in FreshTopics :
        /\ live' = live \cup {b}
        /\ entities' = [entities EXCEPT ![i] = [slot EXCEPT !.topics = Append(@, b)]]

Grown(i) ==
    [entities[i] EXCEPT !.topicsSize = REALLOC_FACTOR * entities[i].cap,
                        !.optionsSize = REALLOC_FACTOR * entities[i].cap,
                        !.cap = REALLOC_FACTOR * @]

\* The capacity is set before the second realloc.
half_grown_bug(i) == [entities[i] EXCEPT !.topicsSize = REALLOC_FACTOR * entities[i].cap,
                                         !.cap = REALLOC_FACTOR * @]

\* Only the first of the two arrays has grown.
half_grown(i) == [entities[i] EXCEPT !.topicsSize = REALLOC_FACTOR * entities[i].cap]

\* A topic the client is not subscribed to.  A failure on the way leaves what was grown.
subscribe_client_to_topic(i) ==
    /\ Serving /\ Len(entities[i].topics) < MaxTopics
    /\ LET slot == entities[i] IN
       \/ Len(slot.topics) < slot.cap /\ UNCHANGED <<live, entities>>
       \/ Len(slot.topics) < slot.cap /\ AddTopic(i, slot)
       \/ /\ Len(slot.topics) = slot.cap
          /\ \/ entities' = [entities EXCEPT ![i] = half_grown(i)] /\ UNCHANGED live
             \/ entities' = [entities EXCEPT ![i] = Grown(i)] /\ UNCHANGED live
             \/ AddTopic(i, Grown(i))
    /\ UNCHANGED <<program, stage, wrong, capacity, entitiesSize>>

\* The pointers are not shifted.
unsubscribe_bug(i, j) ==
    /\ Serving
    /\ Release(live, <<entities[i].topics[j]>>)
    /\ entities' = [entities EXCEPT ![i].topics = Front(@)]
    /\ UNCHANGED <<program, stage, capacity, entitiesSize>>

unsubscribe_client_from_topic(i, j) ==
    /\ Serving
    /\ Release(live, <<entities[i].topics[j]>>)
    /\ entities' = [entities EXCEPT ![i].topics = RemoveAt(@, j)]
    /\ UNCHANGED <<program, stage, capacity, entitiesSize>>

add_topic_msg_for_client(i) ==
    /\ Serving /\ entities[i].ready < MaxReady
    /\ LET slot == entities[i]
           full == slot.ready = slot.readyCap
       IN  entities' = [entities EXCEPT ![i] = [slot EXCEPT !.ready = @ + 1,
                            !.readyCap = IF full THEN REALLOC_FACTOR * @ ELSE @]]
    /\ UNCHANGED <<program, stage, live, wrong, capacity, entitiesSize>>

retransmit_topics_to_client(i) ==
    /\ Serving /\ entities[i].ready > 0
    /\ entities' = [entities EXCEPT ![i].ready = 0]
    /\ UNCHANGED <<program, stage, live, wrong, capacity, entitiesSize>>

-----------------------------------------------------------------------------
(* free_server, free_client *)

free_clients_vec ==
    FlattenSeq([i \in DOMAIN entities |-> entities[i].topics \o
        <<<<"topics", i>>, <<"id", i>>, <<"options", i>>, <<"ready_msgs", i>>>>])
    \o Own(<<"entities", "clients">>)

free_server ==
    /\ Serving
    /\ Release(live, Own(free_poll_vec \o ServerBuffers) \o free_clients_vec
                        \o Own(<<"server">>))
    /\ stage' = "freed"
    /\ entities' = << >>
    /\ UNCHANGED <<program, capacity, entitiesSize>>

free_client ==
    /\ stage = "running" /\ program = "subscriber"
    /\ Release(live, Own(free_poll_vec \o <<"id">> \o ClientBuffers \o <<"client">>))
    /\ stage' = "freed"
    /\ UNCHANGED <<program, entities, capacity, entitiesSize>>

Next ==
    \/ Acquire \/ FailToAcquire \/ free_server \/ free_client
    \/ register_new_client
    \/ \E i \in DOMAIN entities :
        \/ subscribe_client_to_topic(i)
        \/ \E j \in DOMAIN entities[i].topics : unsubscribe_client_from_topic(i, j)
        \/ add_topic_msg_for_client(i)
        \/ retransmit_topics_to_client(i)

Spec == Init /\ [][Next]_vars

-----------------------------------------------------------------------------
\* Every element in use lies inside the array that holds it, in the two parallel arrays of a
\* client too, whichever realloc failed.
WithinArrays ==
    /\ Len(entities) <= entitiesSize /\ capacity <= entitiesSize
    /\ \A i \in DOMAIN entities :
        /\ Len(entities[i].topics) <= entities[i].topicsSize
        /\ Len(entities[i].topics) <= entities[i].optionsSize
        /\ entities[i].ready <= entities[i].readyCap

\* No block is freed twice or without having been allocated, on any path; sockets are closed
\* twice only when the server could not create the clients vector.
FreedOnce ==
    /\ wrong \subseteq {<<"udp_socket", 0>>, <<"tcp_socket", 0>>}
    /\ wrong # {} => stage = "failed" /\ program = "server"

\* Everything is given back by free_server and free_client, and by a failed init except for
\* a few blocks and a socket that end with the process.
NothingIsLeft ==
    /\ stage = "freed" => live = {}
    /\ stage = "failed" => live \subseteq (Descriptors \cup {"id", "poll_vec", "clients"}) \X {0}

\* A slot in use has its four blocks, and the topics of all slots are different blocks, each
\* still allocated.
SlotsOwnTheirBlocks ==
    /\ \A i \in DOMAIN entities :
        /\ ToSet(SlotBlocks(i)) \subseteq live
        /\ ToSet(entities[i].topics) \subseteq live
    /\ \A i, k \in DOMAIN entities : \A j \in DOMAIN entities[i].topics,
                                        l \in DOMAIN entities[k].topics :
        entities[i].topics[j] = entities[k].topics[l] => i = k /\ j = l
=============================================================================
