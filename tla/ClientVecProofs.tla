-------------------------- MODULE ClientVecProofs --------------------------
(***************************************************************************)
(* The safety properties of ClientVec, and that it implements Registry,    *)
(* for every set of IDs, topics, descriptors and pointers, every bound,    *)
(* and with or without failing allocations.                                *)
(***************************************************************************)
EXTENDS ClientVec, SequenceLemmas

-----------------------------------------------------------------------------
(***************************************************************************)
(* The inductive invariant.  None of the properties is inductive alone:    *)
(* appending a slot keeps IDs unique because the search found none, and    *)
(* reviving one keeps descriptors unique because DEAD slots have none.     *)
(***************************************************************************)
IInv == TypeOK /\ OneSlotPerId /\ FdNamesOneClient /\ TopicsDistinct

\* What a slot has to satisfy on its own.
SoundSlot(s) ==
    /\ s \in Slots
    /\ Len(s.topics) = Len(s.options)
    /\ s.fd = NoFd <=> s.status = "DEAD"
    /\ Distinct(s.topics)

\* IInv is a property of each slot and two of each pair of slots.
LEMMA InvariantBySlots ==
  IInv <=> /\ clients \in Seq(Slots)
           /\ \A i \in DOMAIN clients : SoundSlot(clients[i])
           /\ OneSlotPerId
           /\ \A i, j \in DOMAIN clients :
                clients[i].fd = clients[j].fd /\ clients[i].fd # NoFd => i = j
<1>1. clients \in Seq(Slots) => \A i \in DOMAIN clients : clients[i] \in Slots
  BY LenProperties, ElementOfSeq
<1> QED
  BY <1>1 DEF IInv, TypeOK, FdNamesOneClient, TopicsDistinct, SoundSlot, Distinct

\* The invariant holds of the empty vector.
LEMMA InitInvariant == Init => IInv
  BY EmptySeq DEF Init, IInv, TypeOK, OneSlotPerId, FdNamesOneClient, TopicsDistinct

\* Replacing a slot by a sound one of the same ID, with a descriptor nobody else has.
LEMMA ReplaceSlot ==
  ASSUME IInv,
         NEW i \in DOMAIN clients, NEW s,
         SoundSlot(s),
         s.id = clients[i].id,
         s.fd = NoFd \/ \A j \in DOMAIN clients : j # i => clients[j].fd # s.fd,
         clients' = [clients EXCEPT ![i] = s]
  PROVE  IInv'
<1>1. /\ clients \in Seq(Slots)
      /\ DOMAIN clients = 1 .. Len(clients)
      /\ s \in Slots
  BY LenProperties DEF IInv, TypeOK, SoundSlot
<1>2. /\ clients' \in Seq(Slots)
      /\ DOMAIN clients' = DOMAIN clients
      /\ clients'[i] = s
      /\ \A j \in DOMAIN clients : j # i => clients'[j] = clients[j]
  BY <1>1, ExceptSeq
<1>3. \A j \in DOMAIN clients' : SoundSlot(clients'[j])
  BY <1>2, InvariantBySlots
<1>4. OneSlotPerId'
  BY <1>2 DEF IInv, OneSlotPerId
<1>5. \A j, l \in DOMAIN clients' :
         clients'[j].fd = clients'[l].fd /\ clients'[j].fd # NoFd => j = l
  BY <1>2 DEF IInv, FdNamesOneClient
<1> QED
  BY <1>2, <1>3, <1>4, <1>5
     DEF IInv, TypeOK, OneSlotPerId, FdNamesOneClient, TopicsDistinct, SoundSlot, Distinct

\* Appending a sound slot with an ID and a descriptor nobody has.
LEMMA AddSlot ==
  ASSUME IInv, NEW s,
         SoundSlot(s),
         \A j \in DOMAIN clients : clients[j].id # s.id /\ clients[j].fd # s.fd,
         clients' = Append(clients, s)
  PROVE  IInv'
<1>1. /\ clients \in Seq(Slots)
      /\ Len(clients) \in Nat
      /\ DOMAIN clients = 1 .. Len(clients)
      /\ s \in Slots
  BY LenProperties DEF IInv, TypeOK, SoundSlot
<1>2. /\ clients' \in Seq(Slots)
      /\ Len(clients') = Len(clients) + 1
      /\ \A j \in 1 .. Len(clients) : clients'[j] = clients[j]
      /\ clients'[Len(clients) + 1] = s
  BY <1>1, AppendProperties
<1>3. DOMAIN clients' = 1 .. Len(clients) + 1
  BY <1>2, LenProperties
<1>4. \A j \in DOMAIN clients' :
         \/ j \in DOMAIN clients /\ clients'[j] = clients[j]
         \/ j = Len(clients) + 1 /\ clients'[j] = s
  BY <1>1, <1>2, <1>3
<1>5. \A j \in DOMAIN clients' : SoundSlot(clients'[j])
  BY <1>4, InvariantBySlots
<1>6. OneSlotPerId'
  BY <1>4 DEF IInv, OneSlotPerId
<1>7. \A j, l \in DOMAIN clients' :
         clients'[j].fd = clients'[l].fd /\ clients'[j].fd # NoFd => j = l
  BY <1>4 DEF IInv, FdNamesOneClient
<1> QED
  BY <1>2, <1>5, <1>6, <1>7
     DEF IInv, TypeOK, OneSlotPerId, FdNamesOneClient, TopicsDistinct, SoundSlot, Distinct

\* What the invariant says of one slot.
LEMMA SlotFacts ==
  ASSUME IInv, NEW i \in DOMAIN clients
  PROVE  /\ SoundSlot(clients[i])
         /\ DOMAIN clients = 1 .. Len(clients)
         /\ Len(clients[i].topics) \in Nat
         /\ DOMAIN clients[i].topics  = 1 .. Len(clients[i].topics)
         /\ DOMAIN clients[i].options = DOMAIN clients[i].topics
<1>1. SoundSlot(clients[i]) /\ clients \in Seq(Slots)
  BY InvariantBySlots
<1>2. clients[i].topics \in Seq(Topics) /\ clients[i].options \in Seq(Options)
  BY <1>1 DEF SoundSlot, Slots
<1> QED
  BY <1>1, <1>2, LenProperties DEF SoundSlot

\* A step that leaves the vector alone keeps it.
LEMMA UnchangedInvariant == IInv /\ UNCHANGED clients => IInv'
  BY DEF IInv, TypeOK, OneSlotPerId, FdNamesOneClient, TopicsDistinct

\* A registration gives the ID one slot and the descriptor one ACTIVE slot.
LEMMA RegisterInvariant ==
  ASSUME IInv, Register
  PROVE  IInv'
<1>1. PICK id \in Ids, fd \in Fds, r \in Results :
        fd \notin LiveFds /\ register_new_client(id, fd, r)
  BY DEF Register
<1>2. fd # NoFd
  BY FdsAssumption DEF NoFd
<1>3. \A j \in DOMAIN clients : clients[j].fd # fd
  <2> SUFFICES ASSUME NEW j \in DOMAIN clients, clients[j].fd = fd PROVE FALSE
    OBVIOUS
  <2>1. clients[j].status = "ACTIVE"
    BY <1>2, SlotFacts DEF SoundSlot, Slots, Statuses
  <2> QED
    BY <1>1, <2>1 DEF LiveFds
<1>4. CASE UNCHANGED clients
  BY <1>4, UnchangedInvariant
<1>5. ASSUME NEW i \in DOMAIN clients,
             clients[i].status = "DEAD",
             clients' = [clients EXCEPT ![i].fd = fd, ![i].status = "ACTIVE"]
      PROVE  IInv'
  <2> DEFINE s == [clients[i] EXCEPT !.fd = fd, !.status = "ACTIVE"]
  <2>1. SoundSlot(clients[i])
    BY SlotFacts
  <2>2. clients' = [clients EXCEPT ![i] = s]
    BY <1>5
  <2>3. SoundSlot(s) /\ s.id = clients[i].id /\ s.fd = fd
    BY <2>1, <1>2 DEF SoundSlot, Slots, Statuses
  <2> HIDE DEF s
  <2> QED
    BY <2>2, <2>3, <1>3, ReplaceSlot
<1>6. ASSUME SlotsOfId(id) = {},
             clients' = Append(clients, NewSlot(id, fd))
      PROVE  IInv'
  <2>1. /\ NewSlot(id, fd) \in Slots
        /\ NewSlot(id, fd).topics = << >> /\ NewSlot(id, fd).options = << >>
        /\ NewSlot(id, fd).fd = fd
        /\ NewSlot(id, fd).id = id
        /\ NewSlot(id, fd).status = "ACTIVE"
    BY EmptySeq DEF NewSlot, Slots, Statuses
  <2>2. SoundSlot(NewSlot(id, fd))
    BY <2>1, <1>2, EmptySeq DEF SoundSlot, Distinct
  <2>3. \A j \in DOMAIN clients : clients[j].id # id
    BY <1>6 DEF SlotsOfId
  <2> QED
    BY <1>3, <1>6, <2>1, <2>2, <2>3, AddSlot
<1> QED
  BY <1>1, <1>4, <1>5, <1>6 DEF register_new_client

\* The end of a connection makes its slot DEAD and takes its descriptor.
LEMMA DisconnectInvariant ==
  ASSUME IInv, Disconnect
  PROVE  IInv'
<1>1. PICK fd \in Fds, r \in Results : close_active_client(fd, r)
  BY DEF Disconnect
<1>2. CASE UNCHANGED clients
  BY <1>2, UnchangedInvariant
<1>3. ASSUME NEW i \in DOMAIN clients,
             clients' = [clients EXCEPT ![i].status = "DEAD", ![i].fd = NoFd]
      PROVE  IInv'
  <2> DEFINE s == [clients[i] EXCEPT !.status = "DEAD", !.fd = NoFd]
  <2>1. SoundSlot(clients[i])
    BY SlotFacts
  <2>2. clients' = [clients EXCEPT ![i] = s]
    BY <1>3
  <2>3. SoundSlot(s) /\ s.id = clients[i].id /\ s.fd = NoFd
    BY <2>1 DEF SoundSlot, Slots, Statuses
  <2> HIDE DEF s
  <2> QED
    BY <2>2, <2>3, ReplaceSlot
<1> QED
  BY <1>1, <1>2, <1>3 DEF close_active_client

\* A subscription keeps topics and options parallel and the topics distinct.
LEMMA SubscribeInvariant ==
  ASSUME IInv, Subscribe
  PROVE  IInv'
<1>1. PICK fd \in Fds, t \in Topics, sf \in Options, r \in Results :
        subscribe_client_to_topic(fd, t, sf, r)
  BY DEF Subscribe
<1>2. CASE UNCHANGED clients
  BY <1>2, UnchangedInvariant
<1>3. ASSUME NEW i \in DOMAIN clients, NEW j \in DOMAIN clients[i].topics,
             clients' = [clients EXCEPT ![i].options[j] = sf]
      PROVE  IInv'
  <2> DEFINE s == [clients[i] EXCEPT !.options[j] = sf]
  <2>1. SoundSlot(clients[i]) /\ j \in DOMAIN clients[i].options
    BY SlotFacts
  <2>2. clients' = [clients EXCEPT ![i] = s]
    BY <1>3
  <2>3. /\ [clients[i].options EXCEPT ![j] = sf] \in Seq(Options)
        /\ Len([clients[i].options EXCEPT ![j] = sf]) = Len(clients[i].options)
    BY <2>1, ExceptSeq, LenProperties DEF SoundSlot, Slots
  <2>4. SoundSlot(s) /\ s.id = clients[i].id /\ s.fd = clients[i].fd
    BY <2>1, <2>3 DEF SoundSlot, Slots
  <2>5. s.fd = NoFd \/ \A l \in DOMAIN clients : l # i => clients[l].fd # s.fd
    BY <2>4 DEF IInv, FdNamesOneClient
  <2> HIDE DEF s
  <2> QED
    BY <2>2, <2>4, <2>5, ReplaceSlot
<1>4. ASSUME NEW i \in DOMAIN clients,
             TopicIndices(i, t) = {},
             clients' = [clients EXCEPT ![i].topics  = Append(@, t),
                                        ![i].options = Append(@, sf)]
      PROVE  IInv'
  <2> DEFINE T == Append(clients[i].topics, t)
             O == Append(clients[i].options, sf)
             s == [clients[i] EXCEPT !.topics = T, !.options = O]
  <2>1. /\ SoundSlot(clients[i])
        /\ Len(clients[i].topics) \in Nat
        /\ DOMAIN clients[i].topics = 1 .. Len(clients[i].topics)
        /\ clients[i].topics \in Seq(Topics)
        /\ clients[i].options \in Seq(Options)
    BY SlotFacts DEF SoundSlot, Slots
  <2>2. clients' = [clients EXCEPT ![i] = s]
    BY <1>4
  <2>3. /\ T \in Seq(Topics) /\ Len(T) = Len(clients[i].topics) + 1
        /\ O \in Seq(Options) /\ Len(O) = Len(clients[i].options) + 1
    BY <2>1, AppendProperties
  <2>4. \A n \in DOMAIN clients[i].topics : clients[i].topics[n] # t
    BY <1>4 DEF TopicIndices
  <2> HIDE DEF T, O
  <2>5. Distinct(T)
    BY <2>1, <2>4, DistinctAppend DEF SoundSlot, T
  <2>6. SoundSlot(s) /\ s.id = clients[i].id /\ s.fd = clients[i].fd
    BY <2>1, <2>3, <2>5 DEF SoundSlot, Slots
  <2>7. s.fd = NoFd \/ \A l \in DOMAIN clients : l # i => clients[l].fd # s.fd
    BY <2>6 DEF IInv, FdNamesOneClient
  <2> HIDE DEF s
  <2> QED
    BY <2>2, <2>6, <2>7, ReplaceSlot
<1> QED
  BY <1>1, <1>2, <1>3, <1>4 DEF subscribe_client_to_topic

\* So does the end of one.
LEMMA UnsubscribeInvariant ==
  ASSUME IInv, Unsubscribe
  PROVE  IInv'
<1>1. PICK fd \in Fds, t \in Topics, r \in Results :
        unsubscribe_client_from_topic(fd, t, r)
  BY DEF Unsubscribe
<1>2. CASE UNCHANGED clients
  BY <1>2, UnchangedInvariant
<1>3. ASSUME NEW i \in DOMAIN clients, NEW j \in DOMAIN clients[i].topics,
             clients' = [clients EXCEPT ![i].topics  = RemoveAt(@, j),
                                        ![i].options = RemoveAt(@, j)]
      PROVE  IInv'
  <2> DEFINE T == RemoveAt(clients[i].topics, j)
             O == RemoveAt(clients[i].options, j)
             s == [clients[i] EXCEPT !.topics = T, !.options = O]
  <2>1. /\ SoundSlot(clients[i])
        /\ Len(clients[i].topics) \in Nat
        /\ DOMAIN clients[i].topics = 1 .. Len(clients[i].topics)
        /\ clients[i].topics \in Seq(Topics)
        /\ clients[i].options \in Seq(Options)
        /\ j \in DOMAIN clients[i].options
    BY SlotFacts DEF SoundSlot, Slots
  <2>2. clients' = [clients EXCEPT ![i] = s]
    BY <1>3
  <2>3. /\ T \in Seq(Topics) /\ Len(T) = Len(clients[i].topics) - 1
        /\ O \in Seq(Options) /\ Len(O) = Len(clients[i].options) - 1
    BY <2>1, RemoveAtProperties
  <2> HIDE DEF T, O
  <2>4. Distinct(T)
    BY <2>1, DistinctRemoveAt DEF SoundSlot, T
  <2>5. SoundSlot(s) /\ s.id = clients[i].id /\ s.fd = clients[i].fd
    BY <2>1, <2>3, <2>4 DEF SoundSlot, Slots
  <2>6. s.fd = NoFd \/ \A l \in DOMAIN clients : l # i => clients[l].fd # s.fd
    BY <2>5 DEF IInv, FdNamesOneClient
  <2> HIDE DEF s
  <2> QED
    BY <2>2, <2>5, <2>6, ReplaceSlot
<1> QED
  BY <1>1, <1>2, <1>3 DEF unsubscribe_client_from_topic

\* Only the store of one slot changes.
LEMMA ReadyMsgsInvariant ==
  ASSUME IInv, NEW i \in DOMAIN clients, NEW R \in Seq(Ptrs),
         clients' = [clients EXCEPT ![i].ready_msgs = R]
  PROVE  IInv'
<1> DEFINE s == [clients[i] EXCEPT !.ready_msgs = R]
<1>1. clients' = [clients EXCEPT ![i] = s]
  OBVIOUS
<1>2. SoundSlot(clients[i])
  BY SlotFacts
<1>3. SoundSlot(s) /\ s.id = clients[i].id /\ s.fd = clients[i].fd
  BY <1>2 DEF SoundSlot, Slots
<1>4. s.fd = NoFd \/ \A l \in DOMAIN clients : l # i => clients[l].fd # s.fd
  BY <1>3 DEF IInv, FdNamesOneClient
<1> HIDE DEF s
<1> QED
  BY <1>1, <1>3, <1>4, ReplaceSlot

\* A pointer is stored.
LEMMA StoreInvariant ==
  ASSUME IInv, Store
  PROVE  IInv'
<1>1. PICK p \in Ptrs, i \in DOMAIN clients, r \in Results :
        add_topic_msg_for_client(p, i, r)
  BY DEF Store
<1>2. CASE UNCHANGED clients
  BY <1>2, UnchangedInvariant
<1>3. CASE clients' = [clients EXCEPT ![i].ready_msgs = Append(@, p)]
  <2>1. clients[i].ready_msgs \in Seq(Ptrs)
    BY SlotFacts DEF SoundSlot, Slots
  <2>2. Append(clients[i].ready_msgs, p) \in Seq(Ptrs)
    BY <2>1, AppendProperties
  <2>3. clients' = [clients EXCEPT ![i].ready_msgs = Append(clients[i].ready_msgs, p)]
    BY <1>3
  <2> QED
    BY <2>2, <2>3, ReadyMsgsInvariant
<1> QED
  BY <1>1, <1>2, <1>3 DEF add_topic_msg_for_client

\* A store is cut.
LEMMA ShrinkInvariant ==
  ASSUME IInv, Shrink
  PROVE  IInv'
<1>1. PICK i \in DOMAIN clients : \E n \in 0 .. Len(clients[i].ready_msgs) :
        set_ready_msgs_len(i, n)
  BY DEF Shrink
<1>2. PICK n \in 0 .. Len(clients[i].ready_msgs) : set_ready_msgs_len(i, n)
  BY <1>1
<1>3. clients[i].ready_msgs \in Seq(Ptrs)
  BY SlotFacts DEF SoundSlot, Slots
<1> DEFINE R == SubSeq(clients[i].ready_msgs, 1, n)
<1>4. R \in Seq(Ptrs)
  <2>1. \A m \in 1 .. n : clients[i].ready_msgs[m] \in Ptrs
    BY <1>2, <1>3, LenProperties, ElementOfSeq
  <2> QED
    BY <1>2, <2>1, <1>3, LenProperties, SubSeqProperties
<1>5. clients' = [clients EXCEPT ![i].ready_msgs = R]
  BY <1>2 DEF set_ready_msgs_len
<1> HIDE DEF R
<1> QED
  BY <1>4, <1>5, ReadyMsgsInvariant

\* Every step keeps the invariant.
LEMMA NextInvariant == IInv /\ [Next]_clients => IInv'
  BY RegisterInvariant, DisconnectInvariant, SubscribeInvariant, UnsubscribeInvariant,
     StoreInvariant, ShrinkInvariant, UnchangedInvariant
     DEF Next

-----------------------------------------------------------------------------
\* Every behaviour of the clients vector keeps all four properties.
THEOREM ClientVecInvariant == Spec => []IInv
  BY InitInvariant, NextInvariant, PTL DEF Spec

\* The slots stay well-formed records with parallel arrays of one length, whatever
\* allocations fail (client_vec.c).
THEOREM TypeCorrect == Spec => []TypeOK
  BY ClientVecInvariant, PTL DEF IInv

\* A subscriber ID never owns two slots: a reconnection always finds the old one.
THEOREM IdsOwnOneSlot == Spec => []OneSlotPerId
  BY ClientVecInvariant, PTL DEF IInv

\* A descriptor never leads close, subscribe or unsubscribe to somebody else's slot.
THEOREM FdsNameOneClient == Spec => []FdNamesOneClient
  BY ClientVecInvariant, PTL DEF IInv

\* No slot lists a topic twice, so one unsubscription ends a subscription.
THEOREM TopicsStayDistinct == Spec => []TopicsDistinct
  BY ClientVecInvariant, PTL DEF IInv
-----------------------------------------------------------------------------
(***************************************************************************)
(* The clients vector implements the registry of subscribers.  Under the   *)
(* invariant a slot determines what the mapping says of its ID (KnownIDs), *)
(* and a step that replaces one slot changes the mapping at one ID only    *)
(* (Frame).  What is left is one lemma for each action of ClientVec, which *)
(* names the action of Registry.                                           *)
(***************************************************************************)
\* The subscriptions f are those that the parallel arrays of slot s list.
Holds(f, s) ==
    /\ f \in [Topics -> {"none"} \cup Options]
    /\ \A j \in DOMAIN s.topics : f[s.topics[j]] = s.options[j]
    /\ \A t \in Topics : (\A j \in DOMAIN s.topics : s.topics[j] # t) => f[t] = "none"

\* What the mapping says of an ID with a slot ...
LookedUp == \A i \in DOMAIN clients :
    LET id == clients[i].id IN
    /\ id \in Ids
    /\ FdOf[id] = clients[i].fd
    /\ StoredOf[id] = clients[i].ready_msgs
    /\ Holds(SubsOf[id], clients[i])

\* ... and of one without.
Unknowns == \A id \in Ids : ~ Known(id) =>
    /\ FdOf[id] = NoFd
    /\ StoredOf[id] = << >>
    /\ SubsOf[id] = [t \in Topics |-> "none"]

\* The registry of an ID without a slot.
LEMMA UnknownIDs == Unknowns
<1> SUFFICES ASSUME NEW id \in Ids, ~ Known(id)
             PROVE  /\ FdOf[id] = NoFd
                    /\ StoredOf[id] = << >>
                    /\ SubsOf[id] = [t \in Topics |-> "none"]
  BY DEF Unknowns
<1>1. FdOf[id] = NoFd /\ StoredOf[id] = << >>
  BY DEF FdOf, StoredOf
<1>2. SlotsOfId(id) = {}
  BY DEF Known, SlotsOfId
<1> QED
  BY <1>1, <1>2 DEF SubsOf

\* The registry of an ID with a slot is read from that slot.
LEMMA KnownIDs == IInv => LookedUp
<1> SUFFICES ASSUME IInv, NEW i \in DOMAIN clients
             PROVE  /\ clients[i].id \in Ids
                    /\ FdOf[clients[i].id] = clients[i].fd
                    /\ StoredOf[clients[i].id] = clients[i].ready_msgs
                    /\ Holds(SubsOf[clients[i].id], clients[i])
  BY DEF LookedUp
<1> DEFINE id == clients[i].id
           top == clients[i].topics
           opt == clients[i].options
<1>1. /\ SoundSlot(clients[i])
      /\ DOMAIN opt = DOMAIN top
      /\ id \in Ids
      /\ \A j \in DOMAIN top : top[j] \in Topics /\ opt[j] \in Options
  <2>1. SoundSlot(clients[i]) /\ DOMAIN opt = DOMAIN top
    BY SlotFacts
  <2>2. top \in Seq(Topics) /\ opt \in Seq(Options) /\ id \in Ids
    BY <2>1 DEF SoundSlot, Slots
  <2>3. \A j \in DOMAIN top : top[j] \in Topics
    BY <2>2, LenProperties, ElementOfSeq
  <2>4. \A j \in DOMAIN opt : opt[j] \in Options
    BY <2>2, LenProperties, ElementOfSeq
  <2> QED
    BY <2>1, <2>2, <2>3, <2>4
<1>2. SlotsOfId(id) = {i}
  BY DEF IInv, OneSlotPerId, SlotsOfId
<1>3. Known(id)
  BY DEF Known
<1>4. {clients[n] : n \in SlotsOfId(id)} = {clients[i]}
  BY <1>2
<1>5. (CHOOSE c \in {clients[n] : n \in SlotsOfId(id)} : TRUE) = clients[i]
  BY <1>4
<1>6. FdOf[id] = clients[i].fd /\ StoredOf[id] = clients[i].ready_msgs
  BY <1>1, <1>3, <1>5 DEF FdOf, StoredOf
<1>7. ASSUME NEW j \in DOMAIN top
      PROVE  SubsOf[id][top[j]] = opt[j]
  <2> DEFINE t == top[j]
             P(o) == \E n \in SlotsOfId(id) : \E m \in TopicIndices(n, t) : clients[n].options[m] = o
  <2>1. TopicIndices(i, t) = {j}
    BY <1>1 DEF TopicIndices, SoundSlot, Distinct
  <2>2. \A o \in Options : P(o) <=> o = opt[j]
    BY <1>2, <2>1
  <2>3. (CHOOSE o \in Options : P(o)) = opt[j]
    <3> HIDE DEF P
    <3> QED BY <1>1, <2>2
  <2>4. \E n \in SlotsOfId(id) : TopicIndices(n, t) # {}
    BY <1>2, <2>1
  <2>5. id \in Ids /\ t \in Topics
    BY <1>1
  <2>6. SubsOf[id][t] = CHOOSE o \in Options : P(o)
    BY <2>4, <2>5 DEF SubsOf
  <2> QED
    BY <2>3, <2>6
<1>8. ASSUME NEW t \in Topics, \A j \in DOMAIN top : top[j] # t
      PROVE  SubsOf[id][t] = "none"
  <2>1. ~ \E n \in SlotsOfId(id) : TopicIndices(n, t) # {}
    BY <1>2, <1>8 DEF TopicIndices
  <2> QED
    BY <1>1, <2>1 DEF SubsOf
<1>9. SubsOf[id] \in [Topics -> {"none"} \cup Options]
  <2> DEFINE option(x, t) ==
               IF \E n \in SlotsOfId(x) : TopicIndices(n, t) # {}
               THEN CHOOSE o \in Options : \E n \in SlotsOfId(x) : \E m \in TopicIndices(n, t) :
                        clients[n].options[m] = o
               ELSE "none"
  <2>0. SubsOf = [x \in Ids |-> [t \in Topics |-> option(x, t)]]
    BY Zenon DEF SubsOf
  <2>1. SubsOf[id] = [t \in Topics |-> SubsOf[id][t]]
    <3> HIDE DEF option
    <3> QED BY <1>1, <2>0
  <2>2. \A t \in Topics : SubsOf[id][t] \in {"none"} \cup Options
    BY <1>1, <1>7, <1>8
  <2> QED
    BY <2>1, <2>2
<1> QED
  BY <1>1, <1>6, <1>7, <1>8, <1>9 DEF Holds

\* The same after a step.
LEMMA KnownIDsNext == IInv' => LookedUp'
  BY KnownIDs, PTL

\* The same after a step.
LEMMA UnknownIDsNext == Unknowns'
  BY UnknownIDs, PTL

\* The arrays determine the subscriptions.
LEMMA OneMap ==
  ASSUME NEW s, NEW f, NEW g, Holds(f, s), Holds(g, s)
  PROVE  f = g
<1>1. \A t \in Topics : f[t] = g[t]
  BY DEF Holds
<1> QED
  BY <1>1 DEF Holds

\* The maps of the registry are functions on the IDs.
LEMMA MapsAreFunctions ==
  /\ FdOf = [x \in Ids |-> FdOf[x]] /\ FdOf' = [x \in Ids |-> FdOf'[x]]
  /\ StoredOf = [x \in Ids |-> StoredOf[x]] /\ StoredOf' = [x \in Ids |-> StoredOf'[x]]
  /\ SubsOf = [x \in Ids |-> SubsOf[x]] /\ SubsOf' = [x \in Ids |-> SubsOf'[x]]
  BY DEF FdOf, StoredOf, SubsOf

\* A step that replaces one slot changes the mapping at the ID of that slot only.
LEMMA Frame ==
  ASSUME IInv, IInv', NEW i \in DOMAIN clients, NEW s,
         clients' = [clients EXCEPT ![i] = s],
         s.id = clients[i].id
  PROVE  /\ s.id \in Ids
         /\ FdOf' = [FdOf EXCEPT ![s.id] = s.fd]
         /\ StoredOf' = [StoredOf EXCEPT ![s.id] = s.ready_msgs]
         /\ SubsOf' = [SubsOf EXCEPT ![s.id] = SubsOf'[s.id]]
         /\ Holds(SubsOf'[s.id], s)
<1>1. LookedUp /\ LookedUp' /\ Unknowns /\ Unknowns'
  BY KnownIDs, KnownIDsNext, UnknownIDs, UnknownIDsNext
<1>2. /\ DOMAIN clients' = DOMAIN clients
      /\ clients'[i] = s
      /\ \A j \in DOMAIN clients : j # i => clients'[j] = clients[j]
  OBVIOUS
<1>3. /\ s.id \in Ids
      /\ FdOf'[s.id] = s.fd
      /\ StoredOf'[s.id] = s.ready_msgs
      /\ Holds(SubsOf'[s.id], s)
  BY <1>1, <1>2 DEF LookedUp
<1>4. ASSUME NEW x \in Ids, x # s.id
      PROVE  FdOf'[x] = FdOf[x] /\ StoredOf'[x] = StoredOf[x] /\ SubsOf'[x] = SubsOf[x]
  <2>1. CASE Known(x)
    <3>1. PICK j \in DOMAIN clients : clients[j].id = x
      BY <2>1 DEF Known
    <3>2. clients'[j] = clients[j]
      BY <1>2, <1>4, <3>1
    <3>3. Holds(SubsOf[x], clients[j]) /\ Holds(SubsOf'[x], clients[j])
      BY <1>1, <1>2, <3>1, <3>2 DEF LookedUp
    <3>4. SubsOf'[x] = SubsOf[x]
      BY <3>3, OneMap
    <3> QED
      BY <1>1, <1>2, <3>1, <3>2, <3>4 DEF LookedUp
  <2>2. CASE ~ Known(x)
    <3>1. ~ Known(x)'
      BY <1>2, <1>4, <2>2 DEF Known
    <3> QED
      BY <1>1, <2>2, <3>1 DEF Unknowns
  <2> QED
    BY <2>1, <2>2
<1> QED
  BY <1>3, <1>4, MapsAreFunctions

\* A step that leaves a slot's topics and options alone leaves the subscriptions alone.
LEMMA FrameSubs ==
  ASSUME IInv, IInv', NEW i \in DOMAIN clients, NEW s,
         clients' = [clients EXCEPT ![i] = s],
         s.id = clients[i].id,
         s.topics = clients[i].topics, s.options = clients[i].options
  PROVE  SubsOf' = SubsOf
<1>1. Holds(SubsOf'[s.id], s) /\ SubsOf' = [SubsOf EXCEPT ![s.id] = SubsOf'[s.id]]
  BY Frame
<1>2. Holds(SubsOf'[s.id], clients[i]) /\ Holds(SubsOf[s.id], clients[i])
  BY <1>1, KnownIDs DEF Holds, LookedUp
<1>3. SubsOf'[s.id] = SubsOf[s.id]
  BY <1>2, OneMap
<1>4. SubsOf = [x \in Ids |-> SubsOf[x]]
  BY DEF SubsOf
<1> QED
  BY <1>1, <1>3, <1>4

\* A step that leaves the vector alone leaves the registry alone.
LEMMA Stutter == UNCHANGED clients => UNCHANGED Abstract!vars
  BY DEF Abstract!vars, FdOf, SubsOf, StoredOf, Known, SlotsOfId, TopicIndices

-----------------------------------------------------------------------------

\* A registration is one of the registry.
LEMMA RegisterImplements ==
  ASSUME IInv, IInv', Register
  PROVE  [Abstract!Next]_(Abstract!vars)
<1>1. PICK id \in Ids, fd \in Fds, r \in Results :
        fd \notin LiveFds /\ register_new_client(id, fd, r)
  BY DEF Register
<1>2. fd # NoFd
  BY FdsAssumption DEF NoFd
<1>3. LookedUp /\ LookedUp' /\ Unknowns /\ Unknowns'
  BY KnownIDs, KnownIDsNext, UnknownIDs, UnknownIDsNext
<1>4. \A other \in Ids : FdOf[other] # fd
  <2> SUFFICES ASSUME NEW other \in Ids, FdOf[other] = fd PROVE FALSE
    OBVIOUS
  <2>1. PICK j \in DOMAIN clients : clients[j].id = other
    BY <1>2, <1>3 DEF Unknowns, Known
  <2>2. clients[j].fd = fd
    BY <1>3, <2>1 DEF LookedUp
  <2>3. clients[j].status = "ACTIVE"
    BY <1>2, <2>2, SlotFacts DEF SoundSlot, Slots, Statuses
  <2> QED
    BY <1>1, <2>2, <2>3 DEF LiveFds
<1>5. CASE UNCHANGED clients
  BY <1>5, Stutter
<1>6. ASSUME NEW i \in DOMAIN clients,
             clients[i].id = id,
             clients[i].status = "DEAD",
             clients' = [clients EXCEPT ![i].fd = fd, ![i].status = "ACTIVE"]
      PROVE  Abstract!Join(id, fd)
  <2> DEFINE s == [clients[i] EXCEPT !.fd = fd, !.status = "ACTIVE"]
  <2>1. SoundSlot(clients[i]) /\ clients[i].fd = NoFd
    BY <1>6, SlotFacts DEF SoundSlot
  <2>2. clients' = [clients EXCEPT ![i] = s]
    BY <1>6
  <2>3. /\ s.id = id /\ s.id = clients[i].id /\ s.fd = fd /\ s.topics = clients[i].topics
        /\ s.options = clients[i].options /\ s.ready_msgs = clients[i].ready_msgs
    BY <2>1, <1>6 DEF SoundSlot, Slots
  <2> HIDE DEF s
  <2>4. SubsOf' = SubsOf
    BY <2>2, <2>3, FrameSubs
  <2>5. FdOf' = [FdOf EXCEPT ![id] = fd] /\ StoredOf' = [StoredOf EXCEPT ![id] = s.ready_msgs]
    BY <2>2, <2>3, Frame
  <2>6. FdOf[id] = NoFd /\ StoredOf[id] = s.ready_msgs
    BY <1>3, <1>6, <2>1, <2>3 DEF LookedUp
  <2>7. StoredOf' = StoredOf
    BY <2>5, <2>6 DEF StoredOf
  <2> QED
    BY <1>4, <2>4, <2>5, <2>6, <2>7 DEF Abstract!Join, Abstract!Online, NoFd
<1>7. ASSUME SlotsOfId(id) = {},
             clients' = Append(clients, NewSlot(id, fd))
      PROVE  Abstract!Join(id, fd)
  <2> DEFINE l == Len(clients) + 1
             s == NewSlot(id, fd)
  <2>1. /\ clients \in Seq(Slots)
        /\ Len(clients) \in Nat
        /\ DOMAIN clients = 1 .. Len(clients)
    BY LenProperties DEF IInv, TypeOK
  <2>2. /\ DOMAIN clients' = DOMAIN clients \cup {l}
        /\ clients'[l] = s
        /\ \A j \in DOMAIN clients : clients'[j] = clients[j]
    BY <1>7, <2>1
  <2>3. /\ s.id = id /\ s.fd = fd /\ s.ready_msgs = << >>
        /\ s.topics = << >> /\ s.options = << >>
    BY DEF NewSlot
  <2> HIDE DEF s, l
  <2>4. ~ Known(id)
    BY <1>7 DEF Known, SlotsOfId
  <2>5. FdOf[id] = NoFd /\ StoredOf[id] = << >> /\ SubsOf[id] = [t \in Topics |-> "none"]
    BY <1>3, <2>4 DEF Unknowns
  <2>6. FdOf'[id] = fd /\ StoredOf'[id] = << >> /\ Holds(SubsOf'[id], s)
    BY <1>3, <2>2, <2>3 DEF LookedUp
  <2>7. SubsOf'[id] = SubsOf[id]
    <3>1. SubsOf'[id] \in [Topics -> {"none"} \cup Options]
      BY <2>6 DEF Holds
    <3>2. \A t \in Topics : SubsOf'[id][t] = "none"
      BY <2>3, <2>6 DEF Holds
    <3> QED
      BY <2>5, <3>1, <3>2
  <2>8. ASSUME NEW x \in Ids, x # id
        PROVE  FdOf'[x] = FdOf[x] /\ StoredOf'[x] = StoredOf[x] /\ SubsOf'[x] = SubsOf[x]
    <3>1. CASE Known(x)
      <4>1. PICK j \in DOMAIN clients : clients[j].id = x
        BY <3>1 DEF Known
      <4>2. clients'[j] = clients[j] /\ j \in DOMAIN clients'
        BY <2>2
      <4>3. Holds(SubsOf[x], clients[j]) /\ Holds(SubsOf'[x], clients[j])
        BY <1>3, <4>1, <4>2 DEF LookedUp
      <4>4. SubsOf'[x] = SubsOf[x]
        BY <4>3, OneMap
      <4> QED
        BY <1>3, <4>1, <4>2, <4>4 DEF LookedUp
    <3>2. CASE ~ Known(x)
      <4>1. ~ Known(x)'
        BY <2>2, <2>3, <2>8, <3>2 DEF Known
      <4> QED
        BY <1>3, <3>2, <4>1 DEF Unknowns
    <3> QED
      BY <3>1, <3>2
  <2>9. FdOf' = [FdOf EXCEPT ![id] = fd] /\ StoredOf' = StoredOf /\ SubsOf' = SubsOf
    BY <2>5, <2>6, <2>7, <2>8, MapsAreFunctions
  <2> QED
    BY <1>4, <2>5, <2>9 DEF Abstract!Join, Abstract!Online, NoFd
<1> QED
  BY <1>1, <1>5, <1>6, <1>7 DEF register_new_client, IsFirst, SlotsOfId, Abstract!Next

\* The end of a connection is a disconnection of the registry.
LEMMA DisconnectImplements ==
  ASSUME IInv, IInv', Disconnect
  PROVE  [Abstract!Next]_(Abstract!vars)
<1>1. PICK fd \in Fds, r \in Results : close_active_client(fd, r)
  BY DEF Disconnect
<1>2. CASE UNCHANGED clients
  BY <1>2, Stutter
<1>3. ASSUME NEW i \in DOMAIN clients,
             clients[i].status = "ACTIVE",
             clients' = [clients EXCEPT ![i].status = "DEAD", ![i].fd = NoFd]
      PROVE  \E id \in Ids : Abstract!Leave(id)
  <2> DEFINE s == [clients[i] EXCEPT !.status = "DEAD", !.fd = NoFd]
  <2>1. SoundSlot(clients[i]) /\ clients[i].fd # NoFd
    BY <1>3, SlotFacts DEF SoundSlot
  <2>2. clients' = [clients EXCEPT ![i] = s]
    BY <1>3
  <2>3. /\ s.id = clients[i].id /\ s.fd = NoFd /\ s.topics = clients[i].topics
        /\ s.options = clients[i].options /\ s.ready_msgs = clients[i].ready_msgs
    BY <2>1 DEF SoundSlot, Slots
  <2> HIDE DEF s
  <2>4. SubsOf' = SubsOf
    BY <2>2, <2>3, FrameSubs
  <2>5. /\ s.id \in Ids
        /\ FdOf' = [FdOf EXCEPT ![s.id] = NoFd]
        /\ StoredOf' = [StoredOf EXCEPT ![s.id] = s.ready_msgs]
    BY <2>2, <2>3, Frame
  <2>6. FdOf[s.id] # NoFd /\ StoredOf[s.id] = s.ready_msgs
    BY <2>1, <2>3, KnownIDs DEF LookedUp
  <2>7. StoredOf' = StoredOf
    BY <2>5, <2>6, MapsAreFunctions
  <2> QED
    BY <2>4, <2>5, <2>6, <2>7 DEF Abstract!Leave, Abstract!Online, NoFd
<1> QED
  BY <1>1, <1>2, <1>3 DEF close_active_client, Abstract!Next

\* A step that changes only the topics and options of a connected slot.
LEMMA SetOptionImplements ==
  ASSUME IInv, IInv', NEW i \in DOMAIN clients, NEW s, NEW t \in Topics,
         NEW o \in {"none"} \cup Options,
         clients[i].fd # NoFd,
         clients' = [clients EXCEPT ![i] = s],
         s.id = clients[i].id, s.fd = clients[i].fd, s.ready_msgs = clients[i].ready_msgs,
         Holds([SubsOf[s.id] EXCEPT ![t] = o], s)
  PROVE  \E id \in Ids : Abstract!SetOption(id, t, o)
<1>1. /\ s.id \in Ids
      /\ FdOf' = [FdOf EXCEPT ![s.id] = s.fd]
      /\ StoredOf' = [StoredOf EXCEPT ![s.id] = s.ready_msgs]
      /\ SubsOf' = [SubsOf EXCEPT ![s.id] = SubsOf'[s.id]]
      /\ Holds(SubsOf'[s.id], s)
  BY Frame
<1>2. FdOf[s.id] = s.fd /\ StoredOf[s.id] = s.ready_msgs
  BY KnownIDs DEF LookedUp
<1>3. FdOf' = FdOf /\ StoredOf' = StoredOf
  <2>1. FdOf' = [FdOf EXCEPT ![s.id] = FdOf[s.id]]
    BY <1>1, <1>2
  <2>2. StoredOf' = [StoredOf EXCEPT ![s.id] = StoredOf[s.id]]
    BY <1>1, <1>2
  <2>3. FdOf' = FdOf
    BY <2>1, MapsAreFunctions
  <2>4. StoredOf' = StoredOf
    BY <2>2, MapsAreFunctions
  <2> QED
    BY <2>3, <2>4
<1>4. SubsOf'[s.id] = [SubsOf[s.id] EXCEPT ![t] = o]
  BY <1>1, OneMap
<1>5. SubsOf' = [SubsOf EXCEPT ![s.id][t] = o]
  BY <1>1, <1>4
<1> QED
  BY <1>1, <1>2, <1>3, <1>5 DEF Abstract!SetOption, Abstract!Online, NoFd

\* A subscription is one of the registry.
LEMMA SubscribeImplements ==
  ASSUME IInv, IInv', Subscribe
  PROVE  [Abstract!Next]_(Abstract!vars)
<1>1. PICK fd \in Fds, t \in Topics, sf \in Options, r \in Results :
        subscribe_client_to_topic(fd, t, sf, r)
  BY DEF Subscribe
<1>2. fd # NoFd
  BY FdsAssumption DEF NoFd
<1>3. CASE UNCHANGED clients
  BY <1>3, Stutter
<1>4. ASSUME NEW i \in DOMAIN clients, clients[i].fd = fd,
             NEW j \in DOMAIN clients[i].topics, clients[i].topics[j] = t,
             clients' = [clients EXCEPT ![i].options[j] = sf]
      PROVE  \E id \in Ids : Abstract!SetOption(id, t, sf)
  <2> DEFINE s == [clients[i] EXCEPT !.options[j] = sf]
  <2>1. SoundSlot(clients[i]) /\ DOMAIN clients[i].options = DOMAIN clients[i].topics
    BY SlotFacts
  <2>2. clients' = [clients EXCEPT ![i] = s]
    BY <1>4
  <2>3. /\ s.id = clients[i].id /\ s.fd = clients[i].fd /\ s.topics = clients[i].topics
        /\ s.options = [clients[i].options EXCEPT ![j] = sf]
        /\ s.ready_msgs = clients[i].ready_msgs
    BY <2>1 DEF SoundSlot, Slots
  <2> HIDE DEF s
  <2>4. Holds(SubsOf[s.id], clients[i])
    BY <2>3, KnownIDs DEF LookedUp
  <2>5. \A n \in DOMAIN clients[i].topics : clients[i].topics[n] = t => n = j
    BY <1>4, <2>1 DEF SoundSlot, Distinct
  <2>6. Holds([SubsOf[s.id] EXCEPT ![t] = sf], s)
    <3> DEFINE f == [SubsOf[s.id] EXCEPT ![t] = sf]
    <3>1. f \in [Topics -> {"none"} \cup Options]
      BY <2>4 DEF Holds
    <3>2. \A n \in DOMAIN s.topics : f[s.topics[n]] = s.options[n]
      BY <1>4, <2>1, <2>3, <2>4, <2>5 DEF Holds
    <3>3. \A x \in Topics : (\A n \in DOMAIN s.topics : s.topics[n] # x) => f[x] = "none"
      BY <1>4, <2>3, <2>4 DEF Holds
    <3> QED
      BY <3>1, <3>2, <3>3 DEF Holds
  <2> QED
    BY <1>2, <1>4, <2>2, <2>3, <2>6, SetOptionImplements
<1>5. ASSUME NEW i \in DOMAIN clients, clients[i].fd = fd,
             TopicIndices(i, t) = {},
             clients' = [clients EXCEPT ![i].topics  = Append(@, t),
                                        ![i].options = Append(@, sf)]
      PROVE  \E id \in Ids : Abstract!SetOption(id, t, sf)
  <2> DEFINE top == clients[i].topics
             opt == clients[i].options
             s == [clients[i] EXCEPT !.topics = Append(top, t), !.options = Append(opt, sf)]
  <2>1. /\ SoundSlot(clients[i])
        /\ Len(top) \in Nat
        /\ DOMAIN top = 1 .. Len(top)
        /\ Len(opt) = Len(top)
        /\ top \in Seq(Topics)
        /\ opt \in Seq(Options)
    BY SlotFacts DEF SoundSlot, Slots
  <2>2. clients' = [clients EXCEPT ![i] = s]
    BY <1>5
  <2>3. /\ s.id = clients[i].id /\ s.fd = clients[i].fd
        /\ s.topics = Append(top, t) /\ s.options = Append(opt, sf)
        /\ s.ready_msgs = clients[i].ready_msgs
    BY <2>1 DEF SoundSlot, Slots
  <2> HIDE DEF s
  <2>4. Holds(SubsOf[s.id], clients[i])
    BY <2>3, KnownIDs DEF LookedUp
  <2>5. \A n \in DOMAIN top : top[n] # t
    BY <1>5 DEF TopicIndices
  <2>6. /\ DOMAIN s.topics = DOMAIN top \cup {Len(top) + 1}
        /\ \A n \in DOMAIN top : s.topics[n] = top[n] /\ s.options[n] = opt[n]
        /\ s.topics[Len(top) + 1] = t /\ s.options[Len(top) + 1] = sf
    BY <2>1, <2>3, AppendProperties
  <2> HIDE DEF top, opt
  <2>7. Holds([SubsOf[s.id] EXCEPT ![t] = sf], s)
    <3> DEFINE f == [SubsOf[s.id] EXCEPT ![t] = sf]
    <3>0. /\ SubsOf[s.id] \in [Topics -> {"none"} \cup Options]
          /\ \A n \in DOMAIN top : SubsOf[s.id][top[n]] = opt[n]
          /\ \A x \in Topics : (\A n \in DOMAIN top : top[n] # x) => SubsOf[s.id][x] = "none"
      BY <2>4 DEF Holds, top, opt
    <3>1. f \in [Topics -> {"none"} \cup Options]
      BY <3>0
    <3>2. \A n \in DOMAIN s.topics : f[s.topics[n]] = s.options[n]
      <4>1. \A n \in DOMAIN top : f[top[n]] = opt[n]
        <5>1. \A n \in DOMAIN top : top[n] \in Topics
          BY <2>1, LenProperties, ElementOfSeq
        <5> QED
          BY <2>5, <3>0, <5>1
      <4>2. f[t] = sf
        BY <3>0
      <4> HIDE DEF f
      <4> QED
        BY <2>6, <4>1, <4>2
    <3>3. \A x \in Topics : (\A n \in DOMAIN s.topics : s.topics[n] # x) => f[x] = "none"
      <4> SUFFICES ASSUME NEW x \in Topics, \A n \in DOMAIN s.topics : s.topics[n] # x
                   PROVE  f[x] = "none"
        OBVIOUS
      <4>1. x # t
        BY <2>6
      <4>2. \A n \in DOMAIN top : top[n] # x
        BY <2>6
      <4> QED
        BY <3>0, <4>1, <4>2
    <3> HIDE DEF f
    <3>4. Holds(f, s)
      BY <3>1, <3>2, <3>3 DEF Holds
    <3> QED
      BY <3>4 DEF f
  <2> QED
    BY <1>2, <1>5, <2>2, <2>3, <2>7, SetOptionImplements
<1>6. (\E id \in Ids : Abstract!SetOption(id, t, sf)) => Abstract!Next
  BY DEF Abstract!Next, Options
<1>7. CASE SlotsOfFd(fd) = {} /\ UNCHANGED clients
  BY <1>3, <1>7
<1>8. CASE \E i \in DOMAIN clients : IsFirst(i, SlotsOfFd(fd))
  <2>1. PICK i \in DOMAIN clients :
          /\ clients[i].fd = fd
          /\ \/ \E j \in DOMAIN clients[i].topics :
                  /\ clients[i].topics[j] = t
                  /\ clients' = [clients EXCEPT ![i].options[j] = sf]
             \/ /\ TopicIndices(i, t) = {}
                /\ clients' = [clients EXCEPT ![i].topics  = Append(@, t),
                                              ![i].options = Append(@, sf)]
             \/ UNCHANGED clients
    BY <1>1, <1>8 DEF subscribe_client_to_topic, IsFirst, SlotsOfFd, TopicIndices
  <2> QED
    BY <2>1, <1>3, <1>4, <1>5, <1>6
<1> QED
  BY <1>1, <1>7, <1>8 DEF subscribe_client_to_topic

\* The end of a subscription is one of the registry.
LEMMA UnsubscribeImplements ==
  ASSUME IInv, IInv', Unsubscribe
  PROVE  [Abstract!Next]_(Abstract!vars)
<1>1. PICK fd \in Fds, t \in Topics, r \in Results :
        unsubscribe_client_from_topic(fd, t, r)
  BY DEF Unsubscribe
<1>2. fd # NoFd
  BY FdsAssumption DEF NoFd
<1>3. CASE UNCHANGED clients
  BY <1>3, Stutter
<1>4. ASSUME NEW i \in DOMAIN clients, clients[i].fd = fd,
             NEW j \in DOMAIN clients[i].topics, clients[i].topics[j] = t,
             clients' = [clients EXCEPT ![i].topics  = RemoveAt(@, j),
                                        ![i].options = RemoveAt(@, j)]
      PROVE  \E id \in Ids : Abstract!SetOption(id, t, "none")
  <2> DEFINE top == clients[i].topics
             opt == clients[i].options
             s == [clients[i] EXCEPT !.topics = RemoveAt(top, j), !.options = RemoveAt(opt, j)]
             from(n) == IF n < j THEN n ELSE n + 1
  <2>1. /\ SoundSlot(clients[i])
        /\ Len(top) \in Nat
        /\ DOMAIN top = 1 .. Len(top)
        /\ Len(opt) = Len(top)
        /\ top \in Seq(Topics)
        /\ opt \in Seq(Options)
        /\ j \in DOMAIN top /\ j \in DOMAIN opt
        /\ top[j] = t
    BY <1>4, SlotFacts DEF SoundSlot, Slots
  <2>2. clients' = [clients EXCEPT ![i] = s]
    BY <1>4
  <2>3. /\ s.id = clients[i].id /\ s.fd = clients[i].fd
        /\ s.topics = RemoveAt(top, j) /\ s.options = RemoveAt(opt, j)
        /\ s.ready_msgs = clients[i].ready_msgs
    BY <2>1 DEF SoundSlot, Slots
  <2> HIDE DEF s
  <2>4. Holds(SubsOf[s.id], clients[i])
    BY <2>3, KnownIDs DEF LookedUp
  <2>5. \A n \in DOMAIN top : top[n] = t => n = j
    BY <1>4, <2>1 DEF SoundSlot, Distinct
  <2>6. /\ DOMAIN s.topics = 1 .. Len(top) - 1
        /\ \A n \in 1 .. Len(top) - 1 : s.topics[n] = top[from(n)] /\ s.options[n] = opt[from(n)]
    <3> HIDE DEF top, opt
    <3>1. /\ RemoveAt(top, j) \in Seq(Topics)
          /\ Len(RemoveAt(top, j)) = Len(top) - 1
          /\ \A n \in 1 .. Len(top) - 1 : RemoveAt(top, j)[n] = top[from(n)]
      BY <2>1, RemoveAtProperties
    <3>2. \A n \in 1 .. Len(opt) - 1 : RemoveAt(opt, j)[n] = opt[from(n)]
      BY <2>1, RemoveAtProperties
    <3> QED
      BY <2>1, <2>3, <3>1, <3>2, LenProperties
  <2>7. Holds([SubsOf[s.id] EXCEPT ![t] = "none"], s)
    <3> DEFINE f == [SubsOf[s.id] EXCEPT ![t] = "none"]
    <3>1. /\ SubsOf[s.id] \in [Topics -> {"none"} \cup Options]
          /\ \A n \in DOMAIN top : SubsOf[s.id][top[n]] = opt[n]
          /\ \A x \in Topics : (\A n \in DOMAIN top : top[n] # x) => SubsOf[s.id][x] = "none"
      BY <2>4 DEF Holds
    <3> HIDE DEF top, opt
    <3>2. f \in [Topics -> {"none"} \cup Options]
      BY <3>1
    <3>3. ASSUME NEW n \in DOMAIN s.topics
          PROVE  f[s.topics[n]] = s.options[n]
      <4>1. s.topics[n] = top[from(n)] /\ s.options[n] = opt[from(n)]
        BY <2>6
      <4>2. from(n) \in DOMAIN top /\ from(n) # j
        BY <2>1, <2>6
      <4> HIDE DEF from
      <4>3. top[from(n)] # t /\ top[from(n)] \in Topics
        BY <2>1, <2>5, <4>2, LenProperties, ElementOfSeq
      <4>4. f[top[from(n)]] = SubsOf[s.id][top[from(n)]]
        BY <3>1, <4>3
      <4> QED
        BY <3>1, <4>1, <4>2, <4>4
    <3>4. ASSUME NEW x \in Topics, \A n \in DOMAIN s.topics : s.topics[n] # x
          PROVE  f[x] = "none"
      <4>1. CASE x = t
        BY <3>1, <4>1
      <4>2. CASE x # t
        <5>1. ASSUME NEW m \in DOMAIN top, top[m] = x PROVE FALSE
          <6>1. m # j
            BY <2>1, <4>2, <5>1
          <6>2. \E n \in 1 .. Len(top) - 1 : from(n) = m
            <7>1. CASE m < j
              BY <2>1, <7>1
            <7>2. CASE m > j
              <8>1. m - 1 \in 1 .. Len(top) - 1 /\ from(m - 1) = m
                BY <2>1, <7>2
              <8> QED
                BY <8>1
            <7> QED
              BY <2>1, <6>1, <7>1, <7>2
          <6> QED
            BY <2>6, <3>4, <5>1, <6>2
        <5> QED
          BY <3>1, <4>2, <5>1
      <4> QED
        BY <4>1, <4>2
    <3> HIDE DEF f
    <3>5. Holds(f, s)
      BY <3>2, <3>3, <3>4 DEF Holds
    <3> QED
      BY <3>5 DEF f
  <2> QED
    BY <1>2, <1>4, <2>2, <2>3, <2>7, SetOptionImplements
<1>5. (\E id \in Ids : Abstract!SetOption(id, t, "none")) => Abstract!Next
  BY DEF Abstract!Next
<1>6. CASE SlotsOfFd(fd) = {} /\ UNCHANGED clients
  BY <1>3, <1>6
<1>7. CASE \E i \in DOMAIN clients : IsFirst(i, SlotsOfFd(fd))
  <2>1. PICK i \in DOMAIN clients :
          /\ clients[i].fd = fd
          /\ \/ \E j \in DOMAIN clients[i].topics :
                  /\ clients[i].topics[j] = t
                  /\ clients' = [clients EXCEPT ![i].topics  = RemoveAt(@, j),
                                                ![i].options = RemoveAt(@, j)]
             \/ UNCHANGED clients
    BY <1>1, <1>7 DEF unsubscribe_client_from_topic, IsFirst, SlotsOfFd, TopicIndices
  <2> QED
    BY <2>1, <1>3, <1>4, <1>5
<1> QED
  BY <1>1, <1>6, <1>7 DEF unsubscribe_client_from_topic

\* A step that changes only the stored messages of a slot.
LEMMA ReadyMsgsFrame ==
  ASSUME IInv, IInv', NEW i \in DOMAIN clients, NEW R,
         clients' = [clients EXCEPT ![i].ready_msgs = R]
  PROVE  /\ clients[i].id \in Ids
         /\ FdOf' = FdOf /\ SubsOf' = SubsOf
         /\ StoredOf' = [StoredOf EXCEPT ![clients[i].id] = R]
         /\ FdOf[clients[i].id] = clients[i].fd
         /\ StoredOf[clients[i].id] = clients[i].ready_msgs
         /\ Holds(SubsOf[clients[i].id], clients[i])
<1> DEFINE s == [clients[i] EXCEPT !.ready_msgs = R]
<1>1. clients' = [clients EXCEPT ![i] = s]
  OBVIOUS
<1>2. SoundSlot(clients[i])
  BY SlotFacts
<1>3. /\ s.id = clients[i].id /\ s.fd = clients[i].fd /\ s.topics = clients[i].topics
      /\ s.options = clients[i].options /\ s.ready_msgs = R
  BY <1>2 DEF SoundSlot, Slots
<1> HIDE DEF s
<1>4. SubsOf' = SubsOf
  BY <1>1, <1>3, FrameSubs
<1>5. /\ s.id \in Ids
      /\ FdOf' = [FdOf EXCEPT ![s.id] = s.fd]
      /\ StoredOf' = [StoredOf EXCEPT ![s.id] = R]
  BY <1>1, <1>3, Frame
<1>6. /\ FdOf[clients[i].id] = clients[i].fd
      /\ StoredOf[clients[i].id] = clients[i].ready_msgs
      /\ Holds(SubsOf[clients[i].id], clients[i])
  BY KnownIDs DEF LookedUp
<1>7. FdOf' = [FdOf EXCEPT ![s.id] = FdOf[s.id]]
  BY <1>3, <1>5, <1>6
<1>8. FdOf' = FdOf
  BY <1>7, MapsAreFunctions
<1> QED
  BY <1>3, <1>4, <1>5, <1>6, <1>8

\* A pointer that is stored is a message the registry holds.
LEMMA StoreImplements ==
  ASSUME IInv, IInv', Store
  PROVE  [Abstract!Next]_(Abstract!vars)
<1>1. PICK p \in Ptrs, i \in DOMAIN clients, r \in Results :
        /\ clients[i].status = "DEAD"
        /\ SubscribedWithSF(i)
        /\ add_topic_msg_for_client(p, i, r)
  BY DEF Store
<1>2. CASE UNCHANGED clients
  BY <1>2, Stutter
<1>3. CASE clients' = [clients EXCEPT ![i].ready_msgs = Append(@, p)]
  <2> DEFINE id == clients[i].id
             R == Append(clients[i].ready_msgs, p)
  <2>1. clients' = [clients EXCEPT ![i].ready_msgs = R]
    BY <1>3
  <2> HIDE DEF R
  <2>2. /\ id \in Ids /\ FdOf' = FdOf /\ SubsOf' = SubsOf
        /\ StoredOf' = [StoredOf EXCEPT ![id] = R]
        /\ FdOf[id] = clients[i].fd
        /\ StoredOf[id] = clients[i].ready_msgs
        /\ Holds(SubsOf[id], clients[i])
    BY <2>1, ReadyMsgsFrame
  <2>3. clients[i].fd = NoFd
    BY <1>1, SlotFacts DEF SoundSlot
  <2>4. \E t \in Topics : SubsOf[id][t] = "SF"
    <3>1. PICK j \in DOMAIN clients[i].topics : clients[i].options[j] = "SF"
      BY <1>1 DEF SubscribedWithSF
    <3>2. clients[i].topics \in Seq(Topics)
      BY SlotFacts DEF SoundSlot, Slots
    <3>3. clients[i].topics[j] \in Topics
      BY <3>2, LenProperties, ElementOfSeq
    <3> QED
      BY <2>2, <3>1, <3>3 DEF Holds
  <2>5. StoredOf' = [StoredOf EXCEPT ![id] = Append(StoredOf[id], p)]
    BY <2>2 DEF R
  <2>6. Abstract!Keep(id, p)
    BY <2>2, <2>3, <2>4, <2>5 DEF Abstract!Keep, Abstract!Online, NoFd
  <2> QED
    BY <2>2, <2>6 DEF Abstract!Next
<1> QED
  BY <1>1, <1>2, <1>3 DEF add_topic_msg_for_client

\* A store that is cut is a delivery of the registry.
LEMMA ShrinkImplements ==
  ASSUME IInv, IInv', Shrink
  PROVE  [Abstract!Next]_(Abstract!vars)
<1>1. PICK i \in DOMAIN clients : \E n \in 0 .. Len(clients[i].ready_msgs) :
        clients[i].status = "ACTIVE" /\ set_ready_msgs_len(i, n)
  BY DEF Shrink
<1>2. PICK n \in 0 .. Len(clients[i].ready_msgs) :
        clients[i].status = "ACTIVE" /\ set_ready_msgs_len(i, n)
  BY <1>1
<1> DEFINE id == clients[i].id
           R == SubSeq(clients[i].ready_msgs, 1, n)
<1>3. clients' = [clients EXCEPT ![i].ready_msgs = R]
  BY <1>2 DEF set_ready_msgs_len
<1> HIDE DEF R
<1>4. /\ id \in Ids /\ FdOf' = FdOf /\ SubsOf' = SubsOf
      /\ StoredOf' = [StoredOf EXCEPT ![id] = R]
      /\ FdOf[id] = clients[i].fd
      /\ StoredOf[id] = clients[i].ready_msgs
  BY <1>3, ReadyMsgsFrame
<1>5. clients[i].fd # NoFd
  BY <1>2, SlotFacts DEF SoundSlot
<1>6. StoredOf' = [StoredOf EXCEPT ![id] = SubSeq(StoredOf[id], 1, n)]
  BY <1>4 DEF R
<1>7. Abstract!Release(id, n)
  BY <1>4, <1>5, <1>6 DEF Abstract!Release, Abstract!Online, NoFd
<1> QED
  BY <1>2, <1>4, <1>7 DEF Abstract!Next

\* The empty vector is the empty registry.
LEMMA InitImplements == Init => Abstract!Init
<1> SUFFICES ASSUME Init PROVE Abstract!Init
  OBVIOUS
<1>1. \A id \in Ids : ~ Known(id)
  BY DEF Init, Known
<1>2. \A id \in Ids : /\ FdOf[id] = -1
                      /\ StoredOf[id] = << >>
                      /\ SubsOf[id] = [t \in Topics |-> "none"]
  BY <1>1, UnknownIDs DEF Unknowns, NoFd
<1> QED
  BY <1>2, MapsAreFunctions DEF Abstract!Init

\* Every step is one of the registry, or leaves it alone.
LEMMA NextImplements == IInv /\ IInv' /\ [Next]_clients => [Abstract!Next]_(Abstract!vars)
  BY RegisterImplements, DisconnectImplements, SubscribeImplements, UnsubscribeImplements,
     StoreImplements, ShrinkImplements, Stutter
     DEF Next

\* The clients vector implements the registry: whatever the order of the calls in
\* client_vec.c and whichever allocations fail, a call changes one fact about one subscriber
\* or nothing at all.
THEOREM VectorImplementsRegistry == Spec => ImplementsRegistry
<1>1. Spec => []IInv
  BY ClientVecInvariant
<1> QED
  BY <1>1, InitImplements, NextImplements, PTL DEF Spec, ImplementsRegistry, Abstract!Spec
=============================================================================
