---------------------------- MODULE MemoryProofs ----------------------------
(***************************************************************************)
(* The arrays of the clients vector, the blocks of its slots, and that all *)
(* that is acquired is given back once: for every initial capacity, every  *)
(* bound and whatever allocation fails.                                    *)
(***************************************************************************)
EXTENDS Memory, SequenceLemmas

-----------------------------------------------------------------------------
(***************************************************************************)
(* The inductive invariant.  WithinArrays is not inductive alone: the next *)
(* element is written where the capacity says that there is room, so the   *)
(* capacity must never exceed the size of an array.                        *)
(***************************************************************************)
TopicBlock == {"topic"} \X Int

Slot == [topics : Seq(TopicBlock), cap : Nat \ {0},
         topicsSize : Nat, optionsSize : Nat,
         ready : Nat, readyCap : Nat \ {0}]

SoundSlot(s) ==
    /\ Len(s.topics) <= s.cap /\ s.cap <= s.topicsSize /\ s.cap <= s.optionsSize
    /\ s.ready <= s.readyCap

TypeOK ==
    /\ entities \in Seq(Slot)
    /\ capacity \in Nat \ {0} /\ entitiesSize \in Nat
    /\ entities # << >> => Serving

Room ==
    /\ Len(entities) <= capacity /\ capacity <= entitiesSize
    /\ \A i \in DOMAIN entities : SoundSlot(entities[i])

MInv == TypeOK /\ Room /\ SlotsOwnTheirBlocks

-----------------------------------------------------------------------------
\* The blocks of a slot are four and none of them is a topic.
LEMMA FourBlocks ==
    ASSUME NEW n \in Nat
    PROVE  ToSet(SlotBlocks(n)) = {<<"id", n>>, <<"topics", n>>, <<"options", n>>,
                                   <<"ready_msgs", n>>}
BY DEF ToSet, SlotBlocks

\* A slot with other topics, within its capacity.
LEMMA OtherTopics ==
    ASSUME NEW s \in Slot, SoundSlot(s), NEW T \in Seq(TopicBlock), Len(T) <= s.cap
    PROVE  /\ [s EXCEPT !.topics = T] \in Slot
           /\ [s EXCEPT !.topics = T].topics = T
           /\ SoundSlot([s EXCEPT !.topics = T])
<1> DEFINE t == [s EXCEPT !.topics = T]
<1>1. t \in Slot
  BY DEF Slot
<1>2. /\ t.topics = T /\ t.cap = s.cap /\ t.topicsSize = s.topicsSize
      /\ t.optionsSize = s.optionsSize /\ t.ready = s.ready /\ t.readyCap = s.readyCap
  BY DEF Slot
<1> HIDE DEF t
<1>3. SoundSlot(t)
  BY <1>2 DEF SoundSlot
<1> QED BY <1>1, <1>2, <1>3 DEF t

\* The topics of a slot.
LEMMA TopicsOfASlot ==
    ASSUME TypeOK, Room, NEW i \in DOMAIN entities
    PROVE  /\ entities[i] \in Slot /\ SoundSlot(entities[i])
           /\ entities[i].topics \in Seq(TopicBlock)
           /\ Len(entities[i].topics) \in Nat
           /\ DOMAIN entities[i].topics = 1 .. Len(entities[i].topics)
<1>1. entities[i] \in Slot /\ SoundSlot(entities[i])
  BY ElementOfSeq DEF TypeOK, Room
<1>2. entities[i].topics \in Seq(TopicBlock)
  BY <1>1 DEF Slot
<1> QED BY <1>1, <1>2, LenProperties

\* A step that leaves the vector alone, or empties it, keeps the invariant.
LEMMA NoSlots ==
    ASSUME MInv, entities' = << >>, UNCHANGED <<capacity, entitiesSize>>
    PROVE  MInv'
<1>1. Len(entities') = 0 /\ DOMAIN entities' = {} /\ entities' \in Seq(Slot)
  BY EmptySeq
<1>2. Len(entities) \in Nat
  BY LenProperties DEF MInv, TypeOK
<1>3. TypeOK' /\ Room'
  BY <1>1, <1>2 DEF MInv, TypeOK, Room
<1>4. SlotsOwnTheirBlocks'
  BY <1>1 DEF SlotsOwnTheirBlocks
<1> QED BY <1>3, <1>4 DEF MInv

\* A slot may be replaced by a sound one with topics of its own.
LEMMA ReplaceSlot ==
    ASSUME MInv, Serving', UNCHANGED <<capacity, entitiesSize>>,
           NEW i \in DOMAIN entities, NEW s \in Slot, SoundSlot(s),
           entities' = [entities EXCEPT ![i] = s],
           \A k \in DOMAIN entities : ToSet(SlotBlocks(k)) \subseteq live',
           \A k \in DOMAIN entities : k # i => ToSet(entities[k].topics) \subseteq live',
           ToSet(s.topics) \subseteq live',
           \A k \in DOMAIN entities : k # i =>
               \A l \in DOMAIN entities[k].topics : \A j \in DOMAIN s.topics :
                   entities[k].topics[l] # s.topics[j],
           Distinct(s.topics)
    PROVE  MInv'
<1>1. /\ entities \in Seq(Slot) /\ entities' \in Seq(Slot)
      /\ Len(entities') = Len(entities) /\ DOMAIN entities' = DOMAIN entities
      /\ entities'[i] = s /\ \A k \in DOMAIN entities : k # i => entities'[k] = entities[k]
  BY ExceptSeq DEF MInv, TypeOK
<1>2. TypeOK'
  BY <1>1 DEF MInv, TypeOK
<1>3. Room'
  BY <1>1 DEF MInv, Room
<1>4. SlotsOwnTheirBlocks'
  <2>1. ASSUME NEW k \in DOMAIN entities
        PROVE  ToSet(SlotBlocks(k)) \subseteq live' /\ ToSet(entities'[k].topics) \subseteq live'
    BY <1>1
  <2>2. ASSUME NEW k \in DOMAIN entities, NEW m \in DOMAIN entities,
               NEW j \in DOMAIN entities'[k].topics, NEW l \in DOMAIN entities'[m].topics,
               entities'[k].topics[j] = entities'[m].topics[l]
        PROVE  k = m /\ j = l
    <3>1. CASE k = i /\ m = i
      BY <3>1, <2>2, <1>1 DEF Distinct
    <3>2. CASE k = i /\ m # i
      BY <3>2, <2>2, <1>1
    <3>3. CASE k # i /\ m = i
      BY <3>3, <2>2, <1>1
    <3>4. CASE k # i /\ m # i
      BY <3>4, <2>2, <1>1 DEF MInv, SlotsOwnTheirBlocks
    <3> QED BY <3>1, <3>2, <3>3, <3>4
  <2> QED BY <2>1, <2>2, <1>1 DEF SlotsOwnTheirBlocks, SlotBlocks
<1> QED BY <1>2, <1>3, <1>4 DEF MInv

\* So may one whose topics stay as they are.
LEMMA SameTopics ==
    ASSUME MInv, Serving', UNCHANGED <<live, capacity, entitiesSize>>,
           NEW i \in DOMAIN entities, NEW s \in Slot, SoundSlot(s),
           s.topics = entities[i].topics,
           entities' = [entities EXCEPT ![i] = s]
    PROVE  MInv'
<1>1. \A k \in DOMAIN entities : /\ ToSet(SlotBlocks(k)) \subseteq live'
                                 /\ ToSet(entities[k].topics) \subseteq live'
  BY DEF MInv, SlotsOwnTheirBlocks
<1>2. \A k \in DOMAIN entities : k # i =>
          \A l \in DOMAIN entities[k].topics : \A j \in DOMAIN s.topics :
              entities[k].topics[l] # s.topics[j]
  BY DEF MInv, SlotsOwnTheirBlocks
<1>3. Distinct(s.topics)
  BY DEF MInv, SlotsOwnTheirBlocks, Distinct
<1> QED BY <1>1, <1>2, <1>3, ReplaceSlot

\* A block that malloc returns was not in use.
LEMMA FreshTopic ==
    ASSUME NEW b \in FreshTopics
    PROVE  b \in TopicBlock /\ b \notin live
<1> DEFINE range == 1 .. MaxSlots * MaxTopics
           free  == {n \in range : <<"topic", n>> \notin live}
<1>1. \A n \in range : n \in Int
  OBVIOUS
<1> HIDE DEF range
<1>2. b \in {<<"topic", n>> : n \in {m \in free : \A k \in free : m <= k}}
  BY Zenon DEF FreshTopics, range
<1>3. PICK n \in free : b = <<"topic", n>>
  BY <1>2
<1> QED BY <1>1, <1>3 DEF TopicBlock

\* A slot with room for it takes one more topic.
LEMMA AddsATopic ==
    ASSUME MInv, Serving', UNCHANGED <<capacity, entitiesSize>>,
           NEW i \in DOMAIN entities, NEW s \in Slot, SoundSlot(s),
           s.topics = entities[i].topics, Len(s.topics) < s.cap,
           AddTopic(i, s)
    PROVE  MInv'
<1>1. PICK b \in FreshTopics :
        /\ live' = live \cup {b}
        /\ entities' = [entities EXCEPT ![i] = [s EXCEPT !.topics = Append(@, b)]]
  BY DEF AddTopic
<1> DEFINE T == Append(s.topics, b)
           t == [s EXCEPT !.topics = T]
<1>2. b \in TopicBlock /\ b \notin live
  BY <1>1, FreshTopic
<1>3. s.topics \in Seq(TopicBlock) /\ Len(s.topics) \in Nat
      /\ DOMAIN s.topics = 1 .. Len(s.topics)
  BY LenProperties DEF Slot
<1>4. ToSet(s.topics) \subseteq live /\ Distinct(s.topics)
  BY DEF MInv, SlotsOwnTheirBlocks, Distinct
<1>5. \A j \in DOMAIN s.topics : s.topics[j] # b
  BY <1>2, <1>4 DEF ToSet
<1>6. T \in Seq(TopicBlock) /\ Len(T) = Len(s.topics) + 1 /\ DOMAIN T = 1 .. Len(T)
      /\ (\A j \in DOMAIN s.topics : T[j] = s.topics[j]) /\ T[Len(T)] = b
  BY <1>2, <1>3, AppendProperties
<1>7. Distinct(T)
  BY <1>2, <1>3, <1>4, <1>5, DistinctAppend
<1> HIDE DEF T
<1>8. \A j \in DOMAIN T : j \in DOMAIN s.topics \/ T[j] = b
  BY <1>3, <1>6
<1>9. t \in Slot /\ t.topics = T /\ SoundSlot(t)
  <2>1. s.cap \in Nat /\ Len(T) <= s.cap
    BY <1>3, <1>6 DEF Slot
  <2> QED BY <2>1, <1>6, OtherTopics
<1>10. entities' = [entities EXCEPT ![i] = t]
  BY <1>1 DEF T
<1>11. ToSet(T) \subseteq live'
  BY <1>1, <1>4, <1>6, <1>8 DEF ToSet
<1>12. \A k \in DOMAIN entities : /\ ToSet(SlotBlocks(k)) \subseteq live
                                  /\ ToSet(entities[k].topics) \subseteq live
  BY DEF MInv, SlotsOwnTheirBlocks
<1>13. ASSUME NEW k \in DOMAIN entities, k # i,
              NEW l \in DOMAIN entities[k].topics, NEW j \in DOMAIN T
       PROVE  entities[k].topics[l] # T[j]
  <2>1. entities[k].topics[l] # b
    BY <1>2, <1>12 DEF ToSet
  <2>2. ASSUME j \in DOMAIN s.topics
        PROVE  entities[k].topics[l] # s.topics[j]
    BY <1>13, <2>2 DEF MInv, SlotsOwnTheirBlocks
  <2> QED BY <1>6, <1>8, <2>1, <2>2
<1> HIDE DEF t
<1>14. /\ ToSet(t.topics) \subseteq live' /\ Distinct(t.topics)
       /\ \A k \in DOMAIN entities : k # i =>
              \A l \in DOMAIN entities[k].topics : \A j \in DOMAIN t.topics :
                  entities[k].topics[l] # t.topics[j]
  BY <1>7, <1>9, <1>11, <1>13
<1>15. \A k \in DOMAIN entities : /\ ToSet(SlotBlocks(k)) \subseteq live'
                                  /\ ToSet(entities[k].topics) \subseteq live'
  BY <1>1, <1>12
<1> QED BY <1>9, <1>10, <1>14, <1>15, ReplaceSlot

\* The slot that has grown, in one array or in both.
LEMMA GrownSlots ==
    ASSUME TypeOK, Room, NEW i \in DOMAIN entities
    PROVE  /\ half_grown(i) \in Slot /\ half_grown(i).topics = entities[i].topics
           /\ Grown(i) \in Slot /\ Grown(i).topics = entities[i].topics
           /\ SoundSlot(half_grown(i)) /\ SoundSlot(Grown(i))
           /\ Len(entities[i].topics) = entities[i].cap =>
                  Len(Grown(i).topics) < Grown(i).cap
<1> DEFINE slot == entities[i]
<1>1. slot \in Slot /\ SoundSlot(slot)
  BY TopicsOfASlot
<1>2. slot.cap \in Nat \ {0} /\ REALLOC_FACTOR * slot.cap \in Nat \ {0}
      /\ slot.cap < REALLOC_FACTOR * slot.cap /\ Len(slot.topics) \in Nat
  BY <1>1, TopicsOfASlot DEF Slot, REALLOC_FACTOR
<1> DEFINE h == half_grown(i)
           g == Grown(i)
<1>3. /\ h \in Slot /\ h.topics = slot.topics /\ h.cap = slot.cap
      /\ h.topicsSize = REALLOC_FACTOR * slot.cap /\ h.optionsSize = slot.optionsSize
      /\ h.ready = slot.ready /\ h.readyCap = slot.readyCap
  BY <1>1, <1>2 DEF half_grown, Slot
<1>4. /\ g \in Slot /\ g.topics = slot.topics /\ g.cap = REALLOC_FACTOR * slot.cap
      /\ g.topicsSize = REALLOC_FACTOR * slot.cap
      /\ g.optionsSize = REALLOC_FACTOR * slot.cap
      /\ g.ready = slot.ready /\ g.readyCap = slot.readyCap
  BY <1>1, <1>2 DEF Grown, Slot
<1> HIDE DEF h, g, slot
<1>5. SoundSlot(h)
  BY <1>1, <1>2, <1>3 DEF SoundSlot
<1>6. SoundSlot(g) /\ (Len(slot.topics) = slot.cap => Len(g.topics) < g.cap)
  BY <1>1, <1>2, <1>4 DEF SoundSlot
<1> QED BY <1>3, <1>4, <1>5, <1>6 DEF h, g, slot

\* subscribe_client_to_topic: the capacity grows after both arrays have.
LEMMA SubscribeKeeps ==
    ASSUME MInv, NEW i \in DOMAIN entities, subscribe_client_to_topic(i)
    PROVE  MInv'
<1> DEFINE slot == entities[i]
<1>1. slot \in Slot /\ SoundSlot(slot)
  BY TopicsOfASlot DEF MInv
<1>2. Serving' /\ UNCHANGED <<capacity, entitiesSize>>
  BY DEF subscribe_client_to_topic, Serving
<1>3. /\ half_grown(i) \in Slot /\ half_grown(i).topics = slot.topics
      /\ Grown(i) \in Slot /\ Grown(i).topics = slot.topics
      /\ SoundSlot(half_grown(i)) /\ SoundSlot(Grown(i))
      /\ Len(slot.topics) = slot.cap => Len(Grown(i).topics) < Grown(i).cap
  BY GrownSlots DEF MInv
<1>4. CASE UNCHANGED <<live, entities>>
  <2>1. entities' = [entities EXCEPT ![i] = slot]
    BY <1>4 DEF MInv, TypeOK
  <2> QED BY <1>1, <1>2, <1>4, <2>1, SameTopics
<1>5. CASE Len(slot.topics) < slot.cap /\ AddTopic(i, slot)
  BY <1>1, <1>2, <1>5, AddsATopic
<1>6. CASE entities' = [entities EXCEPT ![i] = half_grown(i)] /\ UNCHANGED live
  BY <1>2, <1>3, <1>6, SameTopics
<1>7. CASE entities' = [entities EXCEPT ![i] = Grown(i)] /\ UNCHANGED live
  BY <1>2, <1>3, <1>7, SameTopics
<1>8. CASE Len(slot.topics) = slot.cap /\ AddTopic(i, Grown(i))
  BY <1>2, <1>3, <1>8, AddsATopic
<1> QED BY <1>4, <1>5, <1>6, <1>7, <1>8 DEF subscribe_client_to_topic

\* unsubscribe_client_from_topic: the pointers behind the freed topic are shifted over it.
LEMMA UnsubscribeKeeps ==
    ASSUME MInv, NEW i \in DOMAIN entities, NEW j \in DOMAIN entities[i].topics,
           unsubscribe_client_from_topic(i, j)
    PROVE  MInv'
<1> DEFINE slot == entities[i]
           b    == slot.topics[j]
           T    == RemoveAt(slot.topics, j)
           t    == [slot EXCEPT !.topics = T]
<1>1. slot \in Slot /\ SoundSlot(slot) /\ slot.topics \in Seq(TopicBlock)
      /\ Len(slot.topics) \in Nat /\ DOMAIN slot.topics = 1 .. Len(slot.topics)
  BY TopicsOfASlot DEF MInv
<1>2. Serving' /\ UNCHANGED <<capacity, entitiesSize>> /\ live' = live \ {b}
      /\ entities' = [entities EXCEPT ![i] = t]
  BY DEF unsubscribe_client_from_topic, Serving, Release, ToSet
<1>3. \A k \in DOMAIN entities : /\ ToSet(SlotBlocks(k)) \subseteq live
                                 /\ ToSet(entities[k].topics) \subseteq live
  BY DEF MInv, SlotsOwnTheirBlocks
<1>4. Distinct(slot.topics)
  BY DEF MInv, SlotsOwnTheirBlocks, Distinct
<1>5. T \in Seq(TopicBlock) /\ Len(T) = Len(slot.topics) - 1
      /\ \A n \in 1 .. Len(T) : T[n] = IF n < j THEN slot.topics[n] ELSE slot.topics[n + 1]
  BY <1>1, RemoveAtProperties
<1>6. Distinct(T)
  BY <1>1, <1>4, DistinctRemoveAt
<1> HIDE DEF T
<1>7. DOMAIN T = 1 .. Len(T)
  BY <1>5, LenProperties
<1>8. \A n \in DOMAIN T : \E m \in DOMAIN slot.topics : m # j /\ T[n] = slot.topics[m]
  <2> TAKE n \in DOMAIN T
  <2>1. CASE n < j
    BY <2>1, <1>1, <1>5, <1>7
  <2>2. CASE ~ (n < j)
    <3>1. n + 1 \in DOMAIN slot.topics /\ n + 1 # j
      BY <2>2, <1>1, <1>5, <1>7
    <3> QED BY <2>2, <3>1, <1>5, <1>7
  <2> QED BY <2>1, <2>2
<1>9. t \in Slot /\ t.topics = T /\ SoundSlot(t)
  <2>1. slot.cap \in Nat /\ Len(slot.topics) <= slot.cap
    BY <1>1 DEF Slot, SoundSlot
  <2>2. Len(T) <= slot.cap
    BY <2>1, <1>1, <1>5
  <2> HIDE DEF slot
  <2> QED BY <2>2, <1>1, <1>5, OtherTopics
<1>10. ToSet(T) \subseteq live'
  <2>1. ASSUME NEW n \in DOMAIN T PROVE T[n] \in live'
    BY <1>2, <1>3, <1>4, <1>8 DEF ToSet, Distinct
  <2> QED BY <2>1 DEF ToSet
<1>11. ASSUME NEW k \in DOMAIN entities PROVE ToSet(SlotBlocks(k)) \subseteq live'
  <2>1. b \in TopicBlock
    BY <1>1, ElementOfSeq
  <2>2. k \in Nat
    BY LenProperties DEF MInv, TypeOK
  <2>3. b \notin ToSet(SlotBlocks(k))
    BY <2>1, <2>2, FourBlocks DEF TopicBlock
  <2> QED BY <1>2, <1>3, <2>3
<1>12. ASSUME NEW k \in DOMAIN entities, k # i,
              NEW l \in DOMAIN entities[k].topics
       PROVE  /\ \A n \in DOMAIN T : entities[k].topics[l] # T[n]
              /\ entities[k].topics[l] \in live'
  <2>1. \A m \in DOMAIN slot.topics : entities[k].topics[l] # slot.topics[m]
    BY <1>12 DEF MInv, SlotsOwnTheirBlocks
  <2> QED BY <1>2, <1>3, <1>8, <2>1 DEF ToSet
<1>13. \A k \in DOMAIN entities : k # i => ToSet(entities[k].topics) \subseteq live'
  BY <1>12 DEF ToSet
<1> HIDE DEF t
<1>14. /\ ToSet(t.topics) \subseteq live' /\ Distinct(t.topics)
       /\ \A k \in DOMAIN entities : k # i =>
              \A l \in DOMAIN entities[k].topics : \A n \in DOMAIN t.topics :
                  entities[k].topics[l] # t.topics[n]
  BY <1>6, <1>9, <1>10, <1>12
<1> QED BY <1>2, <1>9, <1>11, <1>13, <1>14, ReplaceSlot

\* register_new_client: a new slot has four new blocks and no topic; when one of the four
\* cannot be had, the ones of the slots in use are untouched.
LEMMA RegisterKeeps ==
    ASSUME MInv, register_new_client
    PROVE  MInv'
<1> DEFINE n == Len(entities) + 1
<1>1. /\ entities \in Seq(Slot) /\ Len(entities) \in Nat
      /\ DOMAIN entities = 1 .. Len(entities) /\ n \in Nat
  BY LenProperties DEF MInv, TypeOK
<1>2. /\ capacity' \in Nat \ {0} /\ entitiesSize' \in Nat
      /\ Len(entities) + 1 <= capacity' /\ capacity' <= entitiesSize'
  <2>1. /\ capacity \in Nat \ {0} /\ entitiesSize \in Nat
        /\ Len(entities) <= capacity /\ capacity <= entitiesSize
    BY DEF MInv, TypeOK, Room
  <2>2. CASE Len(entities) < capacity /\ UNCHANGED <<capacity, entitiesSize>>
    BY <1>1, <2>1, <2>2
  <2>3. CASE Len(entities) = capacity /\ capacity' = 2 * capacity /\ entitiesSize' = capacity'
    BY <1>1, <2>1, <2>3
  <2> QED BY <2>2, <2>3 DEF register_new_client, REALLOC_FACTOR
<1>3. Serving /\ Serving'
  BY DEF register_new_client, Serving
<1>4. CASE register_fails(n)
  <2>1. PICK m \in 0 .. 3 : live' = (live \cup ToSet(SubSeq(SlotBlocks(n), 1, m)))
                                     \ ToSet(SubSeq(SlotBlocks(n), 1, m))
    BY <1>4 DEF register_fails, Release
  <2>2. ToSet(SubSeq(SlotBlocks(n), 1, m)) \subseteq
            {"id", "topics", "options", "ready_msgs"} \X {n}
    BY DEF SlotBlocks, ToSet
  <2>3. entities' = entities
    BY <1>4 DEF register_fails
  <2>4. ASSUME NEW k \in DOMAIN entities
        PROVE  ToSet(SlotBlocks(k)) \subseteq live' /\ ToSet(entities[k].topics) \subseteq live'
    <3>1. ToSet(SlotBlocks(k)) \subseteq live /\ ToSet(entities[k].topics) \subseteq live
      BY DEF MInv, SlotsOwnTheirBlocks
    <3>2. ToSet(entities[k].topics) \subseteq TopicBlock
      BY TopicsOfASlot, ElementOfSeq DEF MInv, ToSet
    <3>3. k \in Nat /\ k # n
      BY <1>1
    <3>4. ToSet(SlotBlocks(k)) \cap ({"id", "topics", "options", "ready_msgs"} \X {n}) = {}
      BY <3>3, FourBlocks
    <3>5. TopicBlock \cap ({"id", "topics", "options", "ready_msgs"} \X {n}) = {}
      BY DEF TopicBlock
    <3> QED BY <3>1, <3>2, <3>4, <3>5, <2>1, <2>2
  <2>5. SlotsOwnTheirBlocks'
    BY <2>3, <2>4 DEF MInv, SlotsOwnTheirBlocks, SlotBlocks
  <2>6. TypeOK' /\ Room'
    BY <1>1, <1>2, <1>3, <2>3 DEF MInv, TypeOK, Room
  <2> QED BY <2>5, <2>6 DEF MInv
<1>5. CASE /\ live' = live \cup ToSet(SlotBlocks(n))
           /\ entities' = Append(entities, NewSlot)
  <2>1. /\ NewSlot \in Slot /\ SoundSlot(NewSlot) /\ NewSlot.topics = << >>
    BY CapacityAssumption, EmptySeq DEF NewSlot, Slot, SoundSlot
  <2>2. /\ entities' \in Seq(Slot) /\ Len(entities') = n /\ DOMAIN entities' = 1 .. n
        /\ \A k \in DOMAIN entities : entities'[k] = entities[k]
        /\ entities'[n] = NewSlot
    BY <1>1, <1>5, <2>1, AppendProperties
  <2>3. \A k \in DOMAIN entities' : k \in DOMAIN entities \/ k = n
    BY <1>1, <2>2
  <2>4. TypeOK' /\ Room'
    <3>1. \A k \in DOMAIN entities' : SoundSlot(entities'[k])
      BY <2>1, <2>2, <2>3 DEF MInv, Room
    <3> QED BY <1>1, <1>2, <1>3, <2>2, <3>1 DEF TypeOK, Room
  <2>5. ASSUME NEW k \in DOMAIN entities'
        PROVE  ToSet(SlotBlocks(k)) \subseteq live' /\ ToSet(entities'[k].topics) \subseteq live'
    <3>1. CASE k \in DOMAIN entities
      BY <3>1, <1>5, <2>2 DEF MInv, SlotsOwnTheirBlocks
    <3>2. CASE k = n
      BY <3>2, <1>5, <2>1, <2>2 DEF ToSet
    <3> QED BY <3>1, <3>2, <2>3
  <2>6. ASSUME NEW k \in DOMAIN entities', NEW m \in DOMAIN entities',
               NEW j \in DOMAIN entities'[k].topics, NEW l \in DOMAIN entities'[m].topics,
               entities'[k].topics[j] = entities'[m].topics[l]
        PROVE  k = m /\ j = l
    <3>1. k \in DOMAIN entities /\ m \in DOMAIN entities
      BY <2>1, <2>2, <2>3
    <3>2. entities'[k] = entities[k] /\ entities'[m] = entities[m]
      BY <2>2, <3>1
    <3> QED BY <2>6, <3>1, <3>2 DEF MInv, SlotsOwnTheirBlocks
  <2>7. SlotsOwnTheirBlocks'
    BY <2>5, <2>6 DEF SlotsOwnTheirBlocks, SlotBlocks
  <2> QED BY <2>4, <2>7 DEF MInv
<1> QED BY <1>4, <1>5 DEF register_new_client

\* add_topic_msg_for_client and retransmit_topics_to_client change one slot, not its topics;
\* the stored messages stay within their array, which is doubled before it is full.
LEMMA StoredSlot ==
    ASSUME TypeOK, Room, NEW i \in DOMAIN entities,
           add_topic_msg_for_client(i) \/ retransmit_topics_to_client(i)
    PROVE  \E s \in Slot : /\ SoundSlot(s) /\ s.topics = entities[i].topics
                           /\ entities' = [entities EXCEPT ![i] = s]
<1> DEFINE slot == entities[i]
           c    == IF slot.ready = slot.readyCap THEN REALLOC_FACTOR * slot.readyCap
                   ELSE slot.readyCap
<1>1. slot \in Slot /\ SoundSlot(slot)
  BY TopicsOfASlot
<1>2. /\ slot.ready \in Nat /\ slot.readyCap \in Nat \ {0} /\ slot.ready <= slot.readyCap
  BY <1>1 DEF Slot, SoundSlot
<1>3. c \in Nat \ {0} /\ slot.ready + 1 <= c
  BY <1>2 DEF REALLOC_FACTOR
<1>4. ASSUME NEW s \in Slot, s.topics = slot.topics, s.cap = slot.cap,
             s.topicsSize = slot.topicsSize, s.optionsSize = slot.optionsSize,
             s.ready <= s.readyCap
      PROVE  SoundSlot(s)
  BY <1>1, <1>4 DEF SoundSlot
<1>5. CASE add_topic_msg_for_client(i)
  <2> DEFINE s == [slot EXCEPT !.ready = @ + 1, !.readyCap = c]
  <2>1. entities' = [entities EXCEPT ![i] = s]
    BY <1>5 DEF add_topic_msg_for_client
  <2> HIDE DEF c, slot
  <2>2. slot.ready + 1 \in Nat
    BY <1>2
  <2>3. /\ s \in Slot /\ s.topics = slot.topics /\ s.cap = slot.cap
        /\ s.topicsSize = slot.topicsSize /\ s.optionsSize = slot.optionsSize
        /\ s.ready = slot.ready + 1 /\ s.readyCap = c
    BY <1>1, <1>3, <2>2 DEF Slot
  <2> HIDE DEF s
  <2>4. s.ready <= s.readyCap
    BY <1>3, <2>3
  <2> QED BY <1>4, <2>1, <2>3, <2>4 DEF slot
<1>6. CASE retransmit_topics_to_client(i)
  <2> DEFINE s == [slot EXCEPT !.ready = 0]
  <2>1. entities' = [entities EXCEPT ![i] = s]
    BY <1>6 DEF retransmit_topics_to_client
  <2> HIDE DEF slot
  <2>2. /\ s \in Slot /\ s.topics = slot.topics /\ s.cap = slot.cap
        /\ s.topicsSize = slot.topicsSize /\ s.optionsSize = slot.optionsSize
        /\ s.ready = 0 /\ s.readyCap = slot.readyCap
    BY <1>1 DEF Slot
  <2> HIDE DEF s
  <2>3. s.ready <= s.readyCap
    BY <1>2, <2>2
  <2> QED BY <1>4, <2>1, <2>2, <2>3 DEF slot
<1> QED BY <1>5, <1>6

LEMMA StoreKeeps ==
    ASSUME MInv, NEW i \in DOMAIN entities,
           add_topic_msg_for_client(i) \/ retransmit_topics_to_client(i)
    PROVE  MInv'
<1>1. Serving' /\ UNCHANGED <<live, capacity, entitiesSize>>
  BY DEF add_topic_msg_for_client, retransmit_topics_to_client, Serving
<1>2. PICK s \in Slot : /\ SoundSlot(s) /\ s.topics = entities[i].topics
                        /\ entities' = [entities EXCEPT ![i] = s]
  BY StoredSlot DEF MInv
<1> QED BY <1>1, <1>2, SameTopics

-----------------------------------------------------------------------------

\* The invariant holds when the program starts.
LEMMA InitMInv == Init => MInv
<1> SUFFICES ASSUME Init PROVE MInv
  OBVIOUS
<1>1. entities = << >> /\ capacity = InitCapacity /\ entitiesSize = InitCapacity
  BY DEF Init
<1>2. Len(entities) = 0 /\ DOMAIN entities = {} /\ entities \in Seq(Slot)
  BY <1>1, EmptySeq
<1> QED BY <1>1, <1>2, CapacityAssumption DEF MInv, TypeOK, Room, SlotsOwnTheirBlocks

\* Every step keeps it.
LEMMA NextMInv == MInv /\ [Next]_vars => MInv'
<1> SUFFICES ASSUME MInv, [Next]_vars PROVE MInv'
  OBVIOUS
<1>1. ASSUME ~ Serving, UNCHANGED <<entities, capacity, entitiesSize>>
      PROVE  MInv'
  <2>1. entities' = << >>
    BY <1>1 DEF MInv, TypeOK
  <2> QED BY <1>1, <2>1, NoSlots
<1>2. CASE Acquire
  BY <1>1, <1>2 DEF Acquire, Starting, Serving
<1>3. CASE FailToAcquire
  BY <1>1, <1>3 DEF FailToAcquire, Starting, Serving
<1>4. CASE free_server
  BY <1>4, NoSlots DEF free_server
<1>5. CASE free_client
  BY <1>1, <1>5 DEF free_client, Serving
<1>6. CASE register_new_client
  BY <1>6, RegisterKeeps
<1>7. ASSUME NEW i \in DOMAIN entities,
             \/ subscribe_client_to_topic(i)
             \/ \E j \in DOMAIN entities[i].topics : unsubscribe_client_from_topic(i, j)
             \/ add_topic_msg_for_client(i) \/ retransmit_topics_to_client(i)
      PROVE  MInv'
  BY <1>7, SubscribeKeeps, UnsubscribeKeeps, StoreKeeps
<1>8. CASE UNCHANGED vars
  BY <1>8 DEF vars, MInv, TypeOK, Room, SlotsOwnTheirBlocks, Serving, SlotBlocks
<1> QED BY <1>2, <1>3, <1>4, <1>5, <1>6, <1>7, <1>8 DEF Next

\* The state at every moment: typed, with room, and every slot with blocks of its own.
LEMMA AlwaysMInv == Spec => []MInv
BY InitMInv, NextMInv, PTL DEF Spec

\* No element is ever written behind the end of its array: neither of the vector nor of the
\* two parallel arrays of a client, of which the second may fail to grow, nor of its messages.
THEOREM ArraysHoldTheirElements == Spec => []WithinArrays
<1>1. MInv => WithinArrays
  <2> SUFFICES ASSUME MInv PROVE WithinArrays
    OBVIOUS
  <2>1. Len(entities) \in Nat /\ Len(entities) <= entitiesSize /\ capacity <= entitiesSize
    BY LenProperties DEF MInv, TypeOK, Room
  <2>2. ASSUME NEW i \in DOMAIN entities
        PROVE  /\ Len(entities[i].topics) <= entities[i].topicsSize
               /\ Len(entities[i].topics) <= entities[i].optionsSize
               /\ entities[i].ready <= entities[i].readyCap
    BY TopicsOfASlot DEF MInv, Slot, SoundSlot
  <2> QED BY <2>1, <2>2 DEF WithinArrays
<1> QED BY <1>1, AlwaysMInv, PTL

\* Every slot keeps its four blocks and its topics, and no topic is shared, whatever was freed
\* and reused in between: no pointer of the vector leads to a freed block.
THEOREM BlocksStayOwned == Spec => []SlotsOwnTheirBlocks
BY AlwaysMInv, PTL DEF MInv

-----------------------------------------------------------------------------
(* The things that there are once, by their names. *)

Name == {"stdin", "server", "client", "buf", "cmd", "send_msg", "recv_msg", "udp_msgs",
         "udp_socket", "tcp_socket", "poll_vec", "pfds", "clients", "entities",
         "id", "topics", "options", "ready_msgs", "topic"}

Block == Name \X Int

\* The position of an element of distinct ones, and what stands before it.
LEMMA UpToPosition ==
    ASSUME NEW S, NEW s \in Seq(S), Distinct(s), NEW n \in DOMAIN s
    PROVE  /\ Position(s, s[n]) = n
           /\ SubSeq(s, 1, n - 1) \in Seq(S)
           /\ Distinct(SubSeq(s, 1, n - 1))
           /\ ToSet(SubSeq(s, 1, n - 1)) = {s[m] : m \in 1 .. n - 1}
<1>1. Len(s) \in Nat /\ DOMAIN s = 1 .. Len(s)
  BY LenProperties
<1>2. Position(s, s[n]) = n
  BY DEF Position, Distinct
<1> DEFINE u == SubSeq(s, 1, n - 1)
<1>3. /\ u \in Seq(S) /\ DOMAIN u = 1 .. n - 1
      /\ \A m \in 1 .. n - 1 : m \in DOMAIN s /\ u[m] = s[m]
  <2>1. \A m \in 1 .. n - 1 : m \in DOMAIN s /\ s[m] \in S
    BY <1>1, ElementOfSeq
  <2> QED BY <1>1, <2>1, SubSeqProperties, LenProperties
<1> HIDE DEF u
<1>4. Distinct(u) /\ ToSet(u) = {s[m] : m \in 1 .. n - 1}
  BY <1>3 DEF Distinct, ToSet
<1> QED BY <1>2, <1>3, <1>4 DEF u

\* The names as blocks.
LEMMA OwnBlocks ==
    ASSUME NEW s \in Seq(Name)
    PROVE  /\ Own(s) \in Seq(Block)
           /\ Len(Own(s)) = Len(s) /\ \A n \in 1 .. Len(s) : Own(s)[n] = <<s[n], 0>>
           /\ ToSet(Own(s)) = ToSet(s) \X {0}
           /\ Distinct(s) => Distinct(Own(s))
<1>1. Len(s) \in Nat /\ DOMAIN s = 1 .. Len(s) /\ \A n \in DOMAIN s : s[n] \in Name
  BY LenProperties, ElementOfSeq
<1>2. DOMAIN Own(s) = DOMAIN s /\ \A n \in DOMAIN s : Own(s)[n] = <<s[n], 0>>
  BY DEF Own
<1>3. Own(s) \in Seq(Block)
  BY <1>1, <1>2, IsASeq DEF Own, Block
<1>4. ToSet(Own(s)) = ToSet(s) \X {0}
  <2>1. ToSet(Own(s)) = {<<s[n], 0>> : n \in DOMAIN s}
    BY <1>2 DEF ToSet
  <2>2. ToSet(s) = {s[n] : n \in DOMAIN s}
    BY DEF ToSet
  <2> QED BY <2>1, <2>2
<1>5. Distinct(s) => Distinct(Own(s))
  BY <1>2 DEF Distinct
<1>6. Len(Own(s)) = Len(s)
  <2>1. Own(s) = [n \in 1 .. Len(s) |-> <<s[n], 0>>]
    BY <1>1 DEF Own
  <2>2. Len([n \in 1 .. Len(s) |-> <<s[n], 0>>]) = Len(s)
    BY <1>1
  <2> QED BY <2>1, <2>2
<1> QED BY <1>1, <1>2, <1>3, <1>4, <1>5, <1>6

LEMMA OwnConcat ==
    ASSUME NEW s \in Seq(Name), NEW t \in Seq(Name)
    PROVE  Own(s \o t) = Own(s) \o Own(t)
<1> DEFINE l == Len(s)
           m == Len(t)
           a == Own(s)
           b == Own(t)
           c == s \o t
           u == a \o b
           v == Own(c)
<1>1. /\ c \in Seq(Name) /\ Len(c) = l + m /\ l \in Nat /\ m \in Nat
      /\ \A n \in 1 .. l + m : c[n] = IF n <= l THEN s[n] ELSE t[n - l]
  BY ConcatProperties, LenProperties
<1>2. a \in Seq(Block) /\ b \in Seq(Block)
  BY OwnBlocks
<1>3. v \in Seq(Block)
  <2> HIDE DEF c
  <2> QED BY <1>1, OwnBlocks
<1>4. /\ Len(a) = l /\ \A n \in 1 .. l : a[n] = <<s[n], 0>>
      /\ Len(b) = m /\ \A n \in 1 .. m : b[n] = <<t[n], 0>>
  BY OwnBlocks
<1>5. Len(v) = l + m /\ \A n \in 1 .. l + m : v[n] = <<c[n], 0>>
  <2> HIDE DEF c
  <2> QED BY <1>1, OwnBlocks
<1> HIDE DEF a, b
<1>6. /\ u \in Seq(Block) /\ Len(u) = Len(a) + Len(b)
      /\ \A n \in 1 .. Len(a) + Len(b) : u[n] = IF n <= Len(a) THEN a[n] ELSE b[n - Len(a)]
  BY <1>2, ConcatProperties
<1> HIDE DEF l, m, c, u, v
<1>7. ASSUME NEW n \in 1 .. l + m PROVE v[n] = u[n]
  <2>1. CASE n <= l
    <3>1. n \in 1 .. l
      BY <1>1, <2>1
    <3> QED BY <1>1, <1>4, <1>5, <1>6, <2>1, <3>1
  <2>2. CASE ~ (n <= l)
    <3>1. n - l \in 1 .. m
      BY <1>1, <2>2
    <3> QED BY <1>1, <1>4, <1>5, <1>6, <2>2, <3>1
  <2> QED BY <2>1, <2>2
<1>8. v = u
  BY <1>3, <1>4, <1>5, <1>6, <1>7, SeqEqual
<1> QED BY <1>8 DEF a, b, c, u, v

\* What init acquires and what is freed and closed, in their order.
LEMMA ServerNames ==
    /\ ServerBuffers \in Seq(Name) /\ Distinct(ServerBuffers)
    /\ DOMAIN ServerBuffers = 1 .. 5
    /\ ToSet(ServerBuffers) = {"buf", "cmd", "send_msg", "recv_msg", "udp_msgs"}
    /\ ServerAcquires = <<"server", "buf", "cmd", "send_msg", "recv_msg", "udp_msgs",
                          "udp_socket", "tcp_socket", "poll_vec", "pfds", "clients", "entities">>
    /\ ServerAcquires \in Seq(Name) /\ Distinct(ServerAcquires)
    /\ Len(ServerAcquires) = 12 /\ DOMAIN ServerAcquires = 1 .. 12
<1>1. ServerBuffers \in Seq(Name) /\ DOMAIN ServerBuffers = 1 .. 5
  BY DEF ServerBuffers, Name
<1>2. Distinct(ServerBuffers)
  BY DEF ServerBuffers, Distinct
<1>3. ToSet(ServerBuffers) = {"buf", "cmd", "send_msg", "recv_msg", "udp_msgs"}
  BY DEF ServerBuffers, ToSet
<1>4. ServerAcquires = <<"server", "buf", "cmd", "send_msg", "recv_msg", "udp_msgs",
                         "udp_socket", "tcp_socket", "poll_vec", "pfds", "clients", "entities">>
  <2> DEFINE a == <<"server">> \o ServerBuffers \o
                  <<"udp_socket", "tcp_socket", "poll_vec", "pfds", "clients", "entities">>
             b == <<"server", "buf", "cmd", "send_msg", "recv_msg", "udp_msgs", "udp_socket",
                    "tcp_socket", "poll_vec", "pfds", "clients", "entities">>
  <2>1. b \in Seq(Name) /\ Len(b) = 12
    BY DEF Name
  <2>2. a \in Seq(Name) /\ Len(a) = 12
    BY DEF ServerBuffers, Name
  <2>3. a[1] = b[1] /\ a[2] = b[2] /\ a[3] = b[3] /\ a[4] = b[4] /\ a[5] = b[5] /\ a[6] = b[6]
    BY DEF ServerBuffers
  <2>4. a[7] = b[7] /\ a[8] = b[8] /\ a[9] = b[9] /\ a[10] = b[10] /\ a[11] = b[11]
        /\ a[12] = b[12]
    BY DEF ServerBuffers
  <2> HIDE DEF a, b
  <2>5. \A n \in 1 .. 12 : a[n] = b[n]
    BY <2>3, <2>4
  <2>6. a = b
    BY <2>1, <2>2, <2>5, SeqEqual
  <2> QED BY <2>6 DEF a, b, ServerAcquires
<1>5. ServerAcquires \in Seq(Name) /\ Len(ServerAcquires) = 12
      /\ DOMAIN ServerAcquires = 1 .. 12
  BY <1>4 DEF Name
<1>6. Distinct(ServerAcquires)
  BY <1>4 DEF Distinct
<1> QED BY <1>1, <1>2, <1>3, <1>4, <1>5, <1>6

LEMMA ClientNames ==
    /\ ClientBuffers \in Seq(Name) /\ Distinct(ClientBuffers)
    /\ DOMAIN ClientBuffers = 1 .. 3
    /\ ToSet(ClientBuffers) = {"cmd", "send_msg", "recv_msg"}
    /\ ClientAcquires = <<"client", "id", "cmd", "send_msg", "recv_msg",
                          "tcp_socket", "poll_vec", "pfds">>
    /\ ClientAcquires \in Seq(Name) /\ Distinct(ClientAcquires)
    /\ Len(ClientAcquires) = 8 /\ DOMAIN ClientAcquires = 1 .. 8
<1>1. ClientBuffers \in Seq(Name) /\ DOMAIN ClientBuffers = 1 .. 3
  BY DEF ClientBuffers, Name
<1>2. Distinct(ClientBuffers)
  BY DEF ClientBuffers, Distinct
<1>3. ToSet(ClientBuffers) = {"cmd", "send_msg", "recv_msg"}
  BY DEF ClientBuffers, ToSet
<1>4. ClientAcquires = <<"client", "id", "cmd", "send_msg", "recv_msg",
                         "tcp_socket", "poll_vec", "pfds">>
  <2> DEFINE a == <<"client", "id">> \o ClientBuffers \o <<"tcp_socket", "poll_vec", "pfds">>
             b == <<"client", "id", "cmd", "send_msg", "recv_msg",
                    "tcp_socket", "poll_vec", "pfds">>
  <2>1. b \in Seq(Name) /\ Len(b) = 8
    BY DEF Name
  <2>2. a \in Seq(Name) /\ Len(a) = 8
    BY DEF ClientBuffers, Name
  <2>3. a[1] = b[1] /\ a[2] = b[2] /\ a[3] = b[3] /\ a[4] = b[4] /\ a[5] = b[5] /\ a[6] = b[6]
        /\ a[7] = b[7] /\ a[8] = b[8]
    BY DEF ClientBuffers
  <2> HIDE DEF a, b
  <2>4. \A n \in 1 .. 8 : a[n] = b[n]
    BY <2>3
  <2>5. a = b
    BY <2>1, <2>2, <2>4, SeqEqual
  <2> QED BY <2>5 DEF a, b, ClientAcquires
<1>5. ClientAcquires \in Seq(Name) /\ Len(ClientAcquires) = 8
      /\ DOMAIN ClientAcquires = 1 .. 8
  BY <1>4 DEF Name
<1>6. Distinct(ClientAcquires)
  BY <1>4 DEF Distinct
<1> QED BY <1>1, <1>2, <1>3, <1>4, <1>5, <1>6

LEMMA PollVecNames ==
    /\ free_poll_vec \in Seq(Name) /\ Distinct(free_poll_vec)
    /\ ToSet(free_poll_vec) = IF program = "server"
                              THEN {"stdin", "udp_socket", "tcp_socket", "pfds", "poll_vec"}
                              ELSE {"stdin", "tcp_socket", "pfds", "poll_vec"}
<1> DEFINE s == <<"stdin", "udp_socket", "tcp_socket", "pfds", "poll_vec">>
           t == <<"stdin", "tcp_socket", "pfds", "poll_vec">>
<1>1. s \in Seq(Name) /\ t \in Seq(Name)
  BY DEF Name
<1>2. Distinct(s)
  BY DEF Distinct
<1>3. Distinct(t)
  BY DEF Distinct
<1>4. ToSet(s) = {"stdin", "udp_socket", "tcp_socket", "pfds", "poll_vec"}
  BY DEF ToSet
<1>5. ToSet(t) = {"stdin", "tcp_socket", "pfds", "poll_vec"}
  BY DEF ToSet
<1>6. free_poll_vec = IF program = "server" THEN s ELSE t
  BY DEF free_poll_vec
<1> HIDE DEF s, t
<1> QED BY <1>1, <1>2, <1>3, <1>4, <1>5, <1>6

-----------------------------------------------------------------------------
(* What a sequence of calls of free and close does. *)

\* Blocks that are held and distinct are given back; of two such sequences, one behind the
\* other, only what both name is freed twice.
LEMMA ReleaseBoth ==
    ASSUME NEW s \in Seq(Block), NEW t \in Seq(Block), Distinct(s), Distinct(t),
           NEW held, ToSet(s) \cup ToSet(t) \subseteq held, Release(held, s \o t)
    PROVE  /\ live' = held \ (ToSet(s) \cup ToSet(t))
           /\ wrong' \subseteq wrong \cup (ToSet(s) \cap ToSet(t))
           /\ wrong \subseteq wrong'
<1> DEFINE u == s \o t
           l == Len(s)
           m == Len(t)
<1>1. /\ u \in Seq(Block) /\ DOMAIN u = 1 .. l + m /\ DOMAIN s = 1 .. l /\ DOMAIN t = 1 .. m
      /\ l \in Nat /\ m \in Nat
      /\ \A n \in 1 .. l + m : u[n] = IF n <= l THEN s[n] ELSE t[n - l]
  BY ConcatProperties, LenProperties
<1>2. ToSet(u) = ToSet(s) \cup ToSet(t)
  BY ConcatElements
<1>3. live' = held \ ToSet(u)
  BY DEF Release
<1> DEFINE again == {n \in DOMAIN u : u[n] \notin held \/ \E k \in 1 .. n - 1 : u[k] = u[n]}
<1>4. wrong' = wrong \cup {u[n] : n \in again}
  BY DEF Release
<1> HIDE DEF u, l, m
<1>5. ASSUME NEW n \in again PROVE u[n] \in ToSet(s) \cap ToSet(t)
  <2>1. n \in 1 .. l + m /\ u[n] \in held
    BY <1>1, <1>2 DEF ToSet
  <2>2. PICK k \in 1 .. n - 1 : u[k] = u[n]
    BY <1>5, <2>1
  <2>3. k \in 1 .. l + m /\ k # n /\ k < n
    BY <1>1, <2>1
  <2>4. CASE n <= l
    <3>1. n \in 1 .. l /\ k \in 1 .. l /\ u[n] = s[n] /\ u[k] = s[k]
      BY <1>1, <2>1, <2>3, <2>4
    <3> QED BY <1>1, <2>2, <2>3, <3>1 DEF Distinct
  <2>5. CASE ~ (k <= l)
    <3>1. /\ n - l \in 1 .. m /\ k - l \in 1 .. m /\ n - l # k - l
          /\ u[n] = t[n - l] /\ u[k] = t[k - l]
      BY <1>1, <2>1, <2>3, <2>5
    <3> QED BY <1>1, <2>2, <3>1 DEF Distinct
  <2>6. CASE k <= l /\ ~ (n <= l)
    <3>1. n - l \in 1 .. m /\ k \in 1 .. l /\ u[n] = t[n - l] /\ u[k] = s[k]
      BY <1>1, <2>1, <2>3, <2>6
    <3> QED BY <1>1, <2>2, <3>1 DEF ToSet
  <2> QED BY <2>4, <2>5, <2>6
<1> HIDE DEF again
<1> QED BY <1>2, <1>3, <1>4, <1>5

LEMMA ReleaseOnce ==
    ASSUME NEW s \in Seq(Block), Distinct(s), NEW held, ToSet(s) \subseteq held,
           Release(held, s)
    PROVE  live' = held \ ToSet(s) /\ wrong' = wrong
<1>1. /\ << >> \in Seq(Block) /\ s \o << >> = s
      /\ ToSet(<< >>) = {} /\ Distinct(<< >>)
  BY EmptySeq, ConcatEmptySeq DEF ToSet, Distinct
<1>2. Release(held, s \o << >>) /\ ToSet(s) \cup ToSet(<< >>) \subseteq held
  BY <1>1
<1> QED BY <1>1, <1>2, ReleaseBoth

\* The same for what there is once, by its name.
LEMMA ReleaseNames ==
    ASSUME NEW s \in Seq(Name), NEW t \in Seq(Name), Distinct(s), Distinct(t),
           NEW held, (ToSet(s) \cup ToSet(t)) \X {0} \subseteq held,
           NEW path, path = s \o t, Release(held, Own(path))
    PROVE  /\ live' = held \ ((ToSet(s) \cup ToSet(t)) \X {0})
           /\ wrong' \subseteq wrong \cup ((ToSet(s) \cap ToSet(t)) \X {0})
           /\ wrong \subseteq wrong'
<1> DEFINE a == Own(s)
           b == Own(t)
<1>1. /\ a \in Seq(Block) /\ b \in Seq(Block) /\ Distinct(a) /\ Distinct(b)
      /\ ToSet(a) = ToSet(s) \X {0} /\ ToSet(b) = ToSet(t) \X {0}
  BY OwnBlocks
<1>2. Release(held, a \o b)
  BY OwnConcat
<1> HIDE DEF a, b
<1>3. ToSet(a) \cup ToSet(b) \subseteq held
  BY <1>1
<1>4. /\ live' = held \ (ToSet(a) \cup ToSet(b))
      /\ wrong' \subseteq wrong \cup (ToSet(a) \cap ToSet(b)) /\ wrong \subseteq wrong'
  BY <1>1, <1>2, <1>3, ReleaseBoth
<1> QED BY <1>1, <1>4

-----------------------------------------------------------------------------
(* Init, and what it gives back when something cannot be had. *)

LEMMA AcquiredNames ==
    /\ Acquired \in Seq(Name) /\ Distinct(Acquired)
    /\ Len(Acquired) \in Nat /\ Len(Acquired) > 0 /\ DOMAIN Acquired = 1 .. Len(Acquired)
    /\ ToSet(Acquired) \subseteq
           Name \ {"running", "failed", "freed", "topic", "topics", "options", "ready_msgs"}
<1>1. /\ Acquired \in Seq(Name) /\ Distinct(Acquired)
      /\ Len(Acquired) \in Nat /\ Len(Acquired) > 0
  BY ServerNames, ClientNames DEF Acquired
<1>2. DOMAIN Acquired = 1 .. Len(Acquired)
  BY <1>1, LenProperties
<1>3. ASSUME NEW n \in 1 .. 12
      PROVE  ServerAcquires[n] \in Name \ {"topic", "topics", "options", "ready_msgs"}
  BY ServerNames DEF Name
<1>4. ASSUME NEW n \in 1 .. 8
      PROVE  ClientAcquires[n] \in Name \ {"topic", "topics", "options", "ready_msgs"}
  BY ClientNames DEF Name
<1>5. ASSUME NEW n \in DOMAIN Acquired
      PROVE  Acquired[n] \in Name \ {"topic", "topics", "options", "ready_msgs"}
  <2>1. CASE program = "server"
    <3>1. Acquired = ServerAcquires
      BY <2>1 DEF Acquired
    <3>2. n \in 1 .. 12
      BY <3>1, ServerNames
    <3> QED BY <1>3, <3>1, <3>2
  <2>2. CASE program # "server"
    <3>1. Acquired = ClientAcquires
      BY <2>2 DEF Acquired
    <3>2. n \in 1 .. 8
      BY <3>1, ClientNames
    <3> QED BY <1>4, <3>1, <3>2
  <2> QED BY <2>1, <2>2
<1>6. "running" \notin Name /\ "failed" \notin Name /\ "freed" \notin Name
  BY DEF Name
<1> QED BY <1>1, <1>2, <1>5, <1>6 DEF ToSet

\* What init has got before a thing, and what comes next.
LEMMA StagesInOrder ==
    ASSUME NEW n \in DOMAIN Acquired
    PROVE  /\ ToSet(Before(Acquired[n])) = {Acquired[m] : m \in 1 .. n - 1}
           /\ After(Acquired[n]) = IF n = Len(Acquired) THEN "running" ELSE Acquired[n + 1]
<1>1. StageOf(Acquired[n]) = n
  BY AcquiredNames, UpToPosition DEF StageOf
<1>2. ToSet(Before(Acquired[n])) = {Acquired[m] : m \in 1 .. n - 1}
  BY <1>1, AcquiredNames, UpToPosition DEF Before
<1>3. Acquired[n] = Last(Acquired) <=> n = Len(Acquired)
  <2>1. Len(Acquired) \in DOMAIN Acquired
    BY AcquiredNames
  <2> QED BY <2>1, AcquiredNames DEF Last, Distinct
<1> QED BY <1>1, <1>2, <1>3 DEF After

\* The path frees and closes only what was got, and all but a few blocks; the two sockets
\* perhaps twice.
GivenBack(path, got) ==
    \E s \in Seq(Name), t \in Seq(Name) :
        /\ path = s \o t
        /\ Distinct(s) /\ Distinct(t)
        /\ ToSet(s) \cup ToSet(t) \subseteq got
        /\ got \ (ToSet(s) \cup ToSet(t)) \subseteq {"stdin", "poll_vec", "clients"}
        /\ ToSet(s) \cap ToSet(t) \subseteq {"udp_socket", "tcp_socket"}

\* So does init of the server, which closes the sockets twice if they are polled already.
LEMMA ServerPath ==
    ASSUME program = "server", NEW n \in 1 .. 12
    PROVE  GivenBack(ServerErrorPath(ServerAcquires[n]),
                     {"stdin"} \cup {ServerAcquires[m] : m \in 1 .. n - 1})
<1> DEFINE got == {"stdin"} \cup {ServerAcquires[m] : m \in 1 .. n - 1}
<1> SUFFICES GivenBack(ServerErrorPath(ServerAcquires[n]), got)
  OBVIOUS
<1> DEFINE what == ServerAcquires[n]
           five == {"buf", "cmd", "send_msg", "recv_msg", "udp_msgs"}
           ends == <<"server">>
           udp  == <<"udp_socket">>
           both == <<"udp_socket", "tcp_socket">>
<1>0. ServerBuffers \in Seq(Name) /\ Distinct(ServerBuffers) /\ ToSet(ServerBuffers) = five
  BY ServerNames
<1>1. \A b : Contains(ServerBuffers, b) <=> b \in five
  <2>1. Len(ServerBuffers) = 5 /\ \A b : b \in five <=> \E i \in 1 .. 5 : ServerBuffers[i] = b
    BY DEF ServerBuffers
  <2> QED BY <2>1 DEF Contains
<1>2. /\ ends \in Seq(Name) /\ Distinct(ends) /\ ToSet(ends) = {"server"}
      /\ << >> \in Seq(Name) /\ Distinct(<< >>) /\ ToSet(<< >>) = {} /\ << >> \o << >> = << >>
  BY EmptySeq, ConcatEmptySeq DEF Distinct, ToSet, Name
<1>3. /\ udp \in Seq(Name) /\ Distinct(udp) /\ ToSet(udp) = {"udp_socket"}
      /\ both \in Seq(Name) /\ Distinct(both) /\ ToSet(both) = {"udp_socket", "tcp_socket"}
  BY DEF Distinct, ToSet, Name
<1> HIDE DEF ends, udp, both
<1>4. CASE n = 1
  <2>1. what = "server"
    BY <1>4, ServerNames
  <2>2. 1 .. n - 1 = {}
    BY <1>4
  <2>3. got = {"stdin"}
    BY <2>2
  <2>4. ServerErrorPath(what) = << >>
    BY <1>1, <2>1 DEF ServerErrorPath
  <2> HIDE DEF what, GivenBack
  <2> QED BY <1>2, <2>3, <2>4 DEF what, GivenBack
<1>5. CASE n \in 2 .. 6
  <2> DEFINE k == n - 1
             g == SubSeq(ServerBuffers, 1, k - 1)
  <2>1. k \in 1 .. 5 /\ what = ServerBuffers[k]
        /\ \A m \in 1 .. 5 : ServerBuffers[m] = ServerAcquires[m + 1]
    BY <1>5, ServerNames DEF ServerBuffers
  <2>2. what \in five /\ what # "server"
    BY <2>1 DEF ServerBuffers
  <2>3. /\ g \in Seq(Name) /\ Distinct(g) /\ ToSet(g) = {ServerBuffers[m] : m \in 1 .. k - 1}
        /\ Position(ServerBuffers, what) = k
    <3>1. ServerBuffers \in Seq(Name) /\ Distinct(ServerBuffers) /\ k \in DOMAIN ServerBuffers
      BY <2>1, ServerNames
    <3> QED BY <2>1, <3>1, UpToPosition
  <2>4. ServerErrorPath(what) = g \o ends
    BY <1>1, <2>2, <2>3 DEF ServerErrorPath, GotOf, ends
  <2>5. ToSet(g) \cup {"server"} \cup {"stdin"} = got
    <3>1. ASSUME NEW m \in 1 .. n - 1
          PROVE  ServerAcquires[m] \in ToSet(g) \cup {"server"}
      <4>1. CASE m = 1
        BY <4>1, ServerNames
      <4>2. CASE m # 1
        <5>1. m - 1 \in 1 .. k - 1 /\ m - 1 \in 1 .. 5 /\ (m - 1) + 1 = m
          BY <1>5, <4>2
        <5>2. ServerAcquires[m] = ServerBuffers[m - 1]
          BY <2>1, <5>1
        <5> QED BY <2>3, <5>1, <5>2
      <4> QED BY <4>1, <4>2
    <3>2. ASSUME NEW m \in 1 .. k - 1
          PROVE  ServerBuffers[m] \in got
      <4>1. m + 1 \in 1 .. n - 1 /\ m \in 1 .. 5
        BY <1>5
      <4> QED BY <2>1, <4>1
    <3>3. 1 \in 1 .. n - 1 /\ ServerAcquires[1] = "server"
      BY <1>5, ServerNames
    <3>4. "server" \in got
      BY <3>3
    <3>5. ToSet(g) \subseteq got
      BY <2>3, <3>2
    <3>6. got \subseteq ToSet(g) \cup {"server"} \cup {"stdin"}
      BY <3>1
    <3> QED BY <3>4, <3>5, <3>6
  <2>6. ToSet(g) \cap {"server"} = {}
    <3>1. ToSet(g) \subseteq five
      <4>1. \A m \in 1 .. k - 1 : m \in 1 .. 5
        BY <1>5
      <4>2. \A m \in 1 .. 5 : ServerBuffers[m] \in five
        BY DEF ServerBuffers
      <4> QED BY <2>3, <4>1, <4>2
    <3> QED BY <3>1
  <2> HIDE DEF g, what, k
  <2> QED BY <1>2, <2>3, <2>4, <2>5, <2>6 DEF what, GivenBack
<1> DEFINE six == {"stdin", "server"} \cup five
<1>6. ASSUME NEW m \in 1 .. 6 PROVE ServerAcquires[m] \in {"server"} \cup five
  BY ServerNames
<1>7. /\ n > 6 => six \subseteq got
      /\ n > 7 => "udp_socket" \in got
      /\ n > 8 => "tcp_socket" \in got
      /\ n > 9 => "poll_vec" \in got
      /\ n > 10 => "pfds" \in got
  <2>1. \A m \in 1 .. n - 1 : ServerAcquires[m] \in got
    OBVIOUS
  <2>2. n > 6 => 1 \in 1 .. n - 1 /\ 2 \in 1 .. n - 1 /\ 3 \in 1 .. n - 1 /\ 4 \in 1 .. n - 1
                 /\ 5 \in 1 .. n - 1 /\ 6 \in 1 .. n - 1
    OBVIOUS
  <2>3. /\ n > 7 => 7 \in 1 .. n - 1
        /\ n > 8 => 8 \in 1 .. n - 1
        /\ n > 9 => 9 \in 1 .. n - 1
        /\ n > 10 => 10 \in 1 .. n - 1
    OBVIOUS
  <2>4. /\ ServerAcquires[1] = "server" /\ ServerAcquires[2] = "buf" /\ ServerAcquires[3] = "cmd"
        /\ ServerAcquires[4] = "send_msg" /\ ServerAcquires[5] = "recv_msg"
        /\ ServerAcquires[6] = "udp_msgs" /\ ServerAcquires[7] = "udp_socket"
        /\ ServerAcquires[8] = "tcp_socket" /\ ServerAcquires[9] = "poll_vec"
        /\ ServerAcquires[10] = "pfds"
    BY ServerNames
  <2>5. "stdin" \in got
    OBVIOUS
  <2> QED BY <2>1, <2>2, <2>3, <2>4, <2>5
<1>8. /\ n <= 7 => got \subseteq six
      /\ n <= 8 => got \subseteq six \cup {"udp_socket"}
      /\ n <= 10 => got \subseteq six \cup {"udp_socket", "tcp_socket", "poll_vec"}
      /\ got \subseteq six \cup {"udp_socket", "tcp_socket", "poll_vec", "pfds", "clients"}
  <2>1. /\ ServerAcquires[7] = "udp_socket"
        /\ ServerAcquires[8] = "tcp_socket" /\ ServerAcquires[9] = "poll_vec"
        /\ ServerAcquires[10] = "pfds" /\ ServerAcquires[11] = "clients"
    BY ServerNames
  <2>2. ASSUME NEW m \in 1 .. n - 1
        PROVE  m \in 1 .. 6 \/ m = 7 \/ m = 8 \/ m = 9 \/ m = 10 \/ m = 11
    OBVIOUS
  <2>3. ASSUME NEW m \in 1 .. n - 1
        PROVE  /\ n <= 7 => ServerAcquires[m] \in six
               /\ n <= 8 => ServerAcquires[m] \in six \cup {"udp_socket"}
               /\ n <= 10 => ServerAcquires[m] \in
                                 six \cup {"udp_socket", "tcp_socket", "poll_vec"}
               /\ ServerAcquires[m] \in
                      six \cup {"udp_socket", "tcp_socket", "poll_vec", "pfds", "clients"}
    BY <1>6, <2>1, <2>2
  <2> QED BY <2>3
<1>9. CASE n = 7
  <2>1. what = "udp_socket"
    BY <1>9, ServerNames
  <2>2. ServerErrorPath(what) = ServerBuffers \o ends
    BY <1>1, <2>1 DEF ServerErrorPath, ends
  <2>3. got = six
    BY <1>7, <1>8, <1>9
  <2> HIDE DEF what, GivenBack
  <2> QED BY <1>2, <2>2, <2>3, ServerNames DEF what, GivenBack
<1>10. CASE n = 8
  <2>1. what = "tcp_socket"
    BY <1>10, ServerNames
  <2>2. ServerErrorPath(what) = (udp \o ServerBuffers) \o ends
    BY <1>1, <2>1 DEF ServerErrorPath, ends, udp
  <2>3. six \cup {"udp_socket"} = got
    BY <1>7, <1>8, <1>10
  <2>4. /\ udp \o ServerBuffers \in Seq(Name) /\ Distinct(udp \o ServerBuffers)
        /\ ToSet(udp \o ServerBuffers) = {"udp_socket"} \cup five
    <3>1. ToSet(udp) \cap ToSet(ServerBuffers) = {}
      BY <1>0, <1>3
    <3>2. /\ udp \o ServerBuffers \in Seq(Name) /\ Distinct(udp \o ServerBuffers)
          /\ ToSet(udp \o ServerBuffers) = ToSet(udp) \cup ToSet(ServerBuffers)
      BY <1>0, <1>3, <3>1, ConcatElements
    <3> QED BY <1>0, <1>3, <3>2
  <2> HIDE DEF what, GivenBack
  <2> QED BY <1>2, <2>2, <2>3, <2>4 DEF what, GivenBack
<1> DEFINE front == both \o ServerBuffers
<1>11. /\ front \in Seq(Name) /\ Distinct(front)
       /\ ToSet(front) = {"udp_socket", "tcp_socket"} \cup five
  <2>1. ToSet(both) \cap ToSet(ServerBuffers) = {}
    BY <1>0, <1>3
  <2>2. /\ front \in Seq(Name) /\ Distinct(front)
        /\ ToSet(front) = ToSet(both) \cup ToSet(ServerBuffers)
    BY <1>0, <1>3, <2>1, ConcatElements
  <2> QED BY <1>0, <1>3, <2>2
<1>12. CASE n \in 9 .. 10
  <2>1. what \in {"poll_vec", "pfds"}
    BY <1>12, ServerNames
  <2>2. ServerErrorPath(what) = front \o ends
    BY <1>1, <2>1 DEF ServerErrorPath, ends, both
  <2>3. six \cup {"udp_socket", "tcp_socket"} \subseteq got
        /\ got \subseteq six \cup {"udp_socket", "tcp_socket", "poll_vec"}
    <3>1. n > 6 /\ n > 7 /\ n > 8 /\ n <= 10
      BY <1>12
    <3> HIDE DEF six
    <3> QED BY <1>7, <1>8, <3>1
  <2> HIDE DEF what, front
  <2> QED BY <1>2, <1>11, <2>2, <2>3 DEF what, GivenBack
<1>13. CASE n \in 11 .. 12
  <2>1. what \in {"clients", "entities"}
    BY <1>13, ServerNames
  <2> DEFINE back == free_poll_vec \o ends
  <2>2. /\ back \in Seq(Name) /\ Distinct(back)
        /\ ToSet(back) = {"stdin", "udp_socket", "tcp_socket", "pfds", "poll_vec", "server"}
    BY <1>2, PollVecNames, ConcatElements
  <2>3. ServerErrorPath(what) = (front \o free_poll_vec) \o ends
    BY <1>1, <2>1 DEF ServerErrorPath, ends, both
  <2>4. (front \o free_poll_vec) \o ends = front \o back
    <3> HIDE DEF front
    <3> QED BY <1>2, <1>11, PollVecNames, ConcatAssociative
  <2>5. six \cup {"udp_socket", "tcp_socket", "poll_vec", "pfds"} \subseteq got
        /\ got \subseteq six \cup {"udp_socket", "tcp_socket", "poll_vec", "pfds", "clients"}
    BY <1>7, <1>8, <1>13
  <2> HIDE DEF what, front, back
  <2> QED BY <1>11, <2>2, <2>3, <2>4, <2>5 DEF what, GivenBack
<1>14. n = 1 \/ n \in 2 .. 6 \/ n = 7 \/ n = 8 \/ n \in 9 .. 10 \/ n \in 11 .. 12
  OBVIOUS
<1> QED BY <1>4, <1>5, <1>9, <1>10, <1>12, <1>13, <1>14

\* Init of the subscriber gives back only what it has got, once, and all but a few blocks.
LEMMA ClientPath ==
    ASSUME NEW n \in 1 .. 8,
           NEW got, got = {"stdin"} \cup {ClientAcquires[m] : m \in 1 .. n - 1},
           NEW path, path = ClientErrorPath(ClientAcquires[n])
    PROVE  /\ path \in Seq(Name) /\ Distinct(path) /\ ToSet(path) \subseteq got
           /\ got \ ToSet(path) \subseteq {"stdin", "id", "poll_vec"}
<1> DEFINE what  == ClientAcquires[n]
           three == {"cmd", "send_msg", "recv_msg"}
           last  == <<"client">>
           id    == <<"id">>
           both  == <<"tcp_socket", "id">>
<1>1. /\ ClientBuffers \in Seq(Name) /\ Distinct(ClientBuffers) /\ ToSet(ClientBuffers) = three
      /\ DOMAIN ClientBuffers = 1 .. 3
  BY ClientNames
<1>2. \A b : Contains(ClientBuffers, b) <=> b \in three
  <2>1. Len(ClientBuffers) = 3 /\ \A b : b \in three <=> \E i \in 1 .. 3 : ClientBuffers[i] = b
    BY DEF ClientBuffers
  <2> QED BY <2>1 DEF Contains
<1>3. /\ last \in Seq(Name) /\ Distinct(last) /\ ToSet(last) = {"client"}
      /\ << >> \in Seq(Name) /\ Distinct(<< >>) /\ ToSet(<< >>) = {}
  BY EmptySeq DEF Distinct, ToSet, Name
<1>4. /\ id \in Seq(Name) /\ Distinct(id) /\ ToSet(id) = {"id"}
      /\ both \in Seq(Name) /\ Distinct(both) /\ ToSet(both) = {"tcp_socket", "id"}
  BY DEF Distinct, ToSet, Name
<1>5. /\ ClientAcquires[1] = "client" /\ ClientAcquires[2] = "id"
      /\ ClientAcquires[6] = "tcp_socket"
      /\ ClientAcquires[7] = "poll_vec" /\ ClientAcquires[8] = "pfds"
      /\ ClientAcquires[3] = "cmd" /\ ClientAcquires[4] = "send_msg"
      /\ ClientAcquires[5] = "recv_msg"
  BY ClientNames
<1>6. /\ \A m \in 1 .. n - 1 : ClientAcquires[m] \in got
      /\ "stdin" \in got
  OBVIOUS
<1>7. ASSUME NEW x \in got, x # "stdin" PROVE \E m \in 1 .. n - 1 : x = ClientAcquires[m]
  BY <1>7
<1> HIDE DEF last, id, both
<1>8. CASE n = 1
  <2>1. 1 .. n - 1 = {} /\ what = "client"
    BY <1>5, <1>8
  <2>2. got = {"stdin"}
    BY <2>1
  <2>3. path = << >>
    BY <1>2, <2>1 DEF ClientErrorPath
  <2> QED BY <1>3, <2>2, <2>3
<1>9. n > 1 => "client" \in got
  <2>1. n > 1 => 1 \in 1 .. n - 1
    OBVIOUS
  <2> QED BY <1>5, <1>6, <2>1
<1>10. CASE n = 2
  <2>1. path = last
    BY <1>2, <1>5, <1>10 DEF ClientErrorPath, last
  <2>2. got = {"stdin", "client"}
    <3>1. \A m \in 1 .. n - 1 : m = 1
      BY <1>10
    <3> QED BY <1>5, <1>6, <1>7, <1>9, <1>10, <3>1
  <2> QED BY <1>3, <2>1, <2>2
<1>11. CASE n \in 3 .. 5
  <2> DEFINE k == n - 2
             g == SubSeq(ClientBuffers, 1, k - 1)
  <2>1. k \in 1 .. 3 /\ what = ClientBuffers[k]
        /\ \A m \in 1 .. 3 : ClientBuffers[m] = ClientAcquires[m + 2]
    BY <1>5, <1>11 DEF ClientBuffers
  <2>2. what \in three
    BY <2>1 DEF ClientBuffers
  <2>3. /\ g \in Seq(Name) /\ Distinct(g) /\ ToSet(g) = {ClientBuffers[m] : m \in 1 .. k - 1}
        /\ Position(ClientBuffers, what) = k
    BY <1>1, <2>1, UpToPosition
  <2>4. path = g \o last
    BY <1>2, <2>2, <2>3 DEF ClientErrorPath, GotOf, last
  <2> HIDE DEF g, k
  <2>5. \A m \in 1 .. k - 1 : m \in 1 .. 3 /\ m + 2 \in 1 .. n - 1
    BY <1>11, <2>1 DEF k
  <2>6. \A m \in 1 .. 3 : ClientBuffers[m] \in three
    BY DEF ClientBuffers
  <2>7. ToSet(g) \subseteq three /\ ToSet(g) \subseteq got
    <3>1. ASSUME NEW m \in 1 .. k - 1 PROVE ClientBuffers[m] \in three \cap got
      BY <1>6, <2>1, <2>5, <2>6
    <3> QED BY <2>3, <3>1
  <2>8. got \ {"stdin", "id", "client"} \subseteq ToSet(g)
    <3>1. ASSUME NEW m \in 1 .. n - 1, m # 1, m # 2
          PROVE  ClientAcquires[m] \in ToSet(g)
      <4>1. m - 2 \in 1 .. k - 1 /\ m - 2 \in 1 .. 3 /\ (m - 2) + 2 = m
        BY <1>11, <3>1 DEF k
      <4> QED BY <2>1, <2>3, <4>1
    <3> QED BY <1>5, <1>7, <3>1
  <2>9. ToSet(g) \cap ToSet(last) = {}
    BY <1>3, <2>7
  <2>10. /\ path \in Seq(Name) /\ Distinct(path)
         /\ ToSet(path) = ToSet(g) \cup ToSet(last)
    <3>1. /\ g \o last \in Seq(Name) /\ Distinct(g \o last)
          /\ ToSet(g \o last) = ToSet(g) \cup ToSet(last)
      <4>1. g \in Seq(Name) /\ last \in Seq(Name) /\ Distinct(g) /\ Distinct(last)
        BY <1>3, <2>3
      <4> QED BY <2>9, <4>1, ConcatElements
    <3> QED BY <2>4, <3>1
  <2>11. "client" \in got
    BY <1>9, <1>11
  <2> QED BY <1>3, <2>7, <2>8, <2>10, <2>11
<1>12. n > 5 => {"stdin", "client", "id"} \cup three \subseteq got
  <2>1. n > 5 => 1 \in 1 .. n - 1 /\ 2 \in 1 .. n - 1 /\ 3 \in 1 .. n - 1 /\ 4 \in 1 .. n - 1
                 /\ 5 \in 1 .. n - 1
    OBVIOUS
  <2> QED BY <1>5, <1>6, <2>1
<1>13. n > 6 => "tcp_socket" \in got
  <2>1. n > 6 => 6 \in 1 .. n - 1
    OBVIOUS
  <2> QED BY <1>5, <1>6, <2>1
<1>14. /\ n <= 6 => got \subseteq {"stdin", "client", "id"} \cup three
       /\ got \subseteq {"stdin", "client", "id", "tcp_socket", "poll_vec"} \cup three
  <2>1. ASSUME NEW m \in 1 .. n - 1
        PROVE  /\ m = 1 \/ m = 2 \/ m = 3 \/ m = 4 \/ m = 5 \/ m = 6 \/ m = 7
               /\ n <= 6 => m # 6 /\ m # 7
    OBVIOUS
  <2>2. ASSUME NEW m \in 1 .. n - 1
        PROVE  /\ n <= 6 => ClientAcquires[m] \in {"client", "id"} \cup three
               /\ ClientAcquires[m] \in {"client", "id", "tcp_socket", "poll_vec"} \cup three
    BY <1>5, <2>1
  <2> QED BY <1>7, <2>2
<1>15. CASE n = 6
  <2> DEFINE front == id \o ClientBuffers
  <2>1. what = "tcp_socket"
    BY <1>5, <1>15
  <2>2. path = front \o last
    BY <1>2, <2>1 DEF ClientErrorPath, last, id
  <2>3. ToSet(id) \cap ToSet(ClientBuffers) = {}
    BY <1>1, <1>4
  <2>4. /\ front \in Seq(Name) /\ Distinct(front)
        /\ ToSet(front) = ToSet(id) \cup ToSet(ClientBuffers)
    BY <1>1, <1>4, <2>3, ConcatElements
  <2>5. ToSet(front) \cap ToSet(last) = {}
    BY <1>1, <1>3, <1>4, <2>4
  <2> HIDE DEF front
  <2>6. /\ path \in Seq(Name) /\ Distinct(path)
        /\ ToSet(path) = ToSet(front) \cup ToSet(last)
    BY <1>3, <2>2, <2>4, <2>5, ConcatElements
  <2>7. got = {"stdin", "client", "id"} \cup three
    BY <1>12, <1>14, <1>15
  <2> QED BY <1>1, <1>3, <1>4, <2>4, <2>6, <2>7
<1>16. CASE n \in 7 .. 8
  <2> DEFINE front == both \o ClientBuffers
  <2>1. what \in {"poll_vec", "pfds"}
    BY <1>5, <1>16
  <2>2. path = front \o last
    BY <1>2, <2>1 DEF ClientErrorPath, last, both
  <2>3. ToSet(both) \cap ToSet(ClientBuffers) = {}
    BY <1>1, <1>4
  <2>4. /\ front \in Seq(Name) /\ Distinct(front)
        /\ ToSet(front) = ToSet(both) \cup ToSet(ClientBuffers)
    BY <1>1, <1>4, <2>3, ConcatElements
  <2>5. ToSet(front) \cap ToSet(last) = {}
    BY <1>1, <1>3, <1>4, <2>4
  <2> HIDE DEF front
  <2>6. /\ path \in Seq(Name) /\ Distinct(path)
        /\ ToSet(path) = ToSet(front) \cup ToSet(last)
    BY <1>3, <2>2, <2>4, <2>5, ConcatElements
  <2>7. {"stdin", "client", "id", "tcp_socket"} \cup three \subseteq got
    BY <1>12, <1>13, <1>16
  <2> QED BY <1>1, <1>3, <1>4, <1>14, <2>4, <2>6, <2>7
<1>17. n = 1 \/ n = 2 \/ n \in 3 .. 5 \/ n = 6 \/ n \in 7 .. 8
  OBVIOUS
<1> QED BY <1>8, <1>10, <1>11, <1>15, <1>16, <1>17

-----------------------------------------------------------------------------
(***************************************************************************)
(* What is held at every moment, to the last block: while init runs, what  *)
(* it has acquired so far; while the program runs, all of that and the     *)
(* blocks of the slots in use.  The order of the acquisitions says what is *)
(* held at a failure, and the slots say what free_server finds: FreedOnce  *)
(* and NothingIsLeft are about these two moments.                          *)
(***************************************************************************)
HeldOnce == {"stdin"} \cup ToSet(IF Starting THEN Before(stage) ELSE Acquired)

SlotHeld(k) == ToSet(SlotBlocks(k)) \cup ToSet(entities[k].topics)

SlotsHeld == UNION {SlotHeld(k) : k \in DOMAIN entities}

Account ==
    /\ program \in {"server", "subscriber"}
    /\ stage \in ToSet(Acquired) \cup {"running", "failed", "freed"}
    /\ Starting \/ stage = "running" => /\ live = (HeldOnce \X {0}) \cup SlotsHeld
                                        /\ wrong = {}
    /\ FreedOnce /\ NothingIsLeft

AInv == MInv /\ Account

-----------------------------------------------------------------------------
\* The names do not change.
LEMMA SameNames ==
    ASSUME UNCHANGED program
    PROVE  Acquired' = Acquired
BY DEF Acquired

\* Nothing is held by slots before the server runs and after it.
LEMMA NoSlotHolds ==
    ASSUME entities = << >>
    PROVE  SlotsHeld = {}
<1>1. DOMAIN entities = {}
  OBVIOUS
<1> QED BY <1>1 DEF SlotsHeld

\* The next stage holds what was acquired up to there.
LEMMA AcquireAccounts ==
    ASSUME AInv, Acquire
    PROVE  Account'
<1>1. /\ Starting /\ live' = live \cup {<<stage, 0>>} /\ stage' = After(stage)
      /\ UNCHANGED <<program, wrong, entities>>
  BY DEF Acquire
<1>2. Acquired' = Acquired
  BY <1>1, SameNames
<1>3. PICK n \in DOMAIN Acquired : stage = Acquired[n]
  BY <1>1 DEF AInv, Account, Starting, ToSet
<1> DEFINE l == Len(Acquired)
<1>4. /\ DOMAIN Acquired = 1 .. l /\ l \in Nat
      /\ \A m \in 1 .. l : Acquired[m] \notin {"running", "failed", "freed"}
  BY AcquiredNames DEF ToSet
<1>5. entities = << >> /\ entities' = << >>
  BY <1>1 DEF AInv, MInv, TypeOK, Starting, Serving
<1>6. SlotsHeld = {} /\ SlotsHeld' = {}
  <2>1. DOMAIN entities' = {}
    BY <1>5
  <2> QED BY <1>5, <2>1, NoSlotHolds DEF SlotsHeld
<1>7. /\ HeldOnce = {"stdin"} \cup {Acquired[m] : m \in 1 .. n - 1}
      /\ stage' = IF n = l THEN "running" ELSE Acquired[n + 1]
  BY <1>1, <1>3, StagesInOrder DEF HeldOnce
<1>8. live' = ({"stdin"} \cup {Acquired[m] : m \in 1 .. n}) \X {0} /\ wrong' = {}
  <2>1. live = HeldOnce \X {0} /\ wrong = {}
    BY <1>1, <1>6 DEF AInv, Account
  <2>2. 1 .. n = (1 .. n - 1) \cup {n}
    BY <1>3, <1>4
  <2>3. {Acquired[m] : m \in 1 .. n} = {Acquired[m] : m \in 1 .. n - 1} \cup {stage}
    BY <1>3, <2>2
  <2> DEFINE now  == {Acquired[m] : m \in 1 .. n - 1}
             next == {Acquired[m] : m \in 1 .. n}
  <2>4. HeldOnce = {"stdin"} \cup now /\ next = now \cup {stage}
    BY <1>7, <2>3
  <2> HIDE DEF now, next
  <2>5. ({"stdin"} \cup next) \X {0} = (HeldOnce \X {0}) \cup {<<stage, 0>>}
    BY <2>4
  <2>6. live' = ({"stdin"} \cup next) \X {0}
    BY <1>1, <2>1, <2>5
  <2> QED BY <1>1, <2>1, <2>6 DEF next
<1>9. /\ HeldOnce' = {"stdin"} \cup {Acquired[m] : m \in 1 .. n}
      /\ stage' \in ToSet(Acquired') \cup {"running"} /\ stage' \notin {"failed", "freed"}
  <2>1. CASE n = l
    <3>1. stage' = "running" /\ HeldOnce' = {"stdin"} \cup ToSet(Acquired)
      BY <1>2, <1>7, <2>1 DEF HeldOnce, Starting
    <3>2. ToSet(Acquired) = {Acquired[m] : m \in 1 .. n}
      BY <1>4, <2>1 DEF ToSet
    <3> QED BY <3>1, <3>2
  <2>2. CASE n # l
    <3>1. n + 1 \in 1 .. l /\ (n + 1) - 1 = n
      BY <1>3, <1>4, <2>2
    <3>2. stage' = Acquired[n + 1] /\ Starting'
      BY <1>4, <1>7, <2>2, <3>1 DEF Starting
    <3>3. HeldOnce' = {"stdin"} \cup
              ToSet(SubSeq(Acquired, 1, Position(Acquired, Acquired[n + 1]) - 1))
      BY <1>2, <3>2 DEF HeldOnce, Before, StageOf, Position
    <3>4. /\ Position(Acquired, Acquired[n + 1]) = n + 1
          /\ ToSet(SubSeq(Acquired, 1, (n + 1) - 1)) = {Acquired[m] : m \in 1 .. (n + 1) - 1}
      BY <1>4, <3>1, AcquiredNames, UpToPosition
    <3>5. stage' \in ToSet(Acquired')
      BY <1>2, <1>4, <3>1, <3>2 DEF ToSet
    <3>6. stage' \notin {"failed", "freed"}
      BY <1>4, <3>1, <3>2
    <3> QED BY <3>1, <3>3, <3>4, <3>5, <3>6
  <2> QED BY <2>1, <2>2
<1>10. program' \in {"server", "subscriber"}
  BY <1>1 DEF AInv, Account
<1>11. FreedOnce' /\ NothingIsLeft'
  BY <1>8, <1>9 DEF FreedOnce, NothingIsLeft
<1> QED BY <1>6, <1>8, <1>9, <1>10, <1>11 DEF Account

\* What a failed init leaves is little, and only the server closes something twice.
LEMMA FailAccounts ==
    ASSUME AInv, FailToAcquire
    PROVE  Account'
<1>1. /\ Starting /\ stage' = "failed" /\ UNCHANGED <<program, entities>>
      /\ program \in {"server", "subscriber"} /\ wrong = {}
      /\ live = (HeldOnce \X {0}) \cup SlotsHeld
  BY DEF FailToAcquire, AInv, Account
<1>2. entities = << >>
  BY <1>1 DEF AInv, MInv, TypeOK, Starting, Serving
<1>3. PICK n \in DOMAIN Acquired : stage = Acquired[n]
  BY <1>1 DEF AInv, Account, Starting, ToSet
<1> DEFINE got == {"stdin"} \cup {Acquired[m] : m \in 1 .. n - 1}
<1>4. live = got \X {0}
  BY <1>1, <1>2, <1>3, NoSlotHolds, StagesInOrder DEF HeldOnce
<1>5. PICK held : /\ Release(held, Own(ErrorPath(stage)))
                  /\ live \subseteq held /\ held \subseteq live \cup (Descriptors \X {0})
  <2>1. CASE Release(live, Own(ErrorPath(stage)))
    BY <2>1
  <2>2. CASE stage \in Descriptors /\ Release(live \cup {<<stage, 0>>}, Own(ErrorPath(stage)))
    <3>1. {<<stage, 0>>} \subseteq Descriptors \X {0}
      BY <2>2
    <3> QED BY <2>2, <3>1
  <2> QED BY <2>1, <2>2 DEF FailToAcquire
<1> HIDE DEF got
<1>6. ASSUME wrong' \subseteq {<<"udp_socket", 0>>, <<"tcp_socket", 0>>},
             wrong' # {} => program = "server",
             live' \subseteq (Descriptors \cup {"id", "poll_vec", "clients"}) \X {0}
      PROVE  Account'
  <2>1. FreedOnce' /\ NothingIsLeft'
    BY <1>1, <1>6 DEF FreedOnce, NothingIsLeft
  <2>2. ~ Starting' /\ stage' # "running"
    BY <1>1 DEF Starting
  <2> QED BY <1>1, <2>1, <2>2 DEF Account
<1>7. ASSUME NEW freed, freed \subseteq got, live' = held \ (freed \X {0}),
             got \ freed \subseteq {"stdin", "id", "poll_vec", "clients"}
      PROVE  live' \subseteq (Descriptors \cup {"id", "poll_vec", "clients"}) \X {0}
  <2>1. ASSUME NEW b \in live'
        PROVE  b \in (Descriptors \cup {"id", "poll_vec", "clients"}) \X {0}
    <3>1. b \in Descriptors \X {0} \/ b \in got \X {0}
      BY <1>4, <1>5, <1>7, <2>1
    <3>2. CASE b \in got \X {0}
      <4>1. PICK x \in got : b = <<x, 0>>
        BY <3>2
      <4>2. x \notin freed
        BY <1>7, <2>1, <4>1
      <4>3. x \in Descriptors \cup {"id", "poll_vec", "clients"}
        BY <1>7, <4>2 DEF Descriptors
      <4> QED BY <4>1, <4>3
    <3> QED BY <3>1, <3>2
  <2> QED BY <2>1
<1>8. CASE program = "server"
  <2>1. /\ Acquired = ServerAcquires /\ n \in 1 .. 12
        /\ ErrorPath(stage) = ServerErrorPath(ServerAcquires[n])
    BY <1>3, <1>8, ServerNames DEF Acquired, ErrorPath
  <2>2. got = {"stdin"} \cup {ServerAcquires[m] : m \in 1 .. n - 1}
    BY <2>1 DEF got
  <2>3. PICK s \in Seq(Name), t \in Seq(Name) :
               /\ ServerErrorPath(ServerAcquires[n]) = s \o t
               /\ Distinct(s) /\ Distinct(t)
               /\ ToSet(s) \cup ToSet(t) \subseteq got
               /\ got \ (ToSet(s) \cup ToSet(t)) \subseteq {"stdin", "poll_vec", "clients"}
               /\ ToSet(s) \cap ToSet(t) \subseteq {"udp_socket", "tcp_socket"}
    <3>1. n \in 1 .. 12
      BY <2>1
    <3>2. GivenBack(ServerErrorPath(ServerAcquires[n]), got)
      BY <1>8, <2>2, <3>1, ServerPath
    <3> QED BY <3>2 DEF GivenBack
  <2> DEFINE path == ErrorPath(stage)
  <2>4. /\ path = s \o t /\ Release(held, Own(path))
        /\ (ToSet(s) \cup ToSet(t)) \X {0} \subseteq held
    BY <1>4, <1>5, <2>1, <2>3
  <2> HIDE DEF path
  <2>5. /\ live' = held \ ((ToSet(s) \cup ToSet(t)) \X {0})
        /\ wrong' \subseteq wrong \cup ((ToSet(s) \cap ToSet(t)) \X {0})
    BY <2>3, <2>4, ReleaseNames
  <2>6. wrong' \subseteq {<<"udp_socket", 0>>, <<"tcp_socket", 0>>}
    BY <1>1, <2>3, <2>5
  <2>7. live' \subseteq (Descriptors \cup {"id", "poll_vec", "clients"}) \X {0}
    BY <1>7, <2>3, <2>5
  <2> QED BY <1>6, <1>8, <2>6, <2>7
<1>9. CASE program = "subscriber"
  <2>1. /\ Acquired = ClientAcquires /\ n \in 1 .. 8
        /\ ErrorPath(stage) = ClientErrorPath(ClientAcquires[n])
    BY <1>3, <1>9, ClientNames DEF Acquired, ErrorPath
  <2>2. got = {"stdin"} \cup {ClientAcquires[m] : m \in 1 .. n - 1}
    BY <2>1 DEF got
  <2> DEFINE path == ClientErrorPath(ClientAcquires[n])
  <2>3. /\ path \in Seq(Name) /\ Distinct(path) /\ ToSet(path) \subseteq got
        /\ got \ ToSet(path) \subseteq {"stdin", "id", "poll_vec"}
    BY <2>1, <2>2, ClientPath
  <2>4. Release(held, Own(path))
    BY <1>5, <2>1
  <2> HIDE DEF path
  <2>5. /\ Own(path) \in Seq(Block) /\ Distinct(Own(path))
        /\ ToSet(Own(path)) = ToSet(path) \X {0}
    BY <2>3, OwnBlocks
  <2>6. ToSet(Own(path)) \subseteq held
    BY <1>4, <1>5, <2>3, <2>5
  <2>7. live' = held \ (ToSet(path) \X {0}) /\ wrong' = wrong
    BY <2>4, <2>5, <2>6, ReleaseOnce
  <2>8. live' \subseteq (Descriptors \cup {"id", "poll_vec", "clients"}) \X {0}
    BY <1>7, <2>3, <2>7
  <2> QED BY <1>1, <1>6, <2>7, <2>8
<1> QED BY <1>1, <1>8, <1>9

\* After free_server and free_client nothing is held.
LEMMA AllFreed ==
    ASSUME Account, stage' = "freed", UNCHANGED program, live' = {}, wrong' = {}
    PROVE  Account'
<1>1. ~ Starting'
  BY DEF Starting
<1>2. FreedOnce' /\ NothingIsLeft'
  BY DEF FreedOnce, NothingIsLeft
<1> QED BY <1>1, <1>2 DEF Account

LEMMA FreeClientAccounts ==
    ASSUME AInv, free_client
    PROVE  Account'
<1> DEFINE id    == <<"id">>
           last  == <<"client">>
           front == free_poll_vec \o id
           most  == front \o ClientBuffers
           path  == most \o last
<1>1. /\ program = "subscriber" /\ stage = "running" /\ stage' = "freed" /\ UNCHANGED program
      /\ Release(live, Own(path))
      /\ live = (HeldOnce \X {0}) \cup SlotsHeld /\ wrong = {}
  BY DEF free_client, AInv, Account
<1>2. entities = << >>
  BY <1>1 DEF AInv, MInv, TypeOK, Serving
<1>3. live = ({"stdin"} \cup ToSet(ClientAcquires)) \X {0}
  BY <1>1, <1>2, NoSlotHolds DEF HeldOnce, Starting, Acquired
<1>4. ToSet(ClientAcquires) = {"client", "id", "cmd", "send_msg", "recv_msg", "tcp_socket",
                               "poll_vec", "pfds"}
  <2>1. /\ ClientAcquires[1] = "client" /\ ClientAcquires[2] = "id"
        /\ ClientAcquires[3] = "cmd" /\ ClientAcquires[4] = "send_msg"
        /\ ClientAcquires[5] = "recv_msg" /\ ClientAcquires[6] = "tcp_socket"
        /\ ClientAcquires[7] = "poll_vec" /\ ClientAcquires[8] = "pfds"
        /\ DOMAIN ClientAcquires = 1 .. 8
    BY ClientNames
  <2> QED BY <2>1 DEF ToSet
<1>5. /\ free_poll_vec \in Seq(Name) /\ Distinct(free_poll_vec)
      /\ ToSet(free_poll_vec) = {"stdin", "tcp_socket", "pfds", "poll_vec"}
  BY <1>1, PollVecNames
<1>6. /\ ClientBuffers \in Seq(Name) /\ Distinct(ClientBuffers)
      /\ ToSet(ClientBuffers) = {"cmd", "send_msg", "recv_msg"}
  BY ClientNames
<1>7. /\ id \in Seq(Name) /\ Distinct(id) /\ ToSet(id) = {"id"}
      /\ last \in Seq(Name) /\ Distinct(last) /\ ToSet(last) = {"client"}
  BY DEF Distinct, ToSet, Name
<1> HIDE DEF id, last
<1>8. /\ front \in Seq(Name) /\ Distinct(front)
      /\ ToSet(front) = {"stdin", "tcp_socket", "pfds", "poll_vec", "id"}
  <2>1. ToSet(free_poll_vec) \cap ToSet(id) = {}
    BY <1>5, <1>7
  <2>2. front \in Seq(Name) /\ Distinct(front) /\ ToSet(front) = ToSet(free_poll_vec) \cup ToSet(id)
    BY <1>5, <1>7, <2>1, ConcatElements
  <2> QED BY <1>5, <1>7, <2>2
<1> HIDE DEF front
<1>9. /\ most \in Seq(Name) /\ Distinct(most)
      /\ ToSet(most) = {"stdin", "tcp_socket", "pfds", "poll_vec", "id",
                        "cmd", "send_msg", "recv_msg"}
  <2>1. ToSet(front) \cap ToSet(ClientBuffers) = {}
    BY <1>6, <1>8
  <2>2. most \in Seq(Name) /\ Distinct(most) /\ ToSet(most) = ToSet(front) \cup ToSet(ClientBuffers)
    BY <1>6, <1>8, <2>1, ConcatElements
  <2> QED BY <1>6, <1>8, <2>2
<1> HIDE DEF most
<1>10. /\ path \in Seq(Name) /\ Distinct(path)
       /\ ToSet(path) = ToSet(most) \cup {"client"}
  <2>1. ToSet(most) \cap ToSet(last) = {}
    BY <1>7, <1>9
  <2>2. path \in Seq(Name) /\ Distinct(path) /\ ToSet(path) = ToSet(most) \cup ToSet(last)
    BY <1>7, <1>9, <2>1, ConcatElements
  <2> QED BY <1>7, <2>2
<1> HIDE DEF path
<1>11. ToSet(path) = {"stdin"} \cup ToSet(ClientAcquires)
  BY <1>4, <1>9, <1>10
<1>12. /\ Own(path) \in Seq(Block) /\ Distinct(Own(path))
       /\ ToSet(Own(path)) = ToSet(path) \X {0}
  BY <1>10, OwnBlocks
<1>13. ToSet(Own(path)) = live
  BY <1>3, <1>11, <1>12
<1>14. live' = live \ ToSet(Own(path)) /\ wrong' = wrong
  BY <1>1, <1>12, <1>13, ReleaseOnce
<1>15. live' = {} /\ wrong' = {} /\ Account
  BY <1>1, <1>13, <1>14 DEF AInv
<1> QED BY <1>1, <1>15, AllFreed

-----------------------------------------------------------------------------
(* The steps of a running server. *)

\* A step of the running program that accounts for what it allocates and frees.
LEMMA RunningAccounts ==
    ASSUME AInv, Serving, UNCHANGED <<program, stage, wrong>>,
           live' = (HeldOnce \X {0}) \cup SlotsHeld'
    PROVE  Account'
<1>1. HeldOnce' = HeldOnce
  BY DEF HeldOnce, Starting, Before, StageOf, Position, Acquired
<1>2. Acquired' = Acquired
  BY SameNames
<1>3. wrong' = {} /\ stage' = "running"
  BY DEF AInv, Account, Serving
<1>4. FreedOnce' /\ NothingIsLeft'
  BY <1>3 DEF FreedOnce, NothingIsLeft
<1> QED BY <1>1, <1>2, <1>3, <1>4 DEF AInv, Account

\* What the server holds: no topic and no block of a slot is held once.
LEMMA ServingHolds ==
    ASSUME AInv, Serving
    PROVE  /\ live = (HeldOnce \X {0}) \cup SlotsHeld /\ wrong = {}
           /\ HeldOnce \subseteq Name \ {"topic"}
<1>1. live = (HeldOnce \X {0}) \cup SlotsHeld /\ wrong = {}
  BY DEF AInv, Account, Serving
<1>2. HeldOnce = {"stdin"} \cup ToSet(Acquired)
  BY DEF HeldOnce, Starting, Serving
<1>3. "stdin" \in Name \ {"topic"}
  BY DEF Name
<1> QED BY <1>1, <1>2, <1>3, AcquiredNames

\* One slot becomes another.
LEMMA SlotReplaced ==
    ASSUME MInv, NEW i \in DOMAIN entities, NEW s \in Slot,
           entities' = [entities EXCEPT ![i] = s]
    PROVE  LET others == (UNION {SlotHeld(k) : k \in DOMAIN entities \ {i}})
                              \cup ToSet(SlotBlocks(i))
           IN  /\ SlotsHeld' = others \cup ToSet(s.topics)
               /\ SlotsHeld = others \cup ToSet(entities[i].topics)
<1> DEFINE rest == DOMAIN entities \ {i}
<1>1. /\ DOMAIN entities' = DOMAIN entities /\ entities'[i] = s
      /\ \A k \in rest : entities'[k] = entities[k]
  BY DEF MInv, TypeOK
<1>2. SlotHeld(i)' = ToSet(SlotBlocks(i)) \cup ToSet(s.topics)
  BY <1>1 DEF SlotHeld, SlotBlocks
<1>3. \A k \in rest : SlotHeld(k)' = SlotHeld(k)
  BY <1>1 DEF SlotHeld, SlotBlocks
<1>4. SlotHeld(i) = ToSet(SlotBlocks(i)) \cup ToSet(entities[i].topics)
  BY DEF SlotHeld
<1>5. DOMAIN entities = rest \cup {i}
  OBVIOUS
<1>6. SlotsHeld = (UNION {SlotHeld(k) : k \in rest}) \cup SlotHeld(i)
  <2> HIDE DEF rest
  <2> QED BY <1>5 DEF SlotsHeld
<1>7. SlotsHeld' = (UNION {SlotHeld(k)' : k \in rest}) \cup SlotHeld(i)'
  <2> HIDE DEF rest
  <2> QED BY <1>1, <1>5 DEF SlotsHeld
<1>8. UNION {SlotHeld(k)' : k \in rest} = UNION {SlotHeld(k) : k \in rest}
  <2> HIDE DEF rest
  <2> QED BY <1>3
<1> QED BY <1>2, <1>4, <1>6, <1>7, <1>8

LEMMA SameTopicsHeld ==
    ASSUME AInv, Serving, UNCHANGED <<program, stage, wrong, live>>,
           NEW i \in DOMAIN entities, NEW s \in Slot, s.topics = entities[i].topics,
           entities' = [entities EXCEPT ![i] = s]
    PROVE  Account'
<1>1. SlotsHeld' = SlotsHeld
  BY SlotReplaced DEF AInv
<1> QED BY <1>1, ServingHolds, RunningAccounts

LEMMA AddTopicAccounts ==
    ASSUME AInv, Serving, UNCHANGED <<program, stage, wrong>>,
           NEW i \in DOMAIN entities, NEW s \in Slot, s.topics = entities[i].topics,
           SoundSlot(s), Len(s.topics) < s.cap, AddTopic(i, s)
    PROVE  Account'
<1>1. PICK b \in FreshTopics :
        /\ live' = live \cup {b}
        /\ entities' = [entities EXCEPT ![i] = [s EXCEPT !.topics = Append(@, b)]]
  BY DEF AddTopic
<1>2. b \in TopicBlock
  BY <1>1, FreshTopic
<1> DEFINE T == Append(s.topics, b)
           t == [s EXCEPT !.topics = T]
<1>3. /\ s.topics \in Seq(TopicBlock) /\ Len(s.topics) \in Nat
      /\ T \in Seq(TopicBlock) /\ Len(T) = Len(s.topics) + 1
  BY <1>2, LenProperties, AppendProperties DEF Slot
<1>4. ToSet(T) = ToSet(s.topics) \cup {b}
  BY <1>2, <1>3, AppendElements
<1> HIDE DEF T
<1>5. t \in Slot /\ t.topics = T
  <2>1. s.cap \in Nat
    BY DEF Slot
  <2>2. Len(T) <= s.cap
    BY <1>3, <2>1
  <2> QED BY <1>3, <2>2, OtherTopics
<1>6. entities' = [entities EXCEPT ![i] = t]
  BY <1>1 DEF T
<1> HIDE DEF t
<1>7. SlotsHeld' = SlotsHeld \cup {b}
  <2> DEFINE others == (UNION {SlotHeld(k) : k \in DOMAIN entities \ {i}})
                       \cup ToSet(SlotBlocks(i))
  <2>1. t \in Slot /\ MInv
    BY <1>5 DEF AInv
  <2>2. /\ SlotsHeld' = others \cup ToSet(t.topics)
        /\ SlotsHeld = others \cup ToSet(entities[i].topics)
    BY <1>6, <2>1, SlotReplaced
  <2> HIDE DEF others
  <2> QED BY <1>4, <1>5, <2>2
<1>8. live' = (HeldOnce \X {0}) \cup SlotsHeld'
  BY <1>1, <1>7, ServingHolds
<1> QED BY <1>8, RunningAccounts

LEMMA SubscribeAccounts ==
    ASSUME AInv, NEW i \in DOMAIN entities, subscribe_client_to_topic(i)
    PROVE  Account'
<1> DEFINE slot == entities[i]
<1>1. Serving /\ UNCHANGED <<program, stage, wrong>>
  BY DEF subscribe_client_to_topic
<1>2. /\ slot \in Slot /\ half_grown(i) \in Slot /\ Grown(i) \in Slot
      /\ SoundSlot(slot) /\ SoundSlot(Grown(i))
      /\ half_grown(i).topics = slot.topics /\ Grown(i).topics = slot.topics
      /\ Len(slot.topics) = slot.cap => Len(Grown(i).topics) < Grown(i).cap
  BY TopicsOfASlot, GrownSlots DEF AInv, MInv
<1>3. CASE UNCHANGED <<live, entities>>
  <2>1. entities' = [entities EXCEPT ![i] = slot]
    BY <1>3 DEF AInv, MInv, TypeOK
  <2> QED BY <1>1, <1>2, <1>3, <2>1, SameTopicsHeld
<1>4. CASE Len(slot.topics) < slot.cap /\ AddTopic(i, slot)
  BY <1>1, <1>2, <1>4, AddTopicAccounts
<1>5. CASE entities' = [entities EXCEPT ![i] = half_grown(i)] /\ UNCHANGED live
  BY <1>1, <1>2, <1>5, SameTopicsHeld
<1>6. CASE entities' = [entities EXCEPT ![i] = Grown(i)] /\ UNCHANGED live
  BY <1>1, <1>2, <1>6, SameTopicsHeld
<1>7. CASE Len(slot.topics) = slot.cap /\ AddTopic(i, Grown(i))
  BY <1>1, <1>2, <1>7, AddTopicAccounts
<1> QED BY <1>3, <1>4, <1>5, <1>6, <1>7 DEF subscribe_client_to_topic

LEMMA UnsubscribeAccounts ==
    ASSUME AInv, NEW i \in DOMAIN entities, NEW j \in DOMAIN entities[i].topics,
           unsubscribe_client_from_topic(i, j)
    PROVE  Account'
<1> DEFINE slot == entities[i]
           b    == slot.topics[j]
           T    == RemoveAt(slot.topics, j)
           t    == [slot EXCEPT !.topics = T]
<1>1. /\ slot \in Slot /\ SoundSlot(slot) /\ slot.topics \in Seq(TopicBlock)
      /\ Len(slot.topics) \in Nat /\ DOMAIN slot.topics = 1 .. Len(slot.topics)
  BY TopicsOfASlot DEF AInv, MInv
<1>2. /\ Serving /\ UNCHANGED <<program, stage>> /\ Release(live, <<b>>)
      /\ entities' = [entities EXCEPT ![i] = t]
  BY DEF unsubscribe_client_from_topic
<1>3. Distinct(slot.topics) /\ b \in live /\ b \in TopicBlock
  <2>1. Distinct(slot.topics)
    BY DEF AInv, MInv, SlotsOwnTheirBlocks, Distinct
  <2>2. b \in live
    BY DEF AInv, MInv, SlotsOwnTheirBlocks, ToSet
  <2>3. b \in TopicBlock
    BY <1>1, ElementOfSeq
  <2> QED BY <2>1, <2>2, <2>3
<1>4. live' = live \ {b} /\ wrong' = wrong
  <2>1. b \in Block
    BY <1>3 DEF TopicBlock, Block, Name
  <2> HIDE DEF b
  <2>2. <<b>> \in Seq(Block) /\ Distinct(<<b>>) /\ ToSet(<<b>>) = {b}
    BY <2>1 DEF Distinct, ToSet
  <2>3. ToSet(<<b>>) \subseteq live
    BY <1>3, <2>2
  <2> QED BY <1>2, <2>2, <2>3, ReleaseOnce
<1>5. ToSet(T) = ToSet(slot.topics) \ {b} /\ b \in ToSet(slot.topics)
  <2>1. ToSet(T) = ToSet(slot.topics) \ {b}
    BY <1>1, <1>3, RemoveAtElements
  <2> QED BY <2>1 DEF ToSet
<1>6. t \in Slot /\ t.topics = T
  <2>1. T \in Seq(TopicBlock) /\ Len(T) = Len(slot.topics) - 1
    BY <1>1, RemoveAtProperties
  <2>2. slot.cap \in Nat /\ Len(slot.topics) <= slot.cap
    BY <1>1 DEF Slot, SoundSlot
  <2> HIDE DEF T, slot
  <2>3. Len(T) <= slot.cap
    BY <1>1, <2>1, <2>2
  <2> QED BY <1>1, <2>1, <2>3, OtherTopics
<1> DEFINE others == (UNION {SlotHeld(k) : k \in DOMAIN entities \ {i}})
                     \cup ToSet(SlotBlocks(i))
<1> HIDE DEF t, T
<1>7. SlotsHeld' = others \cup ToSet(T) /\ SlotsHeld = others \cup ToSet(slot.topics)
  <2>1. MInv
    BY DEF AInv
  <2> QED BY <1>2, <1>6, <2>1, SlotReplaced
<1>8. b \notin others
  <2>1. ASSUME NEW k \in DOMAIN entities PROVE b \notin ToSet(SlotBlocks(k))
    <3>1. k \in Nat
      BY LenProperties DEF AInv, MInv, TypeOK
    <3> QED BY <1>3, <3>1, FourBlocks DEF TopicBlock
  <2>2. ASSUME NEW k \in DOMAIN entities, k # i PROVE b \notin ToSet(entities[k].topics)
    <3>1. \A l \in DOMAIN entities[k].topics : entities[k].topics[l] # b
      BY <2>2 DEF AInv, MInv, SlotsOwnTheirBlocks
    <3> QED BY <3>1 DEF ToSet
  <2>3. \A k \in DOMAIN entities \ {i} : b \notin SlotHeld(k)
    BY <2>1, <2>2 DEF SlotHeld
  <2> HIDE DEF b
  <2> QED BY <2>1, <2>3
<1>9. b \notin HeldOnce \X {0}
  <2>1. HeldOnce \subseteq Name \ {"topic"}
    BY <1>2, ServingHolds
  <2>2. \E n : b = <<"topic", n>>
    BY <1>3 DEF TopicBlock
  <2> HIDE DEF b
  <2> QED BY <2>1, <2>2
<1>10. live' = (HeldOnce \X {0}) \cup SlotsHeld'
  <2>1. live = (HeldOnce \X {0}) \cup SlotsHeld
    BY <1>2, ServingHolds
  <2> HIDE DEF others, b, slot
  <2> QED BY <1>4, <1>5, <1>7, <1>8, <1>9, <2>1
<1> QED BY <1>2, <1>4, <1>10, RunningAccounts

LEMMA StoreAccounts ==
    ASSUME AInv, NEW i \in DOMAIN entities,
           add_topic_msg_for_client(i) \/ retransmit_topics_to_client(i)
    PROVE  Account'
<1>1. Serving /\ UNCHANGED <<program, stage, wrong, live>>
  BY DEF add_topic_msg_for_client, retransmit_topics_to_client
<1>2. PICK s \in Slot : /\ SoundSlot(s) /\ s.topics = entities[i].topics
                        /\ entities' = [entities EXCEPT ![i] = s]
  BY StoredSlot DEF AInv, MInv
<1> QED BY <1>1, <1>2, SameTopicsHeld

\* The four blocks of a slot, in their order.
LEMMA SlotBlocksInOrder ==
    ASSUME NEW n \in Nat
    PROVE  SlotBlocks(n) \in Seq(Block) /\ Distinct(SlotBlocks(n)) /\ DOMAIN SlotBlocks(n) = 1 .. 4
<1>1. SlotBlocks(n) \in Seq(Block) /\ DOMAIN SlotBlocks(n) = 1 .. 4
  BY DEF SlotBlocks, Block, Name
<1>2. Distinct(SlotBlocks(n))
  BY DEF SlotBlocks, Distinct
<1> QED BY <1>1, <1>2

\* A new slot has a number that no slot has, so its blocks are not held yet; when one of the
\* four cannot be had, those before it are freed again, and nothing else.
LEMMA RegisterAccounts ==
    ASSUME AInv, register_new_client
    PROVE  Account'
<1>0. PICK n \in Nat : n = Len(entities) + 1
  BY LenProperties DEF AInv, MInv, TypeOK
<1>1. /\ Len(entities) \in Nat /\ DOMAIN entities = 1 .. Len(entities) /\ n \in Nat /\ n # 0
      /\ entities \in Seq(Slot)
  BY <1>0, LenProperties DEF AInv, MInv, TypeOK
<1>2. Serving /\ UNCHANGED <<program, stage>>
  BY DEF register_new_client
<1>3. live = (HeldOnce \X {0}) \cup SlotsHeld
  BY <1>2, ServingHolds
<1>4. SlotBlocks(n) \in Seq(Block) /\ Distinct(SlotBlocks(n)) /\ DOMAIN SlotBlocks(n) = 1 .. 4
  BY <1>1, SlotBlocksInOrder
<1>5. CASE register_fails(n)
  <2>1. PICK m \in 0 .. 3 : Release(live \cup ToSet(SubSeq(SlotBlocks(n), 1, m)),
                                    SubSeq(SlotBlocks(n), 1, m))
    BY <1>5 DEF register_fails
  <2> DEFINE got == SubSeq(SlotBlocks(n), 1, m)
  <2>2. /\ got \in Seq(Block) /\ Distinct(got)
        /\ ToSet(got) = {SlotBlocks(n)[k] : k \in 1 .. m}
    <3>1. m + 1 \in DOMAIN SlotBlocks(n) /\ (m + 1) - 1 = m
      BY <1>4
    <3>2. /\ SubSeq(SlotBlocks(n), 1, (m + 1) - 1) \in Seq(Block)
          /\ Distinct(SubSeq(SlotBlocks(n), 1, (m + 1) - 1))
          /\ ToSet(SubSeq(SlotBlocks(n), 1, (m + 1) - 1)) =
                 {SlotBlocks(n)[k] : k \in 1 .. (m + 1) - 1}
      BY <1>4, <3>1, UpToPosition
    <3> QED BY <3>1, <3>2
  <2>3. ToSet(got) \subseteq {"id", "topics", "options", "ready_msgs"} \X {n}
    <3>1. ToSet(got) \subseteq ToSet(SlotBlocks(n))
      <4>1. \A k \in 1 .. m : k \in DOMAIN SlotBlocks(n)
        BY <1>4
      <4> QED BY <2>2, <4>1 DEF ToSet
    <3> QED BY <1>1, <3>1, FourBlocks
  <2> HIDE DEF got
  <2>4. live' = (live \cup ToSet(got)) \ ToSet(got) /\ wrong' = wrong
    <3>1. ToSet(got) \subseteq live \cup ToSet(got)
      OBVIOUS
    <3>2. Release(live \cup ToSet(got), got)
      BY <2>1 DEF got
    <3> QED BY <2>2, <3>1, <3>2, ReleaseOnce
  <2>5. ToSet(got) \cap (HeldOnce \X {0}) = {}
    BY <1>1, <2>3
  <2>6. ASSUME NEW k \in DOMAIN entities PROVE ToSet(got) \cap SlotHeld(k) = {}
    <3>1. k \in Nat /\ k # n
      BY <1>0, <1>1
    <3>2. ToSet(got) \cap ToSet(SlotBlocks(k)) = {}
      BY <2>3, <3>1, FourBlocks
    <3>3. ToSet(entities[k].topics) \subseteq TopicBlock
      BY TopicsOfASlot, ElementOfSeq DEF AInv, MInv, ToSet
    <3>4. ToSet(got) \cap TopicBlock = {}
      BY <2>3 DEF TopicBlock
    <3> QED BY <3>2, <3>3, <3>4 DEF SlotHeld
  <2>7. ToSet(got) \cap SlotsHeld = {}
    BY <2>6 DEF SlotsHeld
  <2>8. live' = live
    BY <1>3, <2>4, <2>5, <2>7
  <2>9. SlotsHeld' = SlotsHeld
    <3>1. entities' = entities
      BY <1>5 DEF register_fails
    <3> QED BY <3>1 DEF SlotsHeld, SlotHeld, SlotBlocks
  <2> QED BY <1>2, <1>3, <2>4, <2>8, <2>9, RunningAccounts
<1>6. CASE /\ live' = live \cup ToSet(SlotBlocks(n))
           /\ entities' = Append(entities, NewSlot)
           /\ UNCHANGED wrong
  <2>1. NewSlot \in Slot /\ NewSlot.topics = << >>
    BY CapacityAssumption, EmptySeq DEF NewSlot, Slot
  <2>2. /\ DOMAIN entities' = DOMAIN entities \cup {n}
        /\ \A k \in DOMAIN entities : entities'[k] = entities[k]
        /\ entities'[n] = NewSlot
    <3>1. /\ entities' \in Seq(Slot) /\ Len(entities') = n
          /\ \A k \in DOMAIN entities : entities'[k] = entities[k]
          /\ entities'[n] = NewSlot
      BY <1>0, <1>1, <1>6, <2>1, AppendProperties
    <3>2. DOMAIN entities' = 1 .. n
      BY <3>1, LenProperties
    <3> QED BY <1>0, <1>1, <3>1, <3>2
  <2>3. \A k \in DOMAIN entities : SlotHeld(k)' = SlotHeld(k)
    BY <2>2 DEF SlotHeld, SlotBlocks
  <2>4. SlotHeld(n)' = ToSet(SlotBlocks(n))
    <3>1. ToSet(entities'[n].topics) = {}
      BY <2>1, <2>2 DEF ToSet
    <3> QED BY <3>1 DEF SlotHeld, SlotBlocks
  <2>5. SlotsHeld' = UNION {SlotHeld(k)' : k \in DOMAIN entities \cup {n}}
    BY <2>2 DEF SlotsHeld
  <2>6. SlotsHeld' = SlotsHeld \cup ToSet(SlotBlocks(n))
    BY <2>3, <2>4, <2>5 DEF SlotsHeld
  <2>7. live' = (HeldOnce \X {0}) \cup SlotsHeld'
    BY <1>3, <1>6, <2>6
  <2> QED BY <1>2, <1>6, <2>7, RunningAccounts
<1> QED BY <1>0, <1>5, <1>6 DEF register_new_client

-----------------------------------------------------------------------------
(* free_server *)

\* What free_clients_vec frees: the blocks of all slots, each once, then its own two.
SlotFrees(i) == entities[i].topics \o
                    <<<<"topics", i>>, <<"id", i>>, <<"options", i>>, <<"ready_msgs", i>>>>

LEMMA SlotFreesOnce ==
    ASSUME AInv, NEW i \in DOMAIN entities
    PROVE  /\ SlotFrees(i) \in Seq(Block) /\ Distinct(SlotFrees(i))
           /\ ToSet(SlotFrees(i)) = SlotHeld(i)
<1> DEFINE four == <<<<"topics", i>>, <<"id", i>>, <<"options", i>>, <<"ready_msgs", i>>>>
           T    == entities[i].topics
<1>1. T \in Seq(TopicBlock) /\ i \in Nat
  BY TopicsOfASlot, LenProperties DEF AInv, MInv, TypeOK
<1>2. T \in Seq(Block) /\ ToSet(T) \subseteq TopicBlock
  <2>1. TopicBlock \subseteq Block
    BY DEF TopicBlock, Block, Name
  <2>2. T \in Seq(Block)
    <3> HIDE DEF T
    <3> QED BY <1>1, <2>1, SeqMonotonic
  <2> QED BY <1>1, <2>2, LenProperties, ElementOfSeq DEF ToSet
<1>3. Distinct(T)
  BY DEF AInv, MInv, SlotsOwnTheirBlocks, Distinct
<1>4. four \in Seq(Block) /\ ToSet(four) = ToSet(SlotBlocks(i))
  <2>1. four \in Seq(Block)
    BY <1>1 DEF Block, Name
  <2>2. ToSet(four) = {<<"id", i>>, <<"topics", i>>, <<"options", i>>, <<"ready_msgs", i>>}
    BY DEF ToSet
  <2> QED BY <1>1, <2>1, <2>2, FourBlocks
<1>5. Distinct(four)
  BY DEF Distinct
<1>6. ToSet(T) \cap ToSet(four) = {}
  <2>1. ToSet(four) = {<<"id", i>>, <<"topics", i>>, <<"options", i>>, <<"ready_msgs", i>>}
    BY <1>1, <1>4, FourBlocks
  <2> HIDE DEF four, T
  <2> QED BY <1>2, <2>1 DEF TopicBlock
<1>7. SlotHeld(i) = ToSet(SlotBlocks(i)) \cup ToSet(T) /\ SlotFrees(i) = T \o four
  BY DEF SlotHeld, SlotFrees
<1> HIDE DEF four, T
<1>8. /\ T \o four \in Seq(Block) /\ Distinct(T \o four)
      /\ ToSet(T \o four) = ToSet(T) \cup ToSet(four)
  BY <1>2, <1>3, <1>4, <1>5, <1>6, ConcatElements
<1> QED BY <1>4, <1>7, <1>8

\* Two slots have no block in common.
LEMMA SlotsApart ==
    ASSUME AInv, NEW i \in DOMAIN entities, NEW k \in DOMAIN entities, i # k
    PROVE  SlotHeld(i) \cap SlotHeld(k) = {}
<1>1. i \in Nat /\ k \in Nat
  BY LenProperties DEF AInv, MInv, TypeOK
<1>2. ASSUME NEW m \in DOMAIN entities PROVE ToSet(entities[m].topics) \subseteq TopicBlock
  BY TopicsOfASlot, ElementOfSeq DEF AInv, MInv, ToSet
<1>3. ToSet(entities[i].topics) \cap ToSet(entities[k].topics) = {}
  BY DEF AInv, MInv, SlotsOwnTheirBlocks, ToSet
<1>4. ToSet(SlotBlocks(i)) \cap ToSet(SlotBlocks(k)) = {}
  BY <1>1, FourBlocks
<1>5. ToSet(SlotBlocks(i)) \cap TopicBlock = {} /\ ToSet(SlotBlocks(k)) \cap TopicBlock = {}
  BY <1>1, FourBlocks DEF TopicBlock
<1> QED BY <1>2, <1>3, <1>4, <1>5 DEF SlotHeld

LEMMA VecFreesOnce ==
    ASSUME AInv
    PROVE  LET all == FlattenSeq([i \in DOMAIN entities |-> SlotFrees(i)])
           IN  all \in Seq(Block) /\ Distinct(all) /\ ToSet(all) = SlotsHeld
<1> DEFINE s == [i \in DOMAIN entities |-> SlotFrees(i)]
<1>1. DOMAIN entities = 1 .. Len(entities) /\ Len(entities) \in Nat
  BY LenProperties DEF AInv, MInv, TypeOK
<1>2. DOMAIN s = DOMAIN entities /\ \A i \in DOMAIN entities : s[i] = SlotFrees(i)
  OBVIOUS
<1>3. \A i \in DOMAIN entities : /\ s[i] \in Seq(Block) /\ Distinct(s[i])
                                 /\ ToSet(s[i]) = SlotHeld(i)
  <2> HIDE DEF s
  <2> QED BY <1>2, SlotFreesOnce
<1>4. s \in Seq(Seq(Block))
  <2>1. \A i \in 1 .. Len(entities) : SlotFrees(i) \in Seq(Block)
    BY <1>1, SlotFreesOnce
  <2>2. [i \in 1 .. Len(entities) |-> SlotFrees(i)] \in Seq(Seq(Block))
    BY <1>1, <2>1
  <2> QED BY <1>1, <2>2
<1> HIDE DEF s
<1>5. \A i, k \in DOMAIN s : i # k => ToSet(s[i]) \cap ToSet(s[k]) = {}
  BY <1>2, <1>3, SlotsApart
<1>6. /\ FlattenSeq(s) \in Seq(Block) /\ Distinct(FlattenSeq(s))
      /\ ToSet(FlattenSeq(s)) = UNION {ToSet(s[i]) : i \in DOMAIN s}
  <2>1. \A i \in DOMAIN s : Distinct(s[i])
    BY <1>2, <1>3
  <2> QED BY <1>4, <1>5, <2>1, FlattenElements
<1>7. UNION {ToSet(s[i]) : i \in DOMAIN s} = SlotsHeld
  BY <1>2, <1>3 DEF SlotsHeld
<1>8. FlattenSeq(s) \in Seq(Block) /\ Distinct(FlattenSeq(s)) /\ ToSet(FlattenSeq(s)) = SlotsHeld
  BY <1>6, <1>7
<1> QED BY <1>8 DEF s

\* The server gives back everything, and each thing once.
LEMMA FreeServerAccounts ==
    ASSUME AInv, free_server
    PROVE  Account'
<1> DEFINE once  == free_poll_vec \o ServerBuffers
           two   == <<"entities", "clients">>
           last  == <<"server">>
           all   == FlattenSeq([i \in DOMAIN entities |-> SlotFrees(i)])
           a     == Own(once)
           b     == Own(two)
           c     == Own(last)
           vec   == all \o b
           most  == a \o vec
           path  == most \o c
<1>1. /\ program = "server" /\ stage = "running" /\ stage' = "freed" /\ UNCHANGED program
      /\ Serving /\ Account
  BY DEF free_server, Serving, AInv
<1>2. Release(live, path)
  BY DEF free_server, free_clients_vec, SlotFrees
<1>3. live = (HeldOnce \X {0}) \cup SlotsHeld /\ wrong = {}
  BY <1>1, ServingHolds
<1>4. HeldOnce = {"stdin", "server", "buf", "cmd", "send_msg", "recv_msg", "udp_msgs",
                  "udp_socket", "tcp_socket", "poll_vec", "pfds", "clients", "entities"}
  <2>1. HeldOnce = {"stdin"} \cup ToSet(ServerAcquires)
    BY <1>1 DEF HeldOnce, Starting, Acquired
  <2>2. /\ ServerAcquires[1] = "server" /\ ServerAcquires[2] = "buf" /\ ServerAcquires[3] = "cmd"
        /\ ServerAcquires[4] = "send_msg" /\ ServerAcquires[5] = "recv_msg"
        /\ ServerAcquires[6] = "udp_msgs" /\ ServerAcquires[7] = "udp_socket"
        /\ ServerAcquires[8] = "tcp_socket" /\ ServerAcquires[9] = "poll_vec"
        /\ ServerAcquires[10] = "pfds" /\ ServerAcquires[11] = "clients"
        /\ ServerAcquires[12] = "entities" /\ DOMAIN ServerAcquires = 1 .. 12
    BY ServerNames
  <2>3. ToSet(ServerAcquires) = {ServerAcquires[n] : n \in 1 .. 12}
    BY <2>2 DEF ToSet
  <2>4. \A n \in 1 .. 12 : n = 1 \/ n = 2 \/ n = 3 \/ n = 4 \/ n = 5 \/ n = 6 \/ n = 7 \/ n = 8
                           \/ n = 9 \/ n = 10 \/ n = 11 \/ n = 12
    OBVIOUS
  <2>5. ToSet(ServerAcquires) \subseteq
            {"server", "buf", "cmd", "send_msg", "recv_msg", "udp_msgs",
             "udp_socket", "tcp_socket", "poll_vec", "pfds", "clients", "entities"}
    BY <2>2, <2>3, <2>4
  <2>6. {"server", "buf", "cmd", "send_msg", "recv_msg", "udp_msgs",
         "udp_socket", "tcp_socket", "poll_vec", "pfds", "clients", "entities"}
            \subseteq ToSet(ServerAcquires)
    BY <2>2, <2>3
  <2> QED BY <2>1, <2>5, <2>6
<1>5. /\ free_poll_vec \in Seq(Name) /\ Distinct(free_poll_vec)
      /\ ToSet(free_poll_vec) = {"stdin", "udp_socket", "tcp_socket", "pfds", "poll_vec"}
  BY <1>1, PollVecNames
<1>6. /\ ServerBuffers \in Seq(Name) /\ Distinct(ServerBuffers)
      /\ ToSet(ServerBuffers) = {"buf", "cmd", "send_msg", "recv_msg", "udp_msgs"}
  BY ServerNames
<1>7. /\ two \in Seq(Name) /\ Distinct(two) /\ ToSet(two) = {"entities", "clients"}
      /\ last \in Seq(Name) /\ Distinct(last) /\ ToSet(last) = {"server"}
  BY DEF Distinct, ToSet, Name
<1> HIDE DEF two, last
<1>8. /\ once \in Seq(Name) /\ Distinct(once)
      /\ ToSet(once) = {"stdin", "udp_socket", "tcp_socket", "pfds", "poll_vec",
                        "buf", "cmd", "send_msg", "recv_msg", "udp_msgs"}
  <2>1. ToSet(free_poll_vec) \cap ToSet(ServerBuffers) = {}
    BY <1>5, <1>6
  <2>2. once \in Seq(Name) /\ Distinct(once)
        /\ ToSet(once) = ToSet(free_poll_vec) \cup ToSet(ServerBuffers)
    BY <1>5, <1>6, <2>1, ConcatElements
  <2> QED BY <1>5, <1>6, <2>2
<1> HIDE DEF once
<1>9. /\ a \in Seq(Block) /\ Distinct(a) /\ ToSet(a) = ToSet(once) \X {0}
      /\ b \in Seq(Block) /\ Distinct(b) /\ ToSet(b) = {"entities", "clients"} \X {0}
      /\ c \in Seq(Block) /\ Distinct(c) /\ ToSet(c) = {"server"} \X {0}
  BY <1>7, <1>8, OwnBlocks
<1>10. all \in Seq(Block) /\ Distinct(all) /\ ToSet(all) = SlotsHeld
  BY VecFreesOnce DEF AInv
<1>11. ASSUME NEW x \in Name \ {"topic"}, NEW y \in SlotsHeld PROVE <<x, 0>> # y
  <2>1. PICK k \in DOMAIN entities : y \in SlotHeld(k)
    BY <1>11 DEF SlotsHeld
  <2>2. k \in Nat \ {0}
    BY LenProperties DEF AInv, MInv, TypeOK
  <2>3. y \in ToSet(SlotBlocks(k)) \/ y \in TopicBlock
    BY <2>1, TopicsOfASlot, ElementOfSeq DEF SlotHeld, AInv, MInv, ToSet
  <2>4. CASE y \in ToSet(SlotBlocks(k))
    BY <2>2, <2>4, FourBlocks
  <2>5. CASE y \in TopicBlock
    BY <2>5 DEF TopicBlock
  <2> QED BY <2>3, <2>4, <2>5
<1>12. ASSUME NEW X \in SUBSET (Name \ {"topic"}) PROVE (X \X {0}) \cap SlotsHeld = {}
  BY <1>11
<1> HIDE DEF a, b, c, all
<1>13. /\ vec \in Seq(Block) /\ Distinct(vec)
       /\ ToSet(vec) = SlotsHeld \cup ({"entities", "clients"} \X {0})
  <2>1. {"entities", "clients"} \in SUBSET (Name \ {"topic"})
    BY DEF Name
  <2>2. ToSet(all) \cap ToSet(b) = {}
    BY <1>9, <1>10, <1>12, <2>1
  <2>3. vec \in Seq(Block) /\ Distinct(vec) /\ ToSet(vec) = ToSet(all) \cup ToSet(b)
    BY <1>9, <1>10, <2>2, ConcatElements
  <2> QED BY <1>9, <1>10, <2>3
<1> HIDE DEF vec
<1>14. most \in Seq(Block) /\ Distinct(most) /\ ToSet(most) = ToSet(a) \cup ToSet(vec)
  <2>1. ToSet(once) \in SUBSET (Name \ {"topic"})
    BY <1>8 DEF Name
  <2>2. ToSet(a) \cap SlotsHeld = {}
    BY <1>9, <1>12, <2>1
  <2>3. ToSet(a) \cap ({"entities", "clients"} \X {0}) = {}
    BY <1>8, <1>9
  <2>4. ToSet(a) \cap ToSet(vec) = {}
    BY <1>13, <2>2, <2>3
  <2> QED BY <1>9, <1>13, <2>4, ConcatElements
<1> HIDE DEF most
<1>15. path \in Seq(Block) /\ Distinct(path) /\ ToSet(path) = ToSet(most) \cup ToSet(c)
  <2>1. {"server"} \in SUBSET (Name \ {"topic"})
    BY DEF Name
  <2>2. ToSet(c) \cap SlotsHeld = {}
    BY <1>9, <1>12, <2>1
  <2>3. ToSet(c) \cap ToSet(a) = {} /\ ToSet(c) \cap ({"entities", "clients"} \X {0}) = {}
    BY <1>8, <1>9
  <2>4. ToSet(most) \cap ToSet(c) = {}
    BY <1>13, <1>14, <2>2, <2>3
  <2> QED BY <1>9, <1>14, <2>4, ConcatElements
<1> HIDE DEF path
<1>16. ToSet(path) = live
  <2>1. HeldOnce = ToSet(once) \cup {"entities", "clients"} \cup {"server"}
    BY <1>4, <1>8
  <2>2. HeldOnce \X {0} = (ToSet(once) \X {0}) \cup ({"entities", "clients"} \X {0})
                              \cup ({"server"} \X {0})
    BY <2>1
  <2> QED BY <1>3, <1>9, <1>13, <1>14, <1>15, <2>2
<1>17. live' = live \ ToSet(path) /\ wrong' = wrong
  BY <1>2, <1>15, <1>16, ReleaseOnce
<1>18. live' = {} /\ wrong' = {}
  BY <1>3, <1>16, <1>17
<1> QED BY <1>1, <1>18, AllFreed

-----------------------------------------------------------------------------

\* Before init only stdin is held.
LEMMA InitAccount == Init => Account
<1> SUFFICES ASSUME Init PROVE Account
  OBVIOUS
<1>1. /\ program \in {"server", "subscriber"} /\ stage = Acquired[1]
      /\ live = {<<"stdin", 0>>} /\ wrong = {} /\ entities = << >>
  BY DEF Init
<1>2. /\ 1 \in DOMAIN Acquired /\ stage \in ToSet(Acquired)
      /\ stage \notin {"running", "failed", "freed"}
  <2>1. 1 \in DOMAIN Acquired
    BY AcquiredNames
  <2>2. stage \in ToSet(Acquired)
    BY <1>1, <2>1 DEF ToSet
  <2> QED BY <2>1, <2>2, AcquiredNames
<1>3. HeldOnce = {"stdin"}
  <2>1. ToSet(Before(stage)) = {Acquired[m] : m \in 1 .. 1 - 1}
    BY <1>1, <1>2, StagesInOrder
  <2>2. 1 .. 1 - 1 = {}
    OBVIOUS
  <2>3. ToSet(Before(stage)) = {}
    BY <2>1, <2>2
  <2> QED BY <1>2, <2>3 DEF HeldOnce, Starting
<1>4. SlotsHeld = {}
  BY <1>1, NoSlotHolds
<1>5. live = (HeldOnce \X {0}) \cup SlotsHeld
  BY <1>1, <1>3, <1>4
<1>6. FreedOnce /\ NothingIsLeft
  BY <1>1, <1>2 DEF FreedOnce, NothingIsLeft
<1> QED BY <1>1, <1>2, <1>5, <1>6 DEF Account

\* Every step accounts for what it allocates and frees.
LEMMA NextAccount == AInv /\ [Next]_vars => Account'
<1> SUFFICES ASSUME AInv, [Next]_vars PROVE Account'
  OBVIOUS
<1>1. ASSUME NEW i \in DOMAIN entities,
             \/ subscribe_client_to_topic(i)
             \/ \E j \in DOMAIN entities[i].topics : unsubscribe_client_from_topic(i, j)
             \/ add_topic_msg_for_client(i) \/ retransmit_topics_to_client(i)
      PROVE  Account'
  BY <1>1, SubscribeAccounts, UnsubscribeAccounts, StoreAccounts
<1>2. CASE UNCHANGED vars
  <2>1. UNCHANGED <<program, stage, live, wrong, entities>>
    BY <1>2 DEF vars
  <2>2. Acquired' = Acquired /\ HeldOnce' = HeldOnce /\ SlotsHeld' = SlotsHeld
    BY <2>1 DEF Acquired, HeldOnce, Starting, Before, StageOf, Position, SlotsHeld, SlotHeld,
                SlotBlocks
  <2> QED BY <2>1, <2>2 DEF AInv, Account, Starting, FreedOnce, NothingIsLeft
<1>3. CASE Acquire
  BY <1>3, AcquireAccounts
<1>4. CASE FailToAcquire
  BY <1>4, FailAccounts
<1>5. CASE free_server
  BY <1>5, FreeServerAccounts
<1>6. CASE free_client
  BY <1>6, FreeClientAccounts
<1>7. CASE register_new_client
  BY <1>7, RegisterAccounts
<1> QED BY <1>1, <1>2, <1>3, <1>4, <1>5, <1>6, <1>7 DEF Next

\* The account of what is held is right at every moment.
LEMMA AlwaysAccount == Spec => []Account
<1>1. Init => AInv
  BY InitMInv, InitAccount DEF AInv
<1>2. AInv /\ [Next]_vars => AInv'
  BY NextMInv, NextAccount DEF AInv
<1>3. AInv => Account
  BY DEF AInv
<1> QED BY <1>1, <1>2, <1>3, PTL DEF Spec

\* No block is freed and no descriptor closed that is not held, whatever could not be had on
\* the way; only the sockets of a server without a clients vector are closed twice.
THEOREM NothingIsFreedTwice == Spec => []FreedOnce
<1>1. Account => FreedOnce
  BY DEF Account
<1> QED BY <1>1, AlwaysAccount, PTL

\* free_server and free_client give back everything, the topics of every client included; a
\* failed init leaves a few blocks and descriptors only.
THEOREM EverythingIsGivenBack == Spec => []NothingIsLeft
<1>1. Account => NothingIsLeft
  BY DEF Account
<1> QED BY <1>1, AlwaysAccount, PTL

=============================================================================
