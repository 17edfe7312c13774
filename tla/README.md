# Verification of tcp-client-server

TLA+ specifications, TLC model checking and TLAPS proofs of the broker in `src/`: a server
that takes datagrams from UDP publishers and forwards them over TCP to the subscribers of
their topic, with a store-and-forward option for subscribers that are away.

## The system

| Component (source) | State | Operations | Interacts with |
|---|---|---|---|
| main loop and handlers (`src/server.c`, `src/server_utils.c`) | poll vector, clients vector, `udp_msgs` with length and capacity, one receive and one send buffer, the UDP socket and the listener | `wait_for_ready_fds`, `check_if_exit`, `process_ready_fds`, `add_server_udp_msg`, `transmit_topic_to_clients`, `retransmit_topics_to_client`, `process_server_tcp_msg`, `free_server` | calls the two vectors and the framing; the kernel's sockets |
| clients vector (`src/client_vec.c`) | one slot for each ID that ever registered: status, descriptor, topics, options, `ready_msgs` | register, close, subscribe, unsubscribe, stack a message | holds pointers into the server's `udp_msgs` |
| poll vector (`src/poll_vec.c`) | the array for `poll(2)` and its capacity | add, remove (with `close`), free | used by the server and by the subscriber |
| TCP framing (`src/tcp_type.c`) | none | send and receive exactly `sizeof(tcp_msg_t)` bytes | kernel |
| UDP parser (`src/udp_type.c`) | none of its own; reads the server's one receive buffer | a datagram to a `udp_type_t` | called by `add_server_udp_msg` |
| utilities (`src/utils.c`) | none | `debug_msg`, `ipow` | the parser (`ipow`), everyone (`debug_msg`) |
| subscriber (`src/subscriber.c`, `src/subscriber_utils.c`) | poll vector of stdin and socket, buffers | connect and send the ID, commands, print messages, exit | the server, over TCP |
| UDP publisher (`pcom_hw2_udp_client/`) | none | send a datagram | the server, over UDP |
| end-to-end tests (`test.py`) | | | drives all of them |

What makes this code hard is that one thread serves everybody with blocking calls, over
tables that it changes while it runs over them:

* the poll loop removes entries from, and appends entries to, the array it iterates over,
  while the kernel hands out closed descriptors again at once;
* three tables describe a connection (the poll vector, the clients vector and the kernel's
  descriptors) and must change together, also when an allocation fails between them;
* subscribers connect, leave and die between any two system calls of a round; a dead
  connection accepts data until its reset arrives, and then raises `SIGPIPE`;
* a reconnection empties the store of the absence, and every message must be sent once, by
  the live path or by the store;
* the thread waits for the ID of a new connection and for room in the buffer of a slow
  subscriber, and meanwhile nobody else is served;
* pointers to messages are kept across a `realloc` of the array they point into;
* every datagram is parsed out of one buffer that still holds the ones before it;
* `poll` sees the descriptor of the stdin, `fgets` reads through the buffer of stdio, and the
  two disagree about what is there;
* `init_server` and `init_client` give back what they hold on a path of their own per step, and
  parallel arrays grow by a `realloc` each, of which the second may fail.

What makes each part correct:

* clients vector: an ID has one slot for ever; a descriptor leads to one slot; a topic is
  listed once; options stay with their topic; nothing of a failed call is visible;
* poll vector and loop: each reported descriptor is handled once in its round, and a handler
  never reads from something that is silent;
* server: the tables agree between rounds; messages go only to subscribers with a claim to
  them, at most once, the stored ones before the live ones; what was not sent is stored, unless
  a send of it failed;
* whole system: datagrams are taken, connections are answered, dead connections are closed and
  claims are settled;
* framing: a message arrives whole, in order, or not at all, and calls return;
* parser: topic, number and text that a subscriber sees are the ones that were sent;
* subscriber: the server is asked what was typed, in order, once; the loop never waits where
  nothing is, every line is read, and, once the input pauses, the messages are printed and the
  process ends with its connection;
* memory: elements lie inside their arrays, nothing is freed twice, nothing is lost.

`PROJECT.json` lists each hazard at its line, with the properties that watch it.

## Modules

`ClientVec` is the clients vector. A C function is an operator of the same name whose last
argument is the value it returns, so a caller can branch on the result; `clients` is the array
of slots in order of registration. The loops that stop at the first match are `IsFirst`.
Capacities are not state: growing an array either succeeds, which nobody sees, or fails, which
returns an error (`AllocFails`). `Init` and `Next` state the contract under which the server
calls it: `accept` returns a descriptor that no live slot uses, a message is stored only for a
`DEAD` slot with the SF option, the store shrinks only for an `ACTIVE` one.

`Registry` is the abstract specification: for each ID the descriptor that serves it, its
subscriptions and its stored messages, with no arrays, slots or searches. `ClientVec` implements
it under the mapping `FdOf`, `SubsOf`, `StoredOf` (property `ImplementsRegistry`).

`PollVec` is the poll vector: an entry is a descriptor and whether the last poll reported
`POLLIN` for it. `POLLOUT` is polled by the code and looked at by nobody.

`Network` is everything outside the server process: the kernel's connections and listen queue,
the UDP socket's buffer, the subscribers, the publishers and the operator. A connection carries
whole messages, as `Channel` does. Towards a subscriber only the number of unread messages is
kept, up to `SockBuf`, above which a send blocks. A close with unread data is a reset; `err` is
what the server's end has learned of it, and decides whether a send is accepted, fails once or
raises `SIGPIPE`.

`Server` composes `Network`, `PollVec` and `ClientVec` into the broker. `pc` is the place of the
thread. A handler is one action up to the next system call on another descriptor; so
`transmit_topic_to_clients` and `retransmit_topics_to_client` take one action per message sent,
and everyone else acts in between. `iter` and `k` are the loop counters of the code.

| Code | Action of `Server` |
|---|---|
| `wait_for_ready_fds`, the `loop` of `main` | `wait_for_ready_fds`, `poll_fails` |
| `check_if_exit` | `check_if_exit` |
| `process_ready_fds`, UDP branch, with `add_server_udp_msg` | `recv_udp_message` (a `recvfrom` that fails leaves the datagram before in the buffer, `TopicsInBuf`), and `recv_udp_from_client` when the number of the closed UDP socket was given to a subscriber |
| `transmit_topic_to_clients`, one client | `transmit_send`, `transmit_store` |
| listener branch | `accept_client`, `recv_id` |
| `retransmit_topics_to_client`, one message | `retransmit_send`, `retransmit_done`, `retransmit_dangling` (a stored pointer into the old array) |
| client branch, with `process_server_tcp_msg` | `recv_command`, `recv_end` |
| `free_server` after the loop | `free_server` |
| `send` on a connection that was reset | `send_killed` |

The operator's stdin is what the next `fgets` of `check_if_exit` finds: "exit" or another line, which stands for
any part of at most `MAX_CMD_LEN - 1` bytes that a longer line is read in; "part", the beginning of a line, for which the
call waits and with it the whole server; or "end", at which it returns `NULL` in every round.

`todo`, `ends`, `since`, `want`, `due`, `log` and `lost` are history variables: no action reads
them outside the history. `due[id]` is computed from the commands an ID sent (`want`) and the
connections that hold it (`live`, from `since`), never from the server's tables, so it is an independent account
of what the server owes.

`Framing` has the loops of `send_tcp_msg` and `recv_tcp_msg` at both ends of one TCP connection. A
byte is its message and its place in it. One action is one `send` or `recv` of the kernel, which
moves any number of bytes that fits; an end may close or die inside a message, and then the other
one sees the end of the stream, a reset or `SIGPIPE`. The callers are reduced to when they call:
the server reads the ID without a poll and sends to whom it knows, the subscriber sends its ID
first. There are two parties only: a server that is blocked on another client is not part of it. `Channel` is its abstract specification: messages 1, 2, 3 ... that arrive whole, the next one
or none. `ImplementsChannel` maps the received bytes to message numbers, a torn message to 0.

`UdpType` follows a datagram through the receive buffer (`recvfrom` overwrites its head only),
`parse_udp_type_from` with the four parsers and `ipow`, the storage, and
`pack_topic_to_tcp_msg`. Bytes have `Base` values and all lengths are scaled down, so that widths
and terminators matter at sizes that TLC can enumerate. `Datagram` is the format the publisher
sends; strings are compared and printed as C does, up to a zero (`CString`). The loop of `ipow` is a
recursive function that applies its body (`LoopBody`) until the exponent is 0.

`Subscriber` is the program of a subscriber: `pc` is its place in `main`. The stdin has two parts,
what was written and not read (`piped`) and what stdio has read ahead (`stdio`); `kind` is what the
stdin is, because a terminal delivers one line to a `read` and reports its end for ever, a pipe delivers
all it has, perhaps a part of a line, and at its end only `POLLHUP`, and a file is always readable.
Input comes in `Chunks`, which are what one `fgets` returns: a line, or the next `MAX_CLIENT_CMD_LEN - 1` bytes of a longer
one (`more`), which the program takes for a command of its own. A chunk is its command name, whether the name is exact or
the beginning of a longer word, and the rest. Around it are whoever types and the server, which reads, sends, and may go away at any
moment. `IsASubscriberOfNetwork` ties it to `Network`: each step of the program, seen from the
server, is one of the subscriber's actions there, or none.

`Memory` is what the two programs hold: `live` the blocks and descriptors, `wrong` whatever was
freed without being held. `init_server` and `init_client` are a list of acquisitions and, for each of
them, the list of what the code frees when it fails. In between, the arrays of the clients vector grow:
a slot has the capacity the code keeps (`cap`) and the sizes its two parallel arrays really have.

The definitions named `..._bug` are forms of their neighbours that a mistake would produce. No
specification uses them; each documents which mistake a property rules out, and `PROJECT.json`
pairs them.

## Runs

| Run | Question | Instance |
|---|---|---|
| `client_vec` | Is the vector alone correct under every order of calls? | 2 IDs, 2 topics, 2 descriptors, 2 messages stored, failing allocations; 15 thousand states |
| `server_tables` | Do the tables agree, is nobody handled in vain or in another's name, and is the end of a subscriber known after the round that reports it? | 2 IDs, 2 connections, 2 publications, 2 commands, datagrams and commands of unknown type; 0.56 million states |
| `server_faults` | What is stored, sent, and in which order, and is each report handled once, also when allocations, `poll` and `recvfrom` fail, the array moves, descriptors run out and the UDP socket is lost? | 2 IDs, 3 connections, 1 descriptor for clients and the one the UDP socket gives up, 2 publications, 1 command; 2.3 million states |
| `server_live` | What happens in the end? | 1 ID, 2 connections, 2 publications, 1 command, an operator; 0.18 million states |
| `framing` | Do the byte loops carry whole messages, and do they return? | messages of 3 bytes; buffers of 2 bytes from the server, 4 from the subscriber; 3 messages each way; 3520 states |
| `datagrams` | Is each datagram found and printed as it was sent, whatever was in the buffer? | 3 datagrams out of all types, bytes of 16 values, numbers of 2 bytes, topics up to 2 characters, texts up to 5, a failing `recvfrom` anywhere; 0.16 million states |
| `subscriber` | What is asked, read and printed, and does the program end? | 2 lines, or one in two parts, out of 8 kinds of chunks, a terminal, a pipe and a file, 1 message, failing calls; 0.46 million states |
| `memory` | Is memory used and given back rightly? | 2 slots, 3 topics and 2 messages each, initial capacity 1, any failure |
| `failed_retransmission`, `moved_messages`, `empty_datagram`, `broken_pipe` | The disagreements below | the smallest instance that shows each |

The bounds. Two IDs and two descriptors are the least that let one subscriber be taken for
another and let a descriptor change hands; two connections are two subscribers, a duplicate ID or a
reconnection, three are also a reconnection after a reconnection. In `server_faults` the two
subscribers take turns at one descriptor, and when one holds it the `accept` of another connection finds none; two that are
connected at a time are the subject of `server_tables`. Two publications are two messages of one absence, which are sent
newest first, or one stored and one live. Two topics in a slot let the arrays shift. One place in the
socket buffer makes sends block. `UdpCap = 1` makes the message array grow with the second message, where
the code's `INIT_UDP_MSGS_LEN` would need many; only the growth matters. A message of three bytes has
a first, a middle and a last one; a buffer smaller than a message forces the loops to go round, and
a larger one holds parts of two messages. Three datagrams are a long one, a short one over it, and
one more, with a failing `recvfrom` anywhere. Two chunks are the line `poll` saw and the one stdio read
ahead, or the two parts of one line. `MaxConns`, `MaxPublish`, `MaxCmds`, `MaxMsgs`, `MaxLines`, `MaxMessages`, `MaxSlots`,
`MaxTopics` bound the environment, `MaxReady` the stored messages of `ClientVec` alone.
`recv_udp_from_client` is bounded by `MaxPublish` as well. `Ids` and `Topics` are symmetric where
no liveness is checked.

Deadlock is checked in `client_vec` only. Elsewhere the system may really stop: processes end
(`exit`, an error, a signal), the environment is bounded, and in `framing` two ends that send
into full buffers wait for each other, which `CallsReturn` names.

What holds.

* `client_vec`: the slots stay apart and refine `Registry`.
* `server_tables`, `server_faults`: `TablesAgree`, `EachReportedOnce` and `HandlersDoNotBlock` hold
  for every interleaving, and `KeepsClientVecContract` shows that the assumptions under which `ClientVec`
  is proved are met by the server. Between rounds every message owed was sent, had a send that failed, or is in the
  store of an absent ID, and a store holds nothing else; nothing is sent twice; a
  session starts with the store, newest first, and no live message overtakes it. A message may be
  sent into the connection of a subscriber that is gone, instead of being stored, but only until the
  round that reports its end is over (`EndsAreSeenInOneRound`).
* `framing`: the loops implement `Channel`; a call returns unless both ends send into full
  buffers (`BothSend`), a state the instance reaches.
* `datagrams`, `subscriber`, `memory`: the properties hold with the exceptions they name.

The properties say exactly where the code keeps a promise and where it does not. `TablesAgree`,
`KeepsClientVecContract` and the properties of the messages are stated for a server that still has its
UDP socket, those of the store, of the order and of sending once for one whose message array has not moved (`blk = 0`),
because both events break them (below): a pointer into the old array is sent as whatever is there, and with the
number of the UDP socket in the hands of a subscriber two slots may name one descriptor. The other exceptions:

| Property | Exception | Why |
|---|---|---|
| `TopicAsSent` | a topic of full length with a type other than INT is found by nobody | the type byte is copied in place of the terminator (`udp_type.c:101`) |
| `NumberAsSent` | an INT beyond 31 bits; a power of ten beyond 32 bits | a signed `int`; `ipow` wraps (`utils.c:207`), which `IpowIsThePower` states |
| `StringAsSent` | a text without an end of its own is printed with the tail of an earlier datagram | the buffer is not cleared and the whole field is copied (`udp_type.c:75`) |
| `AsksWhatWasTyped` | a longer word that begins with a command is sent, as a request the server does not know | the names are compared up to their own length (`subscriber_utils.c:441`) |
| `AsksWhatWasTyped` | of a line of 128 bytes or more each part is a command of its own | the limit of `fgets` (`subscriber_utils.c:440`) |
| `StoreHoldsTheRest` | a message of which a send failed, live or stored, need not be in the store | `transmit_topic_to_clients` reports the error only; `retransmit_topics_to_client` empties the store (`server_utils.c:515-521`, `:589`) |
| `AtMostOnce` | a datagram that a failed `recvfrom` leaves in the buffer is a new message | -1 is not told from a length (`server_utils.c:638-655`) |
| `DatagramsAreTaken`, `ConnectionsAreAnswered`, `DeadConnectionsAreClosed`, `ClaimsAreSettled` | the operator has begun a line and not finished it (`AwaitsTheOperator`) | `fgets` of the one thread waits for its end (`server_utils.c:783`) |
| `LinesAreRead` | of a pipe a line, and of a terminal the rest of a long one, may stay in the buffer of stdio until more is written | `poll` looks at the descriptor (`subscriber_utils.c:440`) |
| `NeverBlocksOnInput`, `StuckOnlyInALine` | a line that a pipe has begun and not finished stops the subscriber | `fgets` waits for its end |
| `CallsReturn` | both ends send and neither reads | blocking sends on both sides |
| `FreedOnce` | `udp_socket` and `tcp_socket` are closed twice when the clients vector cannot be created | `free_poll_vec` closes them and so does `init_server` (`server_utils.c:250`) |
| `NothingIsLeft` | a few blocks and a socket of a failed start-up | they end with the process |

Fairness. `server_live`: `WF(ServerStep)`: the server is one thread that takes its next step when
it can; there is no choice among handlers, the loop fixes the order. `WF` of `SendId`, `ReadMessage`
and `ReadEnd`: a subscriber that is alive sends its ID directly after `connect`, and its own loop reads the
socket whenever `poll` reports it, as long as its input pauses. `StuckOnlyInALine` shows this of the program, with
no exception but the unfinished line, for an input that ends (`MaxLines`). It is not so for every input: a round with a `subscribe` or `unsubscribe`
line does not reach `process_ready_fds` (`subscriber.c:72-94`), and such lines without a pause (`yes 'subscribe t 1'`) keep the
subscriber from its socket for ever. Nothing is assumed of connecting, publishing, commands, exiting or typing. The
assumptions matter: the server waits for the ID and for room in the buffer without a timeout, so one connection that
stays silent, or one subscriber that stops reading, stops the service. The liveness properties say nothing about these two cases.
`framing`: `WF` of each end's calls, of the read that follows a report of
`poll`, and of the ID. `subscriber`: `WF` of its one thread, of the server's accept and of its reads;
nobody has to type, to finish a line, to send or to leave. That the server reads leaves out that it may be blocked
sending to this subscriber while this one is blocked sending to it, which is what `CallsReturn` of `framing` names, or on another one.

## Where the code and its comments disagree

* `failed_retransmission`: `retransmit_topics_to_client` promises that after a failed send "the
  rest of the messages from the queue will wait for another reconnection". The length it sets before
  `break` is overwritten with 0 after the loop (`server_utils.c:581`, `:589`).
* `moved_messages`: stored pointers lead into `udp_msgs`, which `realloc` may move
  (`server_utils.c:452`, `:527`). Once more messages arrive than the array holds, a
  reconnection reads freed memory.
* `empty_datagram`: `src/README.md:179` says that the server ends with its UDP socket. A
  datagram of length 0 makes `recvfrom` return 0, the socket leaves the poll vector and the
  server goes on without publishers (`server_utils.c:638`). The descriptor's number can then
  go to a subscriber, whose traffic is taken for datagrams (`recv_udp_from_client`).
* `broken_pipe`: `send_tcp_msg` is documented to return an error on a closed connection; without
  `MSG_NOSIGNAL` the second send to a subscriber that is gone ends the process (`tcp_type.c:54`). A poll lies between the
  two sends, because a round takes one datagram, but the UDP entry is handled before the entry of the dead connection.

Three more have no run of their own.

* A live message whose send fails is reported and forgotten (`server_utils.c:515-521`; `transmit_send` puts it into `lost`), while
  the comment of `process_ready_fds` says that a message is "saved internally in case [...] the udp message was not send due to
  closed connection" (`server_utils.c:605-606`). It stays in `udp_msgs`, and no store points to it.
* `get_cmd_line` says that a command whose name is not valid is not processed (`subscriber_utils.c:415-417`). The names are
  compared up to their own length, so a longer word is processed and sent (`NameSent`).
* `src/README.md:159` says that both programs use "IO multiplexing in order not to stop to a blocking **recv** or
  **fgets** function call". On both sides `fgets` waits for the end of a line that has begun (`AwaitsTheOperator`, `NeverBlocksOnInput`).

## Proofs

`ClientVecProofs` proves, for every set of IDs, topics, descriptors and pointers, every bound and
with or without failing allocations, that `ClientVec!Spec` keeps `TypeOK` (`TypeCorrect`),
`OneSlotPerId` (`IdsOwnOneSlot`), `FdNamesOneClient` (`FdsNameOneClient`) and `TopicsDistinct`
(`TopicsStayDistinct`). The inductive invariant `IInv` is their conjunction. None is inductive
alone: a fresh descriptor keeps the descriptors apart only because `DEAD` slots hold none, the
options are shifted with their topics only because the arrays have one length, and a `DEAD` slot
revived by its ID is unique because IDs are. The only assumptions are those of `ClientVec`:
descriptors are natural numbers (so -1 is none of them) and the two parameters have their types.

The argument goes through two lemmas on the vector (`ReplaceSlot`, `AddSlot`): a step replaces one
slot by a sound one of the same ID or appends one with a new ID and a new descriptor. Each action is
then reduced to one of them, with lemmas on `RemoveAt` and `Append` for the topics
(`RemoveAtProperties`, `DistinctAppend`, `DistinctRemoveAt` of `SequenceLemmas`).

The second part of `ClientVecProofs` proves that the vector implements `Registry` (`VectorImplementsRegistry`):
under `IInv` a slot determines the mapping at its ID (`KnownIDs`), a step that replaces a slot changes
the mapping there only (`Frame`), and each action of `ClientVec` is one action of `Registry` or, when the C
function returns an error, a stutter.

`FramingProofs` proves of `Framing`, for every size of a message and of the kernel's buffers and any
number of messages, `TypeOK` (`FramingTypeCorrect`), `StreamInOrder` (`MessagesStayInOrder`) and that
the loops implement `Channel` (`FramingImplementsChannel`). It assumes what `Framing` does: a message has
at least one byte and the constants have their types. `StreamInOrder` is the invariant of the
argument, one direction at a time (`Flows`): what was received are the messages 1 to n whole, the receiver's
buffer holds the beginning of the next, the bytes under way go on from there without a gap, and they
end where the sender's loop is, as long as the connection stands. Together with `TypeOK` it is inductive. The
last part is what a send needs, to append the right byte; it is lost with a reset, after which
nothing is appended. Four lemmas are about sequences of bytes alone (`AppendKeepsOrder`,
`DropKeepsOrder`, `HeadOfStream`, and from them `SendKeepsOrder`, `RecvKeepsOrder`); then each action
has a lemma of its own, and `Frame` says what a step must keep of the direction it does not touch. The
refinement follows because the invariant makes every received message a whole one with its own number, so
the last byte of a loop is the step of `Channel` and every other one is a stutter.

`MemoryProofs` proves of `Memory`, for every initial capacity, every number of clients, topics and messages
and whichever allocation fails, `WithinArrays` (`ArraysHoldTheirElements`) and `SlotsOwnTheirBlocks`
(`BlocksStayOwned`), assuming only that the initial capacity is positive. The invariant `MInv` adds what `WithinArrays`
lacks: the capacity kept by the code is never above the size of any of the parallel arrays
(`Room`), because the code decides by the capacity alone whether there is room; and slots exist only
while the server runs, so that no failing start-up frees theirs (`TypeOK`). A step of a client replaces
its slot (`ReplaceSlot`), with the same topics (`SameTopics`), one more (`AddsATopic`) or one less
(`UnsubscribeKeeps`). `SequenceLemmas` has the facts about `Append` and `RemoveAt` that it shares with
`ClientVecProofs`.

The second part of `MemoryProofs` proves, under the same assumption, `FreedOnce` (`NothingIsFreedTwice`) and `NothingIsLeft`
(`EverythingIsGivenBack`). Neither is inductive, because neither says what is held before the end; the invariant `Account` does,
to the block: while a program starts, what comes before its stage in the order of acquisition (`StagesInOrder`), and while it
runs, all of that and the blocks of the slots (`SlotsHeld`). Every path out is then compared with the account. For a failing start
`ServerPath` and `ClientPath` go through the stages: what the `goto` labels free is held and is
named once, and what they miss is the little that the property names (`GivenBack`). When the clients vector cannot be created, the path closes
the two sockets and then calls `free_poll_vec`, which closes them again (`ReleaseBoth`); in all other cases no block
occurs twice (`ReleaseOnce`). While the server runs, each action of the vector changes the account by the blocks of one slot
(`SlotReplaced`), and at the end the frees of all slots, laid end to end, are distinct and are all that the slots held
(`VecFreesOnce`, by `FlattenElements` of `SequenceLemmas`); that no two slots share a block is `SlotsOwnTheirBlocks`.

`ServerProofs` proves of `Server`, for any number of subscribers, connections, descriptors and messages,
`EachReportedOnce` (`ReportsAreHandledOnce`) and `HandlersDoNotBlock` (`NoHandlerWaits`), from the
assumptions of `Network` and `Server` on their constants. The invariant `SInv` says what `todo`, which is
there for the properties alone, means to the loop: in a round it holds exactly the descriptors of the
reported entries from `iter` on (`RoundOK`). That survives a handler that removes its entry, because the entries
behind it move down to where the loop goes on (`ReportedBehind`), one that appends an entry, which
is not reported (`VecGrows`), and one that takes the appended entry back (`ReportedBefore`). No
descriptor is polled twice: an entry stands for one of the three sockets of the server or for an open connection (`VecOK`),
so the number `accept` returns is in no entry (`FreshFd`). And nobody but its own handler takes from a descriptor what
there is to read (`Moves`, `ReadyStays`): the sends of a loop leave it there, closing another
descriptor does, and what the subscribers, the publishers and the operator do only adds to it (`EnvKeeps`).
A connection in the backlog has no descriptor yet and waits there once (`BacklogOK`). Each action has a lemma of its
own, and most of them cite `HandlerDone` or `LoopKeeps`. The theorems hold with all the faults of `Server`, also after
the UDP socket has left the vector and its number belongs to a subscriber. The second part of the module
proves `TypeOK` (`ServerTypes`), with `SInv` and `Types` as the inductive invariant: an ID is known from `connect` on
(`KnownIds`); `iter` stays within the vector and a handler runs at an entry behind the first
(`LoopTypes`); what was received and what is in the UDP buffer were published, so the array of the messages stays below its bound
(`DataTypes`); the slots are well formed (`SlotsOK`), which comes operation by operation from the lemmas
of `ClientVecProofs`; and the history variables keep their types (`HistoryTypes`).

`ServerTablesProofs` proves `TablesAgree` (`TablesOfConnections`), `KeepsClientVecContract`
(`CallsWithinContract`) and `EndsAreSeenInOneRound` (`EndsAreSeen`), for the same constants and faults. `TablesAgree`
speaks of the moment between two rounds; the invariant `Tables` says what holds inside one, as long as the server
serves (`Serving`): an open connection has exactly one entry, except the one whose ID is still to be read (`FdLaw`), an
`ACTIVE` slot stands for one live connection of the same ID and descriptor and each live connection has its slot
(`SlotLaw`, with the invariants of `ClientVec`), and what the slots list is what the commands of their
subscribers asked for (`WishLaw`). `QuietTables` is the lemma for steps that leave these links alone; the others are
`accept_client`, `recv_id` with a new, a returning and a duplicate ID, a command, and an end. The contract
needs besides that no store holds more pointers than messages were received and that the loop
over the clients stands at a slot that the message concerns (`RoomOK`). For the ends of connections the invariant
`EndsLaw` says that an end known at a poll is still in `todo` until its descriptor is closed; with `EachReportedOnce` it is
then handled before the round is over.

The second part of `ServerTablesProofs` proves `OnlyWhatIsDue` (`OnlyDueIsSent`), `AtMostOnce` (`NothingIsSentTwice`),
`SessionOrder` (`SessionsAreInOrder`) and `StoreHoldsTheRest` (`EveryClaimIsAccountedFor`). There are two invariants on top of
the tables. `LogLaw` is about what was sent: it was received and due (`DueReceived`, `DueWasSent`), and until the array moves it is
no junk, in no two places of one subscriber's logs (`Once`), and ordered (`Ordered`). `StoreLaw` is about what is left,
slot by slot: the due messages of its ID are those settled (sent, or given up after a failed send), those held in the
store and the one the loop still brings, and these three are disjoint (`Accounted`); the pointers of a store rise
(`Rising`), and during a retransmission what was already sent is newer than what is left (`Resuming`). Neither can be had
without the other: a live message is new to a log because it is not settled yet, and it goes behind everything sent because
a store that is not empty belongs to an absent subscriber. A step either sends nothing (`LogsStay`) or
extends one log by a message that fits behind it (`LogExtended`, `Fits`).

`SubscriberProofs` proves of `Subscriber`, for any chunks, any number of them, any kind of stdin and buffers of
any size, `NeverBlocksOnInput` (`ThreadDoesNotBlock`), `TypeOK` (`SubscriberTypes`), `AsksWhatWasTyped`
(`RequestsInOrder`) and `IsASubscriberOfNetwork` (`SubscriberOfNetwork`). It assumes what `Subscriber` does: bounds are natural numbers,
the buffers have room for one message, and a chunk is whole and carries a topic or none. The first needs none of that: the
invariant `SubInv` carries the answer of poll to the call it was asked for: on the way to fgets there is
something in the pipe or in the stdio buffer, or the input has ended (`StdinOK`), and until recv the
message or the end is there (`SocketOK`), because the others only add to both (`TypingKeeps`, `ServerSideKeeps`).
If none of it is a whole chunk, its last piece is the unfinished one, the exception the property names.

The others rest on `Progress`. Its core is `InputOK`: the chunks of the script behind the first `read` are those that stdio and the
stdin still hold, in order, whatever pieces stand between them (`Carries`, a monotone map from places of the script
to places of the input). It survives the chunks of a typed line (`LinesAdded`), a piece (`PieceAdded`), stdio reading ahead, which only moves the
border between the two buffers, and fgets, which returns the chunk the map begins with (`LineTaken`). Without
it not even `TypeOK` is inductive, since nothing else keeps `read` below the length of the script. `CmdOK` says
that the command the thread is at is the chunk read last, `StartOK` that the ID precedes the requests and that there is a
server by then, `SentOK` that a chunk becomes at most one request, which is why the commands never exceed the bound of `Network`. The
requests are the chunks' requests laid end to end, a recursive definition of the library (`FlattenSeq`); `SequenceLemmas` proves by
induction over a set of numbers what one more chunk adds to it (`FlattenAppend`). For the refinement each action has a lemma
that names the step of `Network` it is (`StartSeen`, `SendIdSeen`, `CommandSeen`, `SocketSeen`, `LoopSeen`).

`UdpTypeProofs` proves of `UdpType`, for every base of the bytes, every width of the numbers, fields of
any size, any set of messages and any number of datagrams, `TopicAsSent` (`TopicsAreFound`), `NumberAsSent`
(`NumbersArePrinted`), `StringAsSent` (`TextsArePrinted`) and `IpowIsThePower` (`PowersAreRight`). It assumes
what `UdpType` does: a byte has at least two values, the field of the data is longer than any number (`SizesAssumption`), and
publishers keep to the format of the README (`MessagesAssumption`: a topic of at most 50 characters
without a zero, numbers of the width of their type, a text shorter than its field).

* The invariant `UInv` relates the buffer to the message stored last: it begins with that datagram, or with the zeros of the start when there is none (`Holds`, `ZerosHold`), which a
  `recvfrom` that fails relies on, and its last byte has stayed zero since the start, because every datagram is
  shorter (`BufOK`), which is what ends a text that fills the rest of its field. Of every message stored it says what a
  subscriber will read from it (`Stored`). A datagram of any length is put over the old
  bytes (`DatagramHolds`, `ReceivedHolds`), and the parser is then shown to cut out the topic (`TopicParsed`), the number
  (`NumberStored`) and the text (`TextStored`). TLC checked `UInv` on the instance of `datagrams` first.
* The numbers. `ipow` has the loop invariant `LoopOK`: the result so far times the base to the rest of the exponent is, modulo the
  word, the power that was asked for (`LoopKeeps`, from `PowOfSquare` and `PowOfReduced`), and the exponent left is at most
  the exponent less the passes made, so it is 0 at the end (`IpowModulo`). `NtohOfHton` shows that reading a number
  in network order gives it back, for every width; `WrapSmall`, that the signed conversion keeps what has one bit less.
* The recursion. The library's induction is out of the prover's reach, so what a recursive function computes is
  proved by induction over a set of numbers: `Recurs` says that a function obeys a recursion, on all numbers or up to one,
  `RecursValues`, `RecursAgree` and `RecursEverywhere` that it exists, has its values where they belong and is unique. `PowValues` is
  the instance for powers. The few facts on quotients and remainders that the solver does not find by itself are lemmas of their own
  (`Division` to `DividedTwice`).

So every invariant and every safety property over steps that a passing run checks is a theorem. Only
model-checked is all liveness, because the prover has no ENABLED and so no fairness: `DatagramsAreTaken`,
`ConnectionsAreAnswered`, `DeadConnectionsAreClosed`, `ClaimsAreSettled`, `CallsReturn`, `LinesAreRead` and
`StuckOnlyInALine`.

## Not modelled

* `debug_msg`, the macros that print and exit, the usage texts and the wording of what is printed;
  `print_udp_type` prints what `pack_topic_to_tcp_msg` of `UdpType` has put together.
* `get_client_id`, a search without effect.
* Of the publisher, `udp_client.py`: its options, delays and the choice of payloads decide which
  datagrams are sent, and the models allow all of their formats at any time.
* The Makefile and `test.py`, which is a script that drives the programs.
* The length of an ID. It is copied with `strcpy` into `MAX_ID_CLIENT_LEN` (10) bytes, in the subscriber
  (`subscriber_utils.c:171`) and in the server (`client_vec.c:174`), and no length is checked. IDs are model values
  here, so the models hold for IDs of at most nine characters.
* The bytes of the server's stdin: only what the next `fgets` finds (above).
* Division of FLOAT and SHORT_REAL values and the rounding of `printf`: `UdpType` keeps numerator
  and denominator.

## Plan

1. Done: all the components above, their runs, the two abstract specifications and their
   refinements, and the proofs of every safety property.
2. Open: the liveness properties, which TLC checks on the instances only. The argument that they need
   for every value of the constants is a measure of a round: the entries of the poll vector still to be handled, and for each
   of them the sends still to be made.
