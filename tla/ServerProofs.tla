---------------------------- MODULE ServerProofs ----------------------------
(***************************************************************************)
(* The poll loop of the server for any number of subscribers, connections, *)
(* descriptors and messages: every descriptor a poll reports is handled    *)
(* once in its round, no handler waits for input, and the variables keep   *)
(* their types.                                                            *)
(***************************************************************************)
EXTENDS Server, SequenceLemmas

-----------------------------------------------------------------------------
(***************************************************************************)
(* The inductive invariant.  The parts are stated of a vector and of the   *)
(* connections as parameters, so that a lemma can speak of the ones that a *)
(* handler leaves behind.                                                  *)
(***************************************************************************)
Entries == [fd : Fds \cup {STDIN, LISTENER}, pollin : BOOLEAN]

UdpIn(vec) == Len(vec) > 1 /\ vec[2].fd = UDP

HoldsFd(cn, fd) == \E c \in Conns : cn[c].fd = fd

\* A descriptor is polled once, and only while it is open.
VecOK(vec, cn) ==
    /\ vec \in Seq(Entries) /\ Len(vec) > 0 /\ vec[1].fd = STDIN
    /\ \A m, n \in DOMAIN vec : vec[m].fd = vec[n].fd => m = n
    /\ \A n \in DOMAIN vec : \/ vec[n].fd \in {STDIN, LISTENER}
                             \/ vec[n].fd = UDP /\ UdpIn(vec)
                             \/ HoldsFd(cn, vec[n].fd)

CanRead(r) == r.inbox # << >> \/ r.peer \in {"closed", "aborted"}

Ready(udp, cn, q, b, s, fd) ==
    \/ fd = STDIN /\ s # "nothing"
    \/ fd = UDP /\ udp /\ q # << >>
    \/ fd = LISTENER /\ b # << >>
    \/ \E c \in Conns : cn[c].fd = fd /\ CanRead(cn[c])

\* The descriptors the last poll reported, from entry n on.
Reported(vec, n) == {vec[m].fd : m \in ReportedFrom(vec, n)}

ConnOK(cn) == /\ cn \in [Conns -> Connections]
              /\ \A c \in Conns : cn[c].peer = "free" => cn[c].fd = NoFd

\* A connection that waits to be accepted has no descriptor and waits once.
BacklogOK(b, cn) ==
    /\ b \in Seq(Conns) /\ Distinct(b)
    /\ \A n \in DOMAIN b : cn[b[n]].fd = NoFd /\ cn[b[n]].peer # "free"

InRound == {"check_if_exit", "process_ready_fds", "transmit", "recv_id", "retransmit"}

\* The entry the loop goes on with.
From == IF pc = "check_if_exit" THEN 2 ELSE IF pc = "process_ready_fds" THEN iter ELSE iter + 1

RoundOK ==
    pc \in InRound =>
        /\ VecOK(pfds, conn)
        /\ pc # "check_if_exit" => iter \in Nat /\ iter > 1
        /\ todo = Reported(pfds, From)
        /\ \A fd \in todo : Ready(UdpIn(pfds), conn, udpq, backlog, stdin, fd)
        /\ pc = "process_ready_fds" => iter \in ReportedFrom(pfds, iter)
        /\ pc = "recv_id" => Len(pfds) > iter /\ ~ pfds[Len(pfds)].pollin

WaitOK == pc = "wait_for_ready_fds" => VecOK(pfds, conn) /\ todo = {}

SInv == ConnOK(conn) /\ BacklogOK(backlog, conn) /\ RoundOK /\ WaitOK

-----------------------------------------------------------------------------
(* Facts about a poll vector. *)

\* The descriptors of the server are different numbers.
LEMMA FdsAreNumbers ==
    /\ Fds \subseteq Int /\ NoFd \notin Fds \cup {STDIN, LISTENER}
    /\ STDIN \notin Fds /\ LISTENER \notin Fds /\ UDP # STDIN /\ UDP # LISTENER
    /\ STDIN # LISTENER
BY DEF Fds, NoFd, STDIN, LISTENER, UDP

\* The types of a poll vector and of its entries.
LEMMA VecTypes ==
    ASSUME NEW vec \in Seq(Entries)
    PROVE  /\ Len(vec) \in Nat /\ DOMAIN vec = 1 .. Len(vec)
           /\ \A n \in DOMAIN vec : vec[n] \in Entries
BY LenProperties, ElementOfSeq

\* The fields of an entry.
LEMMA EntryTypes ==
    ASSUME NEW e \in Entries
    PROVE  /\ e.fd \in Fds \cup {STDIN, LISTENER} /\ e.fd # NoFd
           /\ e.pollin \in BOOLEAN
<1>1. e.fd \in Fds \cup {STDIN, LISTENER} /\ e.pollin \in BOOLEAN
  BY DEF Entries
<1> QED BY <1>1, FdsAreNumbers

\* The descriptors count, not what was reported of them.
LEMMA SameFds ==
    ASSUME NEW vec, NEW cn, VecOK(vec, cn),
           NEW w \in Seq(Entries), Len(w) = Len(vec),
           \A n \in DOMAIN vec : w[n].fd = vec[n].fd
    PROVE  VecOK(w, cn) /\ (UdpIn(w) <=> UdpIn(vec))
<1>1. DOMAIN w = DOMAIN vec /\ DOMAIN vec = 1 .. Len(vec) /\ Len(vec) \in Nat
  BY VecTypes DEF VecOK
<1>2. w[1].fd = vec[1].fd /\ (Len(vec) > 1 => w[2].fd = vec[2].fd)
  BY <1>1 DEF VecOK
<1>3. UdpIn(w) <=> UdpIn(vec)
  BY <1>2 DEF UdpIn
<1>4. \A n \in DOMAIN w : w[n].fd = vec[n].fd /\ n \in DOMAIN vec
  BY <1>1
<1>5. \A m, n \in DOMAIN w : w[m].fd = w[n].fd => m = n
  BY <1>4 DEF VecOK
<1>6. Len(w) > 0 /\ w[1].fd = STDIN
  BY <1>2 DEF VecOK
<1>7. \A n \in DOMAIN w : \/ w[n].fd \in {STDIN, LISTENER}
                          \/ w[n].fd = UDP /\ UdpIn(w)
                          \/ HoldsFd(cn, w[n].fd)
  BY <1>3, <1>4 DEF VecOK
<1> QED BY <1>3, <1>5, <1>6, <1>7 DEF VecOK

\* A vector stays sound as long as its connections keep their descriptors.
LEMMA SameVec ==
    ASSUME NEW vec, NEW cn, NEW cn2, VecOK(vec, cn),
           \A c \in Conns : cn[c].fd # NoFd => cn2[c].fd = cn[c].fd
    PROVE  VecOK(vec, cn2)
<1>1. \A n \in DOMAIN vec : vec[n].fd # NoFd
  BY VecTypes, EntryTypes DEF VecOK
<1>2. \A n \in DOMAIN vec : HoldsFd(cn, vec[n].fd) => HoldsFd(cn2, vec[n].fd)
  BY <1>1 DEF HoldsFd
<1> QED BY <1>2 DEF VecOK

\* Removing an entry whose connection is closed, or the UDP socket.
LEMMA VecDrops ==
    ASSUME NEW vec, NEW cn, NEW cn2, VecOK(vec, cn), NEW p \in 2 .. Len(vec),
           \A c \in Conns : cn[c].fd \notin {NoFd, vec[p].fd} => cn2[c].fd = cn[c].fd
    PROVE  /\ VecOK(RemoveAt(vec, p), cn2)
           /\ UdpIn(vec) /\ vec[p].fd # UDP => UdpIn(RemoveAt(vec, p))
<1> DEFINE w == RemoveAt(vec, p)
           at(n) == IF n < p THEN n ELSE n + 1
<1>1. vec \in Seq(Entries) /\ Len(vec) \in Nat /\ DOMAIN vec = 1 .. Len(vec)
      /\ (\A n \in DOMAIN vec : vec[n] \in Entries) /\ p \in DOMAIN vec /\ p \in Nat
  BY VecTypes DEF VecOK
<1>2. w \in Seq(Entries) /\ Len(w) = Len(vec) - 1
      /\ \A n \in 1 .. Len(vec) - 1 : w[n] = IF n < p THEN vec[n] ELSE vec[n + 1]
  BY <1>1, RemoveAtProperties
<1> HIDE DEF w
<1>3. DOMAIN w = 1 .. Len(vec) - 1
  BY <1>1, <1>2, VecTypes
<1>4. \A n \in DOMAIN w : at(n) \in DOMAIN vec /\ at(n) # p /\ w[n] = vec[at(n)]
                          /\ (n = 1 => at(n) = 1)
  BY <1>1, <1>2, <1>3
<1>5. \A m, n \in DOMAIN w : at(m) = at(n) => m = n
  BY <1>1, <1>3
<1>6. Len(w) > 0 /\ 1 \in DOMAIN w
  BY <1>1, <1>2, <1>3
<1> HIDE DEF at
<1>7. w[1].fd = STDIN
  BY <1>4, <1>6 DEF VecOK
<1>8. \A m, n \in DOMAIN w : w[m].fd = w[n].fd => m = n
  BY <1>4, <1>5 DEF VecOK
<1>9. \A n \in DOMAIN w : w[n].fd # vec[p].fd /\ w[n].fd # NoFd
  <2> TAKE n \in DOMAIN w
  <2>1. w[n].fd = vec[at(n)].fd /\ at(n) \in DOMAIN vec /\ at(n) # p
    BY <1>4
  <2>2. vec[at(n)].fd # NoFd
    BY <2>1, <1>1, EntryTypes
  <2> QED BY <2>1, <2>2, <1>1 DEF VecOK
<1>10. ASSUME UdpIn(vec), vec[p].fd # UDP
       PROVE  UdpIn(w)
  <2>1. vec[2].fd = UDP /\ p > 2 /\ Len(vec) > 2
    BY <1>1, <1>10 DEF UdpIn
  <2>2. w[2] = vec[2] /\ Len(w) > 1
    BY <2>1, <1>1, <1>2
  <2> QED BY <2>1, <2>2 DEF UdpIn
<1>11. ASSUME NEW n \in DOMAIN w
       PROVE  \/ w[n].fd \in {STDIN, LISTENER}
              \/ w[n].fd = UDP /\ UdpIn(w)
              \/ HoldsFd(cn2, w[n].fd)
  <2>1. \/ w[n].fd \in {STDIN, LISTENER}
        \/ w[n].fd = UDP /\ UdpIn(vec)
        \/ HoldsFd(cn, w[n].fd)
    BY <1>4 DEF VecOK
  <2>2. w[n].fd = UDP /\ UdpIn(vec) => UdpIn(w)
    BY <1>9, <1>10
  <2>3. HoldsFd(cn, w[n].fd) => HoldsFd(cn2, w[n].fd)
    BY <1>9 DEF HoldsFd
  <2> QED BY <2>1, <2>2, <2>3
<1> QED BY <1>2, <1>6, <1>7, <1>8, <1>10, <1>11 DEF VecOK, w

\* Entry n leaves and the loop goes on at its place: what is left to handle are the reported
\* entries behind it.
LEMMA ReportedBehind ==
    ASSUME NEW vec \in Seq(Entries), NEW p \in DOMAIN vec
    PROVE  Reported(RemoveAt(vec, p), p) = Reported(vec, p + 1)
<1> DEFINE w == RemoveAt(vec, p)
<1>1. Len(vec) \in Nat /\ DOMAIN vec = 1 .. Len(vec) /\ p \in 1 .. Len(vec)
  BY VecTypes
<1>2. w \in Seq(Entries) /\ Len(w) = Len(vec) - 1
      /\ \A n \in 1 .. Len(vec) - 1 : w[n] = IF n < p THEN vec[n] ELSE vec[n + 1]
  BY <1>1, RemoveAtProperties
<1> HIDE DEF w
<1>3. ASSUME NEW m \in ReportedFrom(w, p)
      PROVE  m + 1 \in ReportedFrom(vec, p + 1) /\ w[m].fd = vec[m + 1].fd
  <2>1. m \in p .. Len(vec) - 1 /\ w[m].pollin
    BY <1>2 DEF ReportedFrom
  <2>2. m + 1 \in p + 1 .. Len(vec) /\ w[m] = vec[m + 1]
    BY <2>1, <1>1, <1>2
  <2> QED BY <2>1, <2>2 DEF ReportedFrom
<1>4. ASSUME NEW m \in ReportedFrom(vec, p + 1)
      PROVE  m - 1 \in ReportedFrom(w, p) /\ w[m - 1].fd = vec[m].fd
  <2>1. m \in p + 1 .. Len(vec) /\ vec[m].pollin
    BY DEF ReportedFrom
  <2>2. m - 1 \in p .. Len(w) /\ w[m - 1] = vec[m]
    BY <2>1, <1>1, <1>2
  <2> QED BY <2>1, <2>2 DEF ReportedFrom
<1>5. Reported(w, p) \subseteq Reported(vec, p + 1)
  BY <1>3 DEF Reported
<1>6. Reported(vec, p + 1) \subseteq Reported(w, p)
  BY <1>4 DEF Reported
<1> QED BY <1>5, <1>6 DEF w

\* The last entry leaves and was not reported.
LEMMA ReportedBefore ==
    ASSUME NEW vec \in Seq(Entries), NEW n \in Nat \ {0}, Len(vec) > 0,
           ~ vec[Len(vec)].pollin
    PROVE  Reported(RemoveAt(vec, Len(vec)), n) = Reported(vec, n)
<1> DEFINE l == Len(vec)
           w == RemoveAt(vec, l)
<1>1. l \in Nat /\ DOMAIN vec = 1 .. l /\ l \in DOMAIN vec
  BY VecTypes
<1>2. w \in Seq(Entries) /\ Len(w) = l - 1
      /\ \A m \in 1 .. l - 1 : w[m] = IF m < l THEN vec[m] ELSE vec[m + 1]
  BY <1>1, RemoveAtProperties
<1> HIDE DEF w
<1>3. \A m \in 1 .. l - 1 : w[m] = vec[m]
  BY <1>1, <1>2
<1>4. ~ vec[l].pollin
  OBVIOUS
<1> HIDE DEF l
<1>5. ReportedFrom(w, n) = ReportedFrom(vec, n)
  <2>1. ASSUME NEW m \in ReportedFrom(w, n) PROVE m \in ReportedFrom(vec, n)
    BY <1>1, <1>2, <1>3 DEF ReportedFrom, l
  <2>2. ASSUME NEW m \in ReportedFrom(vec, n) PROVE m \in ReportedFrom(w, n)
    <3>1. m \in n .. l /\ vec[m].pollin
      BY DEF ReportedFrom, l
    <3>2. m # l
      BY <3>1, <1>4
    <3>3. m \in n .. l - 1 /\ m \in 1 .. l - 1
      BY <3>1, <3>2, <1>1
    <3> QED BY <3>1, <3>3, <1>2, <1>3 DEF ReportedFrom
  <2> QED BY <2>1, <2>2
<1>6. \A m \in ReportedFrom(w, n) : w[m] = vec[m]
  BY <1>1, <1>2, <1>3 DEF ReportedFrom
<1> QED BY <1>5, <1>6 DEF Reported, w, l

\* The descriptors reported behind an entry are others than its own.
LEMMA ReportedRest ==
    ASSUME NEW vec, NEW cn, VecOK(vec, cn), NEW p \in Nat \ {0}, p \in ReportedFrom(vec, p)
    PROVE  /\ Reported(vec, p) \ {vec[p].fd} = Reported(vec, p + 1)
           /\ vec[p].fd \in Reported(vec, p) /\ p \in DOMAIN vec
<1>1. Len(vec) \in Nat /\ DOMAIN vec = 1 .. Len(vec)
  BY VecTypes DEF VecOK
<1>2. p \in DOMAIN vec
  BY <1>1 DEF ReportedFrom
<1>3. \A m : m \in ReportedFrom(vec, p) <=> m = p \/ m \in ReportedFrom(vec, p + 1)
  BY <1>1, <1>2 DEF ReportedFrom
<1>4. \A m \in ReportedFrom(vec, p + 1) : m \in DOMAIN vec /\ m # p
  BY <1>1, <1>2 DEF ReportedFrom
<1>5. \A m \in ReportedFrom(vec, p + 1) : vec[m].fd # vec[p].fd
  BY <1>2, <1>4 DEF VecOK
<1> QED BY <1>2, <1>3, <1>5 DEF Reported

-----------------------------------------------------------------------------
(* What a step may do to the connections. *)

\* From cn to cn2 only the connections of descriptor f lose it or what there was to read.
Moves(cn, cn2, f) ==
    /\ ConnOK(cn2)
    /\ \A c \in Conns :
          /\ cn2[c].fd \in {cn[c].fd, NoFd}
          /\ cn[c].peer # "free" => cn2[c].peer # "free"
          /\ cn[c].fd # f => cn2[c].fd = cn[c].fd /\ (CanRead(cn[c]) => CanRead(cn2[c]))

KeepsFds(cn, cn2) == \A c \in Conns : cn2[c].fd = cn[c].fd

\* What was there to read behind fd is still there after a step that is about f.
LEMMA ReadyStays ==
    ASSUME NEW cn, NEW cn2, NEW f, Moves(cn, cn2, f),
           NEW u, NEW u2, NEW q, NEW q2, NEW b, NEW b2, NEW s, NEW s2,
           NEW fd, fd # f, Ready(u, cn, q, b, s, fd),
           fd = UDP /\ u /\ q # << >> => u2 /\ q2 # << >>,
           fd = LISTENER /\ b # << >> => b2 # << >>,
           fd = STDIN /\ s # "nothing" => s2 # "nothing"
    PROVE  Ready(u2, cn2, q2, b2, s2, fd)
<1>1. CASE \E c \in Conns : cn[c].fd = fd /\ CanRead(cn[c])
  BY <1>1 DEF Moves, Ready
<1>2. CASE ~ \E c \in Conns : cn[c].fd = fd /\ CanRead(cn[c])
  BY <1>2 DEF Ready
<1> QED BY <1>1, <1>2

\* A connection that waits to be accepted has no descriptor to lose.
LEMMA BacklogStays ==
    ASSUME NEW cn, NEW cn2, NEW f, Moves(cn, cn2, f), NEW b, BacklogOK(b, cn)
    PROVE  BacklogOK(b, cn2)
<1>1. \A n \in DOMAIN b : b[n] \in Conns
  BY ElementOfSeq DEF BacklogOK
<1> QED BY <1>1 DEF BacklogOK, Moves

\* One connection changes.
LEMMA OneConn ==
    ASSUME NEW cn, ConnOK(cn), NEW c \in Conns, NEW r \in Connections,
           r.peer = "free" => r.fd = NoFd
    PROVE  /\ ConnOK([cn EXCEPT ![c] = r])
           /\ [cn EXCEPT ![c] = r][c] = r
           /\ \A d \in Conns : d # c => [cn EXCEPT ![c] = r][d] = cn[d]
BY DEF ConnOK

\* ... and its descriptor is f, or its end is still there to be read.
LEMMA OneMoves ==
    ASSUME NEW cn, ConnOK(cn), NEW c \in Conns, NEW r \in Connections, NEW f,
           r.fd \in {cn[c].fd, NoFd},
           r.peer = "free" => cn[c].peer = "free" /\ r.fd = cn[c].fd,
           cn[c].fd # f => r.fd = cn[c].fd /\ (CanRead(cn[c]) => CanRead(r))
    PROVE  Moves(cn, [cn EXCEPT ![c] = r], f)
<1>1. r.peer = "free" => r.fd = NoFd
  BY DEF ConnOK
<1> DEFINE cn2 == [cn EXCEPT ![c] = r]
<1>2. ConnOK(cn2) /\ cn2[c] = r /\ \A d \in Conns : d # c => cn2[d] = cn[d]
  BY <1>1, OneConn
<1> HIDE DEF cn2
<1> QED BY <1>2 DEF Moves, cn2

\* The fields of a connection.
LEMMA ConnTypes ==
    ASSUME NEW r \in Connections
    PROVE  /\ r.peer \in {"free", "connecting", "open", "closed", "aborted"}
           /\ r.id \in Ids \cup {NoId} /\ r.fd \in Fds \cup {NoFd}
           /\ r.inbox \in Seq(Commands \cup {IdMsg})
           /\ r.unread \in 0 .. SockBuf /\ r.err \in {"none", "reset", "pipe"}
BY DEF Connections

\* Setting .unread gives a connection and leaves its other fields alone.
LEMMA SetUnread ==
    ASSUME NEW r \in Connections, NEW u \in 0 .. SockBuf
    PROVE  [r EXCEPT !.unread = u] \in Connections
           /\ [r EXCEPT !.unread = u].peer = r.peer /\ [r EXCEPT !.unread = u].fd = r.fd
           /\ [r EXCEPT !.unread = u].inbox = r.inbox
BY DEF Connections

\* The same of .err.
LEMMA SetErr ==
    ASSUME NEW r \in Connections, NEW e \in {"none", "reset", "pipe"}
    PROVE  [r EXCEPT !.err = e] \in Connections
           /\ [r EXCEPT !.err = e].peer = r.peer /\ [r EXCEPT !.err = e].fd = r.fd
           /\ [r EXCEPT !.err = e].inbox = r.inbox
BY DEF Connections

\* The same of .inbox.
LEMMA SetInbox ==
    ASSUME NEW r \in Connections, NEW s \in Seq(Commands \cup {IdMsg})
    PROVE  [r EXCEPT !.inbox = s] \in Connections
           /\ [r EXCEPT !.inbox = s].peer = r.peer /\ [r EXCEPT !.inbox = s].fd = r.fd
           /\ [r EXCEPT !.inbox = s].inbox = s
BY DEF Connections

\* The same of .peer.
LEMMA SetPeer ==
    ASSUME NEW r \in Connections,
           NEW p \in {"free", "connecting", "open", "closed", "aborted"}
    PROVE  [r EXCEPT !.peer = p] \in Connections
           /\ [r EXCEPT !.peer = p].peer = p /\ [r EXCEPT !.peer = p].fd = r.fd
           /\ [r EXCEPT !.peer = p].inbox = r.inbox
BY DEF Connections

\* The same of .fd.
LEMMA SetFd ==
    ASSUME NEW r \in Connections, NEW fd \in Fds \cup {NoFd}
    PROVE  [r EXCEPT !.fd = fd] \in Connections
           /\ [r EXCEPT !.fd = fd].peer = r.peer /\ [r EXCEPT !.fd = fd].fd = fd
           /\ [r EXCEPT !.fd = fd].inbox = r.inbox
BY DEF Connections

\* send_tcp_msg takes nothing from what there is to read.
LEMMA SendMoves ==
    ASSUME ConnOK(conn), NEW fd, NEW result, send_tcp_msg(fd, result), NEW f
    PROVE  Moves(conn, conn', f) /\ KeepsFds(conn, conn')
<1>1. ASSUME NEW c \in Conns, NEW r \in Connections, conn' = [conn EXCEPT ![c] = r],
             r.peer = conn[c].peer, r.fd = conn[c].fd, r.inbox = conn[c].inbox
      PROVE  Moves(conn, conn', f) /\ KeepsFds(conn, conn')
  <2>1. CanRead(conn[c]) => CanRead(r)
    BY <1>1 DEF CanRead
  <2>2. Moves(conn, [conn EXCEPT ![c] = r], f)
    <3>1. /\ r.fd \in {conn[c].fd, NoFd}
          /\ r.peer = "free" => conn[c].peer = "free" /\ r.fd = conn[c].fd
          /\ conn[c].fd # f => r.fd = conn[c].fd /\ (CanRead(conn[c]) => CanRead(r))
      BY <1>1, <2>1
    <3> QED BY <3>1, OneMoves
  <2>3. KeepsFds(conn, conn')
    BY <1>1 DEF KeepsFds, ConnOK
  <2> QED BY <1>1, <2>2, <2>3
<1>2. ASSUME NEW c \in Conns, conn[c].unread < SockBuf,
             conn' = [conn EXCEPT ![c].unread = @ + 1]
      PROVE  Moves(conn, conn', f) /\ KeepsFds(conn, conn')
  <2> DEFINE u == conn[c].unread + 1
             r == [conn[c] EXCEPT !.unread = u]
  <2>1. conn[c] \in Connections
    BY DEF ConnOK
  <2>2. u \in 0 .. SockBuf
    BY <1>2, <2>1, ConnTypes, BoundsAssumption
  <2> HIDE DEF u
  <2>3. r \in Connections /\ r.peer = conn[c].peer /\ r.fd = conn[c].fd
        /\ r.inbox = conn[c].inbox
    BY <2>1, <2>2, SetUnread
  <2>4. conn' = [conn EXCEPT ![c] = r]
    BY <1>2 DEF u
  <2> HIDE DEF r
  <2> QED BY <1>1, <2>3, <2>4
<1>3. ASSUME NEW c \in Conns, NEW e \in {"none", "reset", "pipe"},
             conn' = [conn EXCEPT ![c].err = e]
      PROVE  Moves(conn, conn', f) /\ KeepsFds(conn, conn')
  <2> DEFINE r == [conn[c] EXCEPT !.err = e]
  <2>1. r \in Connections /\ r.peer = conn[c].peer /\ r.fd = conn[c].fd
        /\ r.inbox = conn[c].inbox
    BY SetErr DEF ConnOK
  <2>2. conn' = [conn EXCEPT ![c] = r]
    BY <1>3
  <2> HIDE DEF r
  <2> QED BY <1>1, <2>1, <2>2
<1>4. CASE conn' = conn
  BY <1>4 DEF Moves, KeepsFds
<1> QED BY <1>2, <1>3, <1>4 DEF send_tcp_msg, ConnsOf

\* The first message of a connection behind f is read.
LEMMA ReceiveMoves ==
    ASSUME NEW cn, ConnOK(cn), NEW c \in Conns, NEW s \in Seq(Commands \cup {IdMsg})
    PROVE  /\ Moves(cn, [cn EXCEPT ![c].inbox = s], cn[c].fd)
           /\ KeepsFds(cn, [cn EXCEPT ![c].inbox = s])
<1> DEFINE r == [cn[c] EXCEPT !.inbox = s]
<1>1. r \in Connections /\ r.peer = cn[c].peer /\ r.fd = cn[c].fd
  BY SetInbox DEF ConnOK
<1>2. [cn EXCEPT ![c].inbox = s] = [cn EXCEPT ![c] = r]
  OBVIOUS
<1> HIDE DEF r
<1>3. Moves(cn, [cn EXCEPT ![c] = r], cn[c].fd)
  BY <1>1, OneMoves
<1>4. KeepsFds(cn, [cn EXCEPT ![c] = r])
  BY <1>1 DEF KeepsFds, ConnOK
<1> QED BY <1>2, <1>3, <1>4

\* A descriptor is closed.
LEMMA CloseMoves ==
    ASSUME ConnOK(conn), NEW f
    PROVE  Moves(conn, ClosedFd(f), f)
<1> DEFINE cn2 == ClosedFd(f)
           r(c) == [conn[c] EXCEPT !.fd = NoFd, !.err = "none"]
<1>1. \A c \in Conns : conn[c] \in Connections
  BY DEF ConnOK
<1>2. \A c \in Conns : /\ r(c) \in Connections /\ r(c).fd = NoFd
                       /\ r(c).peer = conn[c].peer
  BY <1>1 DEF Connections
<1>3. \A c \in Conns : cn2[c] = IF conn[c].fd = f THEN r(c) ELSE conn[c]
  BY DEF ClosedFd
<1>4. cn2 = [c \in Conns |-> cn2[c]]
  BY DEF ClosedFd
<1> HIDE DEF cn2, r
<1>5. \A c \in Conns : cn2[c] \in Connections
  BY <1>1, <1>2, <1>3
<1>6. cn2 \in [Conns -> Connections]
  BY <1>4, <1>5
<1> QED BY <1>2, <1>3, <1>6 DEF Moves, ConnOK, cn2

-----------------------------------------------------------------------------
(* How a round goes on. *)

\* process_ready_fds takes the next reported entry of vec, or the round is over.
LEMMA Onward ==
    ASSUME NEW vec, NEW n \in Nat, n > 1, ContinueAt(vec, n),
           ConnOK(conn'), BacklogOK(backlog', conn'), VecOK(vec, conn'),
           todo' = Reported(vec, n),
           \A fd \in todo' : Ready(UdpIn(vec), conn', udpq', backlog', stdin', fd)
    PROVE  SInv'
<1> DEFINE rest == ReportedFrom(vec, n)
<1>1. vec \in Seq(Entries) /\ Len(vec) \in Nat /\ DOMAIN vec = 1 .. Len(vec)
      /\ \A m \in DOMAIN vec : vec[m] \in Entries
  BY VecTypes DEF VecOK
<1>2. CASE rest # {}
  <2>1. /\ pc' = "process_ready_fds" /\ pfds' = vec
        /\ iter' \in rest /\ \A l \in rest : iter' <= l
    BY <1>2 DEF ContinueAt
  <2>2. iter' \in Nat /\ iter' >= n /\ iter' \in n .. Len(vec)
    BY <2>1, <1>1 DEF ReportedFrom
  <2>3. \A m : m \in rest <=> m \in ReportedFrom(vec, iter')
    BY <2>1, <2>2, <1>1 DEF ReportedFrom
  <2>4. Reported(vec, iter') = Reported(vec, n) /\ iter' \in ReportedFrom(vec, iter')
    BY <2>1, <2>3 DEF Reported
  <2>5. From' = iter'
    BY <2>1 DEF From
  <2>6. RoundOK'
    BY <2>1, <2>2, <2>4, <2>5 DEF RoundOK
  <2>7. WaitOK'
    BY <2>1 DEF WaitOK
  <2> QED BY <2>6, <2>7 DEF SInv
<1>3. CASE rest = {}
  <2> DEFINE w == [m \in DOMAIN vec |-> Entry(vec[m].fd, FALSE)]
  <2>1. pc' = "wait_for_ready_fds" /\ pfds' = w
    BY <1>3 DEF ContinueAt
  <2>2. \A m \in DOMAIN vec : Entry(vec[m].fd, FALSE) \in Entries
    BY <1>1, EntryTypes DEF Entry, Entries
  <2>3. w \in Seq(Entries) /\ Len(w) = Len(vec)
    <3>1. w \in [1 .. Len(vec) -> Entries]
      BY <1>1, <2>2
    <3> HIDE DEF w
    <3> QED BY <1>1, <3>1, SeqDef, LenProperties
  <2>4. \A m \in DOMAIN vec : w[m].fd = vec[m].fd
    BY DEF Entry
  <2> HIDE DEF w
  <2>5. VecOK(w, conn')
    BY <2>3, <2>4, SameFds
  <2>6. todo' = {}
    BY <1>3 DEF Reported
  <2>7. WaitOK' /\ RoundOK'
    BY <2>1, <2>5, <2>6 DEF WaitOK, RoundOK, InRound
  <2> QED BY <2>7 DEF SInv
<1> QED BY <1>2, <1>3

\* The same behind the entry of the handler, with or without a loop over the clients.
LEMMA Behind ==
    ASSUME NEW n, NEW t, ContinueAt(pfds, iter + 1) \/ TransmitFrom(n, t),
           iter \in Nat, iter > 1,
           ConnOK(conn'), BacklogOK(backlog', conn'), VecOK(pfds, conn'),
           todo' = Reported(pfds, iter + 1),
           \A fd \in todo' : Ready(UdpIn(pfds), conn', udpq', backlog', stdin', fd)
    PROVE  SInv'
<1>1. CASE ContinueAt(pfds, iter + 1)
  BY <1>1, Onward
<1>2. CASE pc' = "transmit" /\ UNCHANGED <<pfds, iter>>
  <2>1. From' = iter + 1
    BY <1>2 DEF From
  <2>2. RoundOK'
    BY <1>2, <2>1 DEF RoundOK
  <2>3. WaitOK'
    BY <1>2 DEF WaitOK
  <2> QED BY <2>2, <2>3 DEF SInv
<1> QED BY <1>1, <1>2 DEF TransmitFrom

\* Nothing more is asked of a server that gives up.
LEMMA Stops ==
    ASSUME pc' \in {"free_server", "done", "killed"},
           ConnOK(conn'), BacklogOK(backlog', conn')
    PROVE  SInv'
BY DEF SInv, RoundOK, WaitOK, InRound

\* A handler is done with its entry, which stays or goes.
LEMMA HandlerDone ==
    ASSUME SInv, pc = "process_ready_fds", Handled(pfds[iter].fd),
           Moves(conn, conn', pfds[iter].fd), BacklogOK(backlog', conn'),
           pfds[iter].fd # UDP => udpq' = udpq,
           pfds[iter].fd # LISTENER => backlog' = backlog,
           stdin' = stdin,
           NEW n, NEW t,
           \/ /\ KeepsFds(conn, conn')
              /\ ContinueAt(pfds, iter + 1) \/ TransmitFrom(n, t)
           \/ DropEntry
    PROVE  SInv'
<1> DEFINE f == pfds[iter].fd
           w == RemoveAt(pfds, iter)
<1>1. /\ VecOK(pfds, conn) /\ iter \in Nat /\ iter > 1 /\ iter \in ReportedFrom(pfds, iter)
      /\ todo = Reported(pfds, iter)
      /\ \A fd \in todo : Ready(UdpIn(pfds), conn, udpq, backlog, stdin, fd)
  BY DEF SInv, RoundOK, InRound, From
<1>2. todo' = Reported(pfds, iter + 1) /\ todo' \subseteq todo /\ f \notin todo'
      /\ iter \in DOMAIN pfds
  BY <1>1, ReportedRest DEF Handled
<1>3. iter \in 2 .. Len(pfds) /\ pfds \in Seq(Entries)
  BY <1>1, <1>2, VecTypes DEF VecOK
<1>4. ConnOK(conn')
  BY DEF Moves
<1>5. ASSUME NEW fd \in todo', NEW u, UdpIn(pfds) /\ f # UDP => u
      PROVE  Ready(u, conn', udpq', backlog', stdin', fd)
  <2>1. fd # f /\ Ready(UdpIn(pfds), conn, udpq, backlog, stdin, fd)
    BY <1>1, <1>2
  <2> QED BY <1>5, <2>1, ReadyStays
<1>6. CASE KeepsFds(conn, conn') /\ (ContinueAt(pfds, iter + 1) \/ TransmitFrom(n, t))
  <2>1. VecOK(pfds, conn')
    BY <1>1, <1>6, SameVec DEF KeepsFds
  <2>2. \A fd \in todo' : Ready(UdpIn(pfds), conn', udpq', backlog', stdin', fd)
    BY <1>5
  <2> QED BY <1>1, <1>2, <1>4, <1>6, <2>1, <2>2, Behind
<1>7. CASE DropEntry
  <2>1. \A c \in Conns : conn[c].fd \notin {NoFd, f} => conn'[c].fd = conn[c].fd
    BY DEF Moves
  <2>2. VecOK(w, conn') /\ (UdpIn(pfds) /\ f # UDP => UdpIn(w))
    BY <1>1, <1>3, <2>1, VecDrops
  <2>3. todo' = Reported(w, iter)
    BY <1>2, <1>3, ReportedBehind
  <2>4. \A fd \in todo' : Ready(UdpIn(w), conn', udpq', backlog', stdin', fd)
    BY <1>5, <2>2
  <2>5. ContinueAt(w, iter)
    BY <1>7 DEF DropEntry, poll_vec_remove_fd
  <2> HIDE DEF w
  <2> QED BY <1>1, <1>4, <2>2, <2>3, <2>4, <2>5, Onward
<1> QED BY <1>6, <1>7

-----------------------------------------------------------------------------
(* The subscribers, the publishers and the operator only add to what there is to read. *)

\* A step that leaves the connections alone moves nothing.
LEMMA MovesRefl ==
    ASSUME NEW cn, ConnOK(cn), NEW f
    PROVE  Moves(cn, cn, f) /\ KeepsFds(cn, cn)
BY DEF Moves, KeepsFds

\* The loop over the entries starts behind the stdin.
LEMMA TodoTypes ==
    ASSUME NEW vec, NEW cn, VecOK(vec, cn), NEW n \in Nat, n > 1, NEW fd \in Reported(vec, n)
    PROVE  fd # STDIN /\ fd # NoFd
<1>1. PICK m \in ReportedFrom(vec, n) : fd = vec[m].fd
  BY DEF Reported
<1>2. vec \in Seq(Entries) /\ Len(vec) \in Nat /\ DOMAIN vec = 1 .. Len(vec) /\ Len(vec) > 0
  BY VecTypes DEF VecOK
<1>3. m \in DOMAIN vec /\ m # 1 /\ 1 \in DOMAIN vec
  BY <1>2 DEF ReportedFrom
<1>4. vec[m] \in Entries
  BY <1>2, <1>3, VecTypes
<1> QED BY <1>1, <1>3, <1>4, EntryTypes DEF VecOK

\* What the invariant says of a place in the round stays true while the loop stays there.
LEMMA PlaceStays ==
    ASSUME SInv, pc \in InRound, Moves(conn, conn', NoFd), KeepsFds(conn, conn'),
           UNCHANGED todo,
           udpq # << >> => udpq' # << >>, backlog # << >> => backlog' # << >>,
           stdin # "nothing" => stdin' # "nothing"
    PROVE  /\ VecOK(pfds, conn') /\ ConnOK(conn')
           /\ \A fd \in todo : Ready(UdpIn(pfds), conn', udpq', backlog', stdin', fd)
<1>1. /\ VecOK(pfds, conn) /\ todo = Reported(pfds, From) /\ From \in Nat /\ From > 1
      /\ \A fd \in todo : Ready(UdpIn(pfds), conn, udpq, backlog, stdin, fd)
  BY DEF SInv, RoundOK, From, InRound
<1>2. \A fd \in todo : fd # NoFd
  BY <1>1, TodoTypes
<1>3. VecOK(pfds, conn')
  BY <1>1, SameVec DEF KeepsFds
<1>4. ASSUME NEW fd \in todo
      PROVE  Ready(UdpIn(pfds), conn', udpq', backlog', stdin', fd)
  <2>1. fd # NoFd /\ Ready(UdpIn(pfds), conn, udpq, backlog, stdin, fd)
    BY <1>1, <1>2
  <2> QED BY <2>1, ReadyStays
<1> QED BY <1>3, <1>4 DEF Moves

\* A step of the others leaves the thread where it is and takes nothing from its inputs.
LEMMA EnvKeeps ==
    ASSUME SInv, UNCHANGED <<pc, pfds, iter, todo>>,
           Moves(conn, conn', NoFd), KeepsFds(conn, conn'), BacklogOK(backlog', conn'),
           udpq # << >> => udpq' # << >>, backlog # << >> => backlog' # << >>,
           stdin # "nothing" => stdin' # "nothing"
    PROVE  SInv'
<1>1. From' = From
  BY DEF From
<1>2. CASE pc \in InRound
  <2>1. /\ VecOK(pfds, conn') /\ ConnOK(conn')
        /\ \A fd \in todo : Ready(UdpIn(pfds), conn', udpq', backlog', stdin', fd)
    BY <1>2, PlaceStays
  <2>2. RoundOK'
    BY <1>1, <1>2, <2>1 DEF SInv, RoundOK
  <2>3. WaitOK'
    BY <1>2 DEF WaitOK, InRound
  <2> QED BY <2>1, <2>2, <2>3 DEF SInv
<1>3. CASE pc \notin InRound
  <2>1. RoundOK'
    BY <1>3 DEF RoundOK
  <2>2. WaitOK'
    BY SameVec DEF SInv, WaitOK, KeepsFds
  <2> QED BY <2>1, <2>2 DEF SInv, Moves
<1> QED BY <1>2, <1>3

\* One connection changes and nothing else.
LEMMA EnvConn ==
    ASSUME SInv, UNCHANGED <<pc, pfds, iter, todo, backlog, udpq, stdin>>,
           NEW c \in Conns, NEW r \in Connections, conn' = [conn EXCEPT ![c] = r],
           r.fd = conn[c].fd, r.peer # "free", CanRead(conn[c]) => CanRead(r)
    PROVE  SInv'
<1>1. Moves(conn, [conn EXCEPT ![c] = r], NoFd)
  <2>1. ConnOK(conn)
    BY DEF SInv
  <2>2. /\ r.fd \in {conn[c].fd, NoFd}
        /\ r.peer = "free" => conn[c].peer = "free" /\ r.fd = conn[c].fd
        /\ conn[c].fd # NoFd => r.fd = conn[c].fd /\ (CanRead(conn[c]) => CanRead(r))
    OBVIOUS
  <2> QED BY <2>1, <2>2, OneMoves
<1>2. KeepsFds(conn, conn')
  BY DEF KeepsFds, SInv, ConnOK
<1>3. BacklogOK(backlog', conn')
  BY <1>1, BacklogStays DEF SInv
<1> QED BY <1>1, <1>2, <1>3, EnvKeeps

\* A subscriber connects: its connection joins the backlog.
LEMMA ConnectKeeps ==
    ASSUME SInv, NEW c \in Conns, NEW id \in Ids, External(Connect(c, id))
    PROVE  SInv'
<1> DEFINE r == [conn[c] EXCEPT !.peer = "connecting", !.id = id]
<1>1. conn[c] \in Connections /\ conn[c].peer = "free" /\ conn[c].fd = NoFd
  BY DEF SInv, ConnOK, External, Connect
<1>2. r \in Connections /\ r.fd = NoFd /\ r.peer = "connecting"
  BY <1>1 DEF Connections
<1>3. conn' = [conn EXCEPT ![c] = r]
  BY DEF External, Connect
<1> HIDE DEF r
<1>4. Moves(conn, [conn EXCEPT ![c] = r], NoFd)
  BY <1>1, <1>2, OneMoves DEF SInv
<1>5. KeepsFds(conn, conn')
  BY <1>1, <1>2, <1>3 DEF KeepsFds, SInv, ConnOK
<1>6. BacklogOK(backlog', conn') /\ backlog' # << >>
  <2>1. BacklogOK(backlog, conn') /\ backlog \in Seq(Conns) /\ Len(backlog) \in Nat
        /\ DOMAIN backlog = 1 .. Len(backlog)
    <3>1. BacklogOK(backlog, conn)
      BY DEF SInv
    <3>2. BacklogOK(backlog, conn')
      BY <1>3, <1>4, <3>1, BacklogStays
    <3>3. backlog \in Seq(Conns)
      BY <3>1 DEF BacklogOK
    <3> QED BY <3>2, <3>3, LenProperties
  <2>2. \A n \in DOMAIN backlog : backlog[n] # c
    BY <1>1 DEF SInv, BacklogOK
  <2>3. backlog' = Append(backlog, c)
    BY DEF External, Connect
  <2>4. Distinct(backlog')
    BY <2>1, <2>2, <2>3, DistinctAppend DEF BacklogOK
  <2>5. backlog' \in Seq(Conns) /\ Len(backlog') = Len(backlog) + 1
        /\ (\A n \in DOMAIN backlog : backlog'[n] = backlog[n])
        /\ backlog'[Len(backlog) + 1] = c /\ DOMAIN backlog' = 1 .. Len(backlog) + 1
    BY <2>1, <2>3, AppendProperties, LenProperties
  <2>6. conn'[c].fd = NoFd /\ conn'[c].peer # "free"
    BY <1>2, <1>3 DEF SInv, ConnOK
  <2>7. \A n \in DOMAIN backlog' : n \in DOMAIN backlog \/ backlog'[n] = c
    BY <2>1, <2>5
  <2>8. backlog' # << >>
    BY <2>1, <2>5
  <2> QED BY <2>1, <2>4, <2>5, <2>6, <2>7, <2>8 DEF BacklogOK
<1>7. UNCHANGED <<pc, pfds, iter, todo, udpq, stdin>>
  BY DEF External, Connect, serverVars, history
<1> QED BY <1>3, <1>4, <1>5, <1>6, <1>7, EnvKeeps

\* A subscriber sends, reads, notices the end, or goes away.
LEMMA SubscriberKeeps ==
    ASSUME SInv, NEW c \in Conns,
           \/ External(SendId(c)) \/ External(SendCommand(c))
           \/ External(ReadMessage(c)) \/ External(ReadEnd(c)) \/ External(Exit(c))
    PROVE  SInv'
<1>1. UNCHANGED <<pc, pfds, iter, todo, backlog, udpq, stdin>>
  BY DEF External, serverVars, history, SendId, SendCommand, ReadMessage, ReadEnd, Exit
<1>2. conn[c] \in Connections
  BY DEF SInv, ConnOK
<1>3. ASSUME NEW m \in Commands \cup {IdMsg}
      PROVE  /\ Append(conn[c].inbox, m) \in Seq(Commands \cup {IdMsg})
             /\ Append(conn[c].inbox, m) # << >>
  <2>1. conn[c].inbox \in Seq(Commands \cup {IdMsg})
    BY <1>2, ConnTypes
  <2> QED BY <2>1, AppendProperties, LenProperties
<1>4. CASE External(SendId(c))
  <2> DEFINE s == Append(conn[c].inbox, IdMsg)
             r == [conn[c] EXCEPT !.peer = "open", !.inbox = s]
  <2>1. s \in Seq(Commands \cup {IdMsg}) /\ s # << >>
    BY <1>3
  <2>2. conn' = [conn EXCEPT ![c] = r]
    BY <1>4 DEF External, SendId
  <2> HIDE DEF s
  <2>3. r \in Connections /\ r.fd = conn[c].fd /\ r.peer = "open" /\ r.inbox = s
    BY <1>2, <2>1 DEF Connections
  <2> HIDE DEF r
  <2>4. CanRead(r)
    BY <2>1, <2>3 DEF CanRead
  <2> QED BY <1>1, <2>2, <2>3, <2>4, EnvConn
<1>5. CASE External(SendCommand(c))
  <2>1. conn[c].peer = "open"
    BY <1>5 DEF External, SendCommand
  <2>2. PICK m \in Commands : conn' = [conn EXCEPT ![c].inbox = Append(@, m)]
    BY <1>5 DEF External, SendCommand
  <2> DEFINE s == Append(conn[c].inbox, m)
             r == [conn[c] EXCEPT !.inbox = s]
  <2>3. s \in Seq(Commands \cup {IdMsg}) /\ s # << >>
    BY <1>3
  <2>4. conn' = [conn EXCEPT ![c] = r]
    BY <2>2
  <2> HIDE DEF s
  <2>5. r \in Connections /\ r.fd = conn[c].fd /\ r.peer = "open" /\ r.inbox = s
    BY <1>2, <2>1, <2>3, SetInbox
  <2> HIDE DEF r
  <2>6. CanRead(r)
    BY <2>3, <2>5 DEF CanRead
  <2> QED BY <1>1, <2>4, <2>5, <2>6, EnvConn
<1>6. CASE External(ReadMessage(c))
  <2> DEFINE u == conn[c].unread - 1
             r == [conn[c] EXCEPT !.unread = u]
  <2>1. conn[c].peer = "open" /\ conn[c].unread > 0
    BY <1>6 DEF External, ReadMessage
  <2>2. u \in 0 .. SockBuf
    BY <1>2, <2>1, ConnTypes, BoundsAssumption
  <2>3. conn' = [conn EXCEPT ![c] = r]
    BY <1>6 DEF External, ReadMessage
  <2> HIDE DEF u
  <2>4. r \in Connections /\ r.fd = conn[c].fd /\ r.peer = "open"
        /\ r.inbox = conn[c].inbox
    BY <1>2, <2>1, <2>2, SetUnread
  <2> HIDE DEF r
  <2>5. CanRead(conn[c]) => CanRead(r)
    BY <2>1, <2>4 DEF CanRead
  <2> QED BY <1>1, <2>3, <2>4, <2>5, EnvConn
<1>7. ASSUME conn' = [conn EXCEPT ![c].peer = "closed"]
      PROVE  SInv'
  <2> DEFINE r == [conn[c] EXCEPT !.peer = "closed"]
  <2>1. r \in Connections /\ r.fd = conn[c].fd /\ r.peer = "closed"
    BY <1>2, SetPeer
  <2>2. conn' = [conn EXCEPT ![c] = r]
    BY <1>7
  <2> HIDE DEF r
  <2>3. CanRead(r)
    BY <2>1 DEF CanRead
  <2> QED BY <1>1, <2>1, <2>2, <2>3, EnvConn
<1>8. CASE External(ReadEnd(c))
  BY <1>7, <1>8 DEF External, ReadEnd
<1>9. ASSUME NEW e \in {"none", "reset"},
             conn' = [conn EXCEPT ![c].peer = "aborted", ![c].unread = 0, ![c].err = e]
      PROVE  SInv'
  <2> DEFINE r == [conn[c] EXCEPT !.peer = "aborted", !.unread = 0, !.err = e]
  <2>1. 0 \in 0 .. SockBuf
    BY BoundsAssumption
  <2>2. r \in Connections /\ r.fd = conn[c].fd /\ r.peer = "aborted"
    BY <1>2, <2>1 DEF Connections
  <2>3. conn' = [conn EXCEPT ![c] = r]
    BY <1>9
  <2> HIDE DEF r
  <2>4. CanRead(r)
    BY <2>2 DEF CanRead
  <2> QED BY <1>1, <2>2, <2>3, <2>4, EnvConn
<1>10. CASE External(Exit(c))
  BY <1>7, <1>9, <1>10 DEF External, Exit
<1> QED BY <1>4, <1>5, <1>6, <1>8, <1>10

\* A datagram arrives, or the operator types a line.
LEMMA InputKeeps ==
    ASSUME SInv, \/ \E d \in Datagrams : External(Publish(d))
                 \/ \E line \in Lines : External(TypeLine(line))
    PROVE  SInv'
<1>1. ConnOK(conn) /\ BacklogOK(backlog, conn)
  BY DEF SInv
<1>2. UNCHANGED <<pc, pfds, iter, todo, conn, backlog>>
  BY DEF External, serverVars, history, Publish, TypeLine
<1>3. stdin # "nothing" => stdin' # "nothing"
  BY DEF External, Publish, TypeLine
<1>4. udpq # << >> => udpq' # << >>
  BY DEF External, Publish, TypeLine
<1> QED BY <1>1, <1>2, <1>3, <1>4, MovesRefl, EnvKeeps

-----------------------------------------------------------------------------
(* The main loop. *)

\* The poll reports what is readable and starts the round.
LEMMA PollKeeps ==
    ASSUME SInv, wait_for_ready_fds
    PROVE  SInv'
<1> DEFINE w == [n \in DOMAIN pfds |-> Entry(pfds[n].fd, ReadableFd(pfds[n].fd))]
<1>1. /\ VecOK(pfds, conn) /\ ConnOK(conn) /\ BacklogOK(backlog, conn)
      /\ UNCHANGED <<conn, backlog, udpq, stdin>>
  BY DEF wait_for_ready_fds, Now, SInv, WaitOK, netVars
<1>2. /\ todo' = Reported(w, 2)
      /\ \/ pc' = "check_if_exit" /\ pfds' = w
         \/ ContinueAt(w, 2)
  BY DEF wait_for_ready_fds, Reported
<1>3. \A n \in DOMAIN pfds : w[n].fd = pfds[n].fd /\ (w[n].pollin <=> ReadableFd(pfds[n].fd))
  BY DEF Entry
<1>4. w \in Seq(Entries) /\ Len(w) = Len(pfds) /\ DOMAIN w = DOMAIN pfds
  <2>1. /\ Len(pfds) \in Nat /\ DOMAIN pfds = 1 .. Len(pfds)
        /\ \A n \in DOMAIN pfds : pfds[n] \in Entries
    BY <1>1, VecTypes DEF VecOK
  <2>2. \A fd : ReadableFd(fd) \in BOOLEAN
    BY DEF ReadableFd
  <2>3. \A n \in DOMAIN pfds : Entry(pfds[n].fd, ReadableFd(pfds[n].fd)) \in Entries
    BY <2>1, <2>2, EntryTypes DEF Entry, Entries
  <2>4. w \in [1 .. Len(pfds) -> Entries]
    BY <2>1, <2>3
  <2>5. DOMAIN w = DOMAIN pfds
    OBVIOUS
  <2> HIDE DEF w
  <2> QED BY <2>1, <2>4, <2>5, SeqDef, LenProperties
<1> HIDE DEF w
<1>5. VecOK(w, conn) /\ (UdpIn(w) <=> UdpIn(pfds))
  BY <1>1, <1>3, <1>4, SameFds
<1>6. ASSUME NEW fd \in todo'
      PROVE  Ready(UdpIn(w), conn', udpq', backlog', stdin', fd)
  <2>1. PICK m \in ReportedFrom(w, 2) : fd = w[m].fd
    BY <1>2 DEF Reported
  <2>2. m \in DOMAIN pfds /\ w[m].pollin
    BY <1>4, VecTypes DEF ReportedFrom
  <2>3. ReadableFd(fd)
    BY <1>3, <2>1, <2>2
  <2> QED BY <1>1, <1>5, <2>3
          DEF ReadableFd, Ready, UdpOpen, UdpIn, ConnsOf, Readable, CanRead, PeerGone
<1>7. CASE pc' = "check_if_exit" /\ pfds' = w
  <2>1. From' = 2
    BY <1>7 DEF From
  <2>2. RoundOK'
    BY <1>1, <1>2, <1>5, <1>6, <1>7, <2>1 DEF RoundOK
  <2>3. WaitOK'
    BY <1>7 DEF WaitOK
  <2> QED BY <1>1, <2>2, <2>3 DEF SInv
<1>8. CASE ContinueAt(w, 2)
  BY <1>1, <1>2, <1>5, <1>6, <1>8, Onward
<1> QED BY <1>2, <1>7, <1>8

\* A failing poll ends the loop.
LEMMA PollFailKeeps ==
    ASSUME SInv, poll_fails
    PROVE  SInv'
<1>1. pc' = "free_server" /\ UNCHANGED <<conn, backlog>>
  BY DEF poll_fails, Fail, netVars
<1> QED BY <1>1, Stops DEF SInv

\* The stdin is the first entry, which the loop over the others never reaches.
LEMMA ExitKeeps ==
    ASSUME SInv, check_if_exit
    PROVE  SInv'
<1>1. /\ VecOK(pfds, conn) /\ ConnOK(conn) /\ BacklogOK(backlog, conn)
      /\ todo = Reported(pfds, 2)
      /\ \A fd \in todo : Ready(UdpIn(pfds), conn, udpq, backlog, stdin, fd)
  BY DEF check_if_exit, Now, SInv, RoundOK, InRound, From
<1>2. UNCHANGED <<conn, backlog, udpq, todo>>
  BY DEF check_if_exit, history
<1>3. \A fd \in todo : fd # STDIN
  BY <1>1, TodoTypes
<1>4. CASE Fail
  BY <1>1, <1>2, <1>4, Stops DEF Fail
<1>5. CASE ContinueAt(pfds, 2)
  <2>1. \A fd \in todo' : Ready(UdpIn(pfds), conn', udpq', backlog', stdin', fd)
    BY <1>1, <1>2, <1>3 DEF Ready
  <2> QED BY <1>1, <1>2, <1>5, <2>1, Onward
<1> QED BY <1>4, <1>5 DEF check_if_exit

\* Nothing is left of a server that ended.
LEMMA GoneKeeps ==
    ASSUME SInv, free_server \/ Gone("killed")
    PROVE  SInv'
<1>1. pc' \in {"done", "killed"} /\ conn' = AllClosed /\ backlog' = << >>
  BY DEF free_server, Gone
<1>2. ConnOK(conn')
  <2> DEFINE r(c) == [conn[c] EXCEPT !.fd = NoFd]
  <2>1. \A c \in Conns : r(c) \in Connections /\ r(c).fd = NoFd
    BY SetFd DEF SInv, ConnOK
  <2>2. conn' = [c \in Conns |-> r(c)]
    BY <1>1 DEF AllClosed
  <2> HIDE DEF r
  <2> QED BY <2>1, <2>2 DEF ConnOK
<1>3. BacklogOK(backlog', conn')
  BY <1>1, EmptySeq DEF BacklogOK, Distinct
<1> QED BY <1>1, <1>2, <1>3, Stops

-----------------------------------------------------------------------------
(* The datagrams. *)

\* recv_udp_message takes one datagram.
LEMMA DatagramKeeps ==
    ASSUME SInv, recv_udp_message
    PROVE  SInv'
<1>1. /\ pc = "process_ready_fds" /\ pfds[iter].fd = UDP /\ Handled(pfds[iter].fd)
      /\ UNCHANGED <<conn, backlog, stdin>>
  BY DEF recv_udp_message, AtEntry, Now
<1>2. /\ Moves(conn, conn', pfds[iter].fd) /\ KeepsFds(conn, conn')
      /\ BacklogOK(backlog', conn') /\ ConnOK(conn')
  BY <1>1, MovesRefl DEF SInv
<1>3. (\E t \in TopicsInBuf : TransmitFrom(1, t)) \/ Fail \/ DropEntry
  BY DEF recv_udp_message, AddMessage, RefuseMessage
<1>4. CASE Fail
  BY <1>2, <1>4, Stops DEF Fail
<1>5. CASE \E t \in TopicsInBuf : TransmitFrom(1, t)
  BY <1>1, <1>2, <1>5, HandlerDone
<1>6. CASE DropEntry
  BY <1>1, <1>2, <1>6, HandlerDone
<1> QED BY <1>3, <1>4, <1>5, <1>6

\* The handler of datagrams reads a connection that got the number of the UDP socket.
LEMMA StrayKeeps ==
    ASSUME SInv, recv_udp_from_client
    PROVE  SInv'
<1>1. /\ pc = "process_ready_fds" /\ pfds[iter].fd = UDP /\ Handled(pfds[iter].fd)
      /\ UNCHANGED <<backlog, stdin>> /\ ConnOK(conn)
  BY DEF recv_udp_from_client, AtEntry, Now, SInv
<1>2. ASSUME Moves(conn, conn', UDP), NEW n, NEW t,
             \/ KeepsFds(conn, conn') /\ TransmitFrom(n, t)
             \/ KeepsFds(conn, conn') /\ Fail
             \/ DropEntry
      PROVE  SInv'
  <2>1. BacklogOK(backlog', conn') /\ ConnOK(conn')
    BY <1>1, <1>2, BacklogStays DEF SInv, Moves
  <2>2. CASE Fail
    BY <2>1, <2>2, Stops DEF Fail
  <2>3. CASE (KeepsFds(conn, conn') /\ TransmitFrom(n, t)) \/ DropEntry
    BY <1>1, <1>2, <2>1, <2>3, HandlerDone
  <2> QED BY <1>2, <2>2, <2>3
<1>3. PICK c \in ConnsOf(UDP) :
        \/ /\ \/ conn[c].inbox # << >> /\ \E n \in 1 .. Len(conn[c].inbox) :
                    conn' = [conn EXCEPT ![c].inbox = SubSeq(@, n + 1, Len(@))]
              \/ conn' = [conn EXCEPT ![c].peer = "closed"]
           /\ (\E t \in {NoTopic} \cup Topics : AddMessage(t)) \/ RefuseMessage
        \/ conn' = ClosedFd(UDP) /\ DropEntry
  BY DEF recv_udp_from_client
<1>4. c \in Conns /\ conn[c].fd = UDP /\ conn[c] \in Connections
  BY <1>1, <1>3 DEF ConnsOf, ConnOK
<1>5. CASE conn' = ClosedFd(UDP) /\ DropEntry
  BY <1>1, <1>2, <1>5, CloseMoves
<1>6. CASE /\ \/ conn[c].inbox # << >> /\ \E n \in 1 .. Len(conn[c].inbox) :
                    conn' = [conn EXCEPT ![c].inbox = SubSeq(@, n + 1, Len(@))]
              \/ conn' = [conn EXCEPT ![c].peer = "closed"]
           /\ (\E t \in {NoTopic} \cup Topics : AddMessage(t)) \/ RefuseMessage
  <2>1. conn[c].inbox \in Seq(Commands \cup {IdMsg})
    BY <1>4 DEF Connections
  <2>2. ASSUME NEW n \in 1 .. Len(conn[c].inbox),
               conn' = [conn EXCEPT ![c].inbox = SubSeq(@, n + 1, Len(@))]
        PROVE  Moves(conn, conn', UDP) /\ KeepsFds(conn, conn')
    <3> DEFINE s == SubSeq(conn[c].inbox, n + 1, Len(conn[c].inbox))
    <3>1. s \in Seq(Commands \cup {IdMsg})
      BY <2>1, LenProperties, SubSeqProperties
    <3>2. conn' = [conn EXCEPT ![c].inbox = s]
      BY <2>2
    <3> HIDE DEF s
    <3> QED BY <1>1, <1>4, <3>1, <3>2, ReceiveMoves
  <2>3. ASSUME conn' = [conn EXCEPT ![c].peer = "closed"]
        PROVE  Moves(conn, conn', UDP) /\ KeepsFds(conn, conn')
    <3> DEFINE r == [conn[c] EXCEPT !.peer = "closed"]
    <3>1. r \in Connections /\ r.fd = conn[c].fd /\ r.peer = "closed"
      BY <1>4, SetPeer
    <3>2. conn' = [conn EXCEPT ![c] = r]
      BY <2>3
    <3> HIDE DEF r
    <3>3. Moves(conn, conn', UDP)
      BY <1>1, <1>4, <3>1, <3>2, OneMoves
    <3>4. KeepsFds(conn, conn')
      BY <1>1, <1>4, <3>1, <3>2 DEF KeepsFds, ConnOK
    <3> QED BY <3>3, <3>4
  <2>4. Moves(conn, conn', UDP) /\ KeepsFds(conn, conn')
    BY <1>6, <2>2, <2>3
  <2>5. Fail \/ \E t \in {NoTopic} \cup Topics : TransmitFrom(1, t)
    BY <1>6 DEF AddMessage, RefuseMessage
  <2> QED BY <1>2, <2>4, <2>5
<1> QED BY <1>3, <1>5, <1>6

-----------------------------------------------------------------------------
(* The loops over the clients and over the stored messages. *)

\* An iteration of a loop inside a handler keeps its place in the round.
LEMMA LoopKeeps ==
    ASSUME SInv, pc \in {"transmit", "retransmit"},
           Moves(conn, conn', NoFd), KeepsFds(conn, conn'),
           UNCHANGED <<todo, backlog, udpq, stdin>>, NEW n, NEW t,
           \/ ContinueAt(pfds, iter + 1) \/ TransmitFrom(n, t)
           \/ UNCHANGED <<pc, pfds, iter>>
           \/ Fail
    PROVE  SInv'
<1>1. /\ iter \in Nat /\ iter > 1 /\ todo = Reported(pfds, iter + 1)
      /\ BacklogOK(backlog', conn')
  BY BacklogStays DEF SInv, RoundOK, InRound, From
<1>2. /\ VecOK(pfds, conn') /\ ConnOK(conn')
      /\ \A fd \in todo : Ready(UdpIn(pfds), conn', udpq', backlog', stdin', fd)
  BY PlaceStays DEF InRound
<1>3. CASE ContinueAt(pfds, iter + 1) \/ TransmitFrom(n, t)
  BY <1>1, <1>2, <1>3, Behind
<1>4. CASE UNCHANGED <<pc, pfds, iter>>
  BY <1>1, <1>4, EnvKeeps
<1>5. CASE Fail
  BY <1>1, <1>2, <1>5, Stops DEF Fail
<1> QED BY <1>3, <1>4, <1>5

\* transmit_topic_to_clients sends or stores.
LEMMA TransmitKeeps ==
    ASSUME SInv, transmit_send \/ transmit_store
    PROVE  SInv'
<1>1. pc = "transmit" /\ UNCHANGED <<todo, backlog, udpq, stdin>> /\ ConnOK(conn)
  BY DEF transmit_send, transmit_store, Now, netVars, history, SInv
<1>2. CASE transmit_send
  <2>1. PICK result \in {"OK", "FAILED"} : send_tcp_msg(clients[k].fd, result)
    BY <1>2 DEF transmit_send
  <2>2. Moves(conn, conn', NoFd) /\ KeepsFds(conn, conn')
    BY <1>1, <2>1, SendMoves
  <2>3. TransmitFrom(k + 1, Last(udp_msgs))
    BY <1>2 DEF transmit_send
  <2> QED BY <1>1, <2>2, <2>3, LoopKeeps
<1>3. CASE transmit_store
  <2>1. Moves(conn, conn', NoFd) /\ KeepsFds(conn, conn')
    BY <1>1, <1>3, MovesRefl DEF transmit_store, netVars
  <2>2. TransmitFrom(k + 1, Last(udp_msgs)) \/ Fail
    BY <1>3 DEF transmit_store
  <2> QED BY <1>1, <2>1, <2>2, LoopKeeps
<1> QED BY <1>2, <1>3

\* retransmit_topics_to_client sends what was stored.
LEMMA RetransmitKeeps ==
    ASSUME SInv, retransmit_send \/ retransmit_done \/ retransmit_dangling
    PROVE  SInv'
<1>1. pc = "retransmit" /\ ConnOK(conn)
  BY DEF retransmit_send, retransmit_done, retransmit_dangling, Now, SInv
<1>2. CASE retransmit_send
  <2>1. UNCHANGED <<todo, backlog, udpq, stdin>>
    BY <1>2 DEF retransmit_send
  <2>2. \E result : send_tcp_msg(newFd, result)
    BY <1>2 DEF retransmit_send
  <2>3. Moves(conn, conn', NoFd) /\ KeepsFds(conn, conn')
    BY <1>1, <2>2, SendMoves
  <2>4. UNCHANGED <<pc, pfds, iter>> \/ ContinueAt(pfds, iter + 1)
    BY <1>2 DEF retransmit_send, EndRetransmit
  <2> QED BY <1>1, <2>1, <2>3, <2>4, LoopKeeps
<1>3. ASSUME ContinueAt(pfds, iter + 1), UNCHANGED <<netVars, todo>>
      PROVE  SInv'
  <2>1. UNCHANGED <<conn, backlog, udpq, stdin>>
    BY <1>3 DEF netVars
  <2>2. Moves(conn, conn', NoFd) /\ KeepsFds(conn, conn')
    BY <1>1, <2>1, MovesRefl
  <2> QED BY <1>1, <1>3, <2>1, <2>2, LoopKeeps
<1>4. CASE retransmit_done
  BY <1>3, <1>4 DEF retransmit_done, EndRetransmit, history
<1>5. CASE retransmit_dangling
  BY <1>3, <1>5, GoneKeeps DEF retransmit_dangling, history
<1> QED BY <1>2, <1>4, <1>5

-----------------------------------------------------------------------------
(* The listener. *)

\* The descriptor accept returns is polled by no entry yet.
LEMMA FreshFd ==
    ASSUME VecOK(pfds, conn), NEW fd \in FreeFds
    PROVE  \A n \in DOMAIN pfds : pfds[n].fd # fd
<1>1. fd \in Fds /\ ~ HoldsFd(conn, fd) /\ ~ (fd = UDP /\ UdpIn(pfds))
  BY DEF FreeFds, ConnsOf, HoldsFd, UdpOpen, UdpIn
<1>2. fd # STDIN /\ fd # LISTENER
  BY <1>1, FdsAreNumbers
<1> QED BY <1>1, <1>2 DEF VecOK

\* The entry of the new connection is not reported in this round.
LEMMA VecGrows ==
    ASSUME NEW vec, NEW cn, VecOK(vec, cn), NEW fd \in Fds, HoldsFd(cn, fd),
           \A n \in DOMAIN vec : vec[n].fd # fd, NEW n \in Nat, n > 1, n \in DOMAIN vec
    PROVE  LET w == Append(vec, Entry(fd, FALSE)) IN
           /\ VecOK(w, cn) /\ (UdpIn(vec) => UdpIn(w))
           /\ Len(w) = Len(vec) + 1 /\ w[Len(w)].fd = fd /\ ~ w[Len(w)].pollin
           /\ Len(w) > n /\ Reported(w, n + 1) = Reported(vec, n + 1)
<1> DEFINE e == Entry(fd, FALSE)
           w == Append(vec, e)
           l == Len(vec)
<1>1. e \in Entries /\ e.fd = fd /\ ~ e.pollin
  BY DEF Entry, Entries
<1> HIDE DEF e
<1>2. vec \in Seq(Entries) /\ l \in Nat /\ DOMAIN vec = 1 .. l
  BY VecTypes DEF VecOK
<1>3. /\ w \in Seq(Entries) /\ Len(w) = l + 1 /\ w[l + 1] = e
      /\ \A m \in 1 .. l : w[m] = vec[m]
  BY <1>1, <1>2, AppendProperties
<1> HIDE DEF w
<1>4. DOMAIN w = 1 .. l + 1
  BY <1>3, VecTypes
<1>5. w[l + 1].fd = fd /\ ~ w[l + 1].pollin
  BY <1>1, <1>3
<1>6. \A m \in DOMAIN w : m \in DOMAIN vec \/ m = l + 1
  BY <1>2, <1>4
<1>7. l > 1 /\ n <= l /\ (UdpIn(vec) => UdpIn(w))
  BY <1>2, <1>3 DEF UdpIn
<1>8. \A m \in DOMAIN vec : w[m] = vec[m]
  BY <1>2, <1>3
<1>9. \A i, j \in DOMAIN w : w[i].fd = w[j].fd => i = j
  <2> TAKE i, j \in DOMAIN w
  <2>1. CASE i \in DOMAIN vec /\ j \in DOMAIN vec
    BY <2>1, <1>8 DEF VecOK
  <2>2. CASE i = l + 1 /\ j \in DOMAIN vec
    BY <2>2, <1>5, <1>8
  <2>3. CASE i \in DOMAIN vec /\ j = l + 1
    BY <2>3, <1>5, <1>8
  <2> QED BY <2>1, <2>2, <2>3, <1>6
<1>10. \A m \in DOMAIN w : \/ w[m].fd \in {STDIN, LISTENER}
                           \/ w[m].fd = UDP /\ UdpIn(w)
                           \/ HoldsFd(cn, w[m].fd)
  BY <1>5, <1>6, <1>7, <1>8 DEF VecOK
<1>11. Len(w) > 0 /\ w[1].fd = STDIN
  BY <1>2, <1>3, <1>7 DEF VecOK
<1>12. VecOK(w, cn)
  BY <1>3, <1>9, <1>10, <1>11 DEF VecOK
<1>13. Reported(w, n + 1) = Reported(vec, n + 1)
  <2>1. \A m : m \in ReportedFrom(w, n + 1) <=> m \in ReportedFrom(vec, n + 1)
    <3>1. ASSUME NEW m \in ReportedFrom(w, n + 1) PROVE m \in ReportedFrom(vec, n + 1)
      <4>1. m \in n + 1 .. l + 1 /\ w[m].pollin
        BY <1>3 DEF ReportedFrom
      <4>2. m # l + 1
        BY <4>1, <1>5
      <4>3. m \in n + 1 .. l /\ m \in 1 .. l
        BY <4>1, <4>2, <1>2
      <4> QED BY <4>1, <4>3, <1>3 DEF ReportedFrom
    <3>2. ASSUME NEW m \in ReportedFrom(vec, n + 1) PROVE m \in ReportedFrom(w, n + 1)
      <4>1. m \in n + 1 .. l /\ m \in 1 .. l /\ vec[m].pollin
        BY <1>2 DEF ReportedFrom
      <4> QED BY <4>1, <1>2, <1>3 DEF ReportedFrom
    <3> QED BY <3>1, <3>2
  <2>2. \A m \in ReportedFrom(vec, n + 1) : w[m] = vec[m]
    BY <1>2, <1>3 DEF ReportedFrom
  <2> QED BY <2>1, <2>2 DEF Reported
<1>14. /\ Len(w) = Len(vec) + 1 /\ w[Len(w)].fd = fd /\ ~ w[Len(w)].pollin
       /\ Len(w) > n
  BY <1>2, <1>3, <1>5, <1>7
<1> QED BY <1>7, <1>12, <1>13, <1>14 DEF w, e

\* The listener takes the first connection of the backlog.
LEMMA AcceptKeeps ==
    ASSUME SInv, accept_client
    PROVE  SInv'
<1>1. /\ pc = "process_ready_fds" /\ pfds[iter].fd = LISTENER /\ Handled(LISTENER)
      /\ backlog # << >> /\ UNCHANGED <<udpq, stdin>>
      /\ ConnOK(conn) /\ BacklogOK(backlog, conn)
  BY DEF accept_client, AtEntry, Now, SInv
<1>2. /\ VecOK(pfds, conn) /\ iter \in Nat /\ iter > 1 /\ iter \in ReportedFrom(pfds, iter)
      /\ todo = Reported(pfds, iter)
      /\ \A fd \in todo : Ready(UdpIn(pfds), conn, udpq, backlog, stdin, fd)
  BY <1>1 DEF SInv, RoundOK, InRound, From
<1>3. todo' = Reported(pfds, iter + 1) /\ todo' \subseteq todo /\ LISTENER \notin todo'
      /\ iter \in DOMAIN pfds
  BY <1>1, <1>2, ReportedRest DEF Handled
<1>4. CASE UNCHANGED <<conn, backlog>> /\ Fail
  BY <1>1, <1>4, Stops DEF Fail
<1>5. CASE \E fd \in FreeFds :
              /\ conn' = Accepted(Head(backlog), fd)
              /\ backlog' = Tail(backlog)
              /\ \/ pfds' = poll_vec_add_fd(pfds, fd) /\ pc' = "recv_id" /\ UNCHANGED <<iter, k>>
                 \/ AllocFails /\ Fail
  <2>1. PICK fd \in FreeFds :
              /\ conn' = Accepted(Head(backlog), fd)
              /\ backlog' = Tail(backlog)
              /\ \/ pfds' = Append(pfds, Entry(fd, FALSE)) /\ pc' = "recv_id" /\ UNCHANGED iter
                 \/ Fail
    BY <1>5 DEF poll_vec_add_fd
  <2> DEFINE c == Head(backlog)
             r == [conn[c] EXCEPT !.fd = fd]
  <2>2. /\ backlog \in Seq(Conns) /\ Len(backlog) \in Nat \ {0}
        /\ DOMAIN backlog = 1 .. Len(backlog)
        /\ c = backlog[1] /\ c \in Conns /\ 1 \in DOMAIN backlog
    <3>1. backlog \in Seq(Conns) /\ backlog # << >>
      BY <1>1 DEF BacklogOK
    <3>2. Len(backlog) \in Nat \ {0} /\ DOMAIN backlog = 1 .. Len(backlog)
      BY <3>1, EmptySeq, LenProperties
    <3> QED BY <3>1, <3>2, HeadTailProperties, ElementOfSeq
  <2>3. /\ Tail(backlog) \in Seq(Conns) /\ DOMAIN Tail(backlog) = 1 .. Len(backlog) - 1
        /\ \A n \in 1 .. Len(backlog) - 1 : Tail(backlog)[n] = backlog[n + 1]
    <3>1. /\ Tail(backlog) \in Seq(Conns) /\ Len(Tail(backlog)) = Len(backlog) - 1
          /\ \A n \in 1 .. Len(Tail(backlog)) : Tail(backlog)[n] = backlog[n + 1]
      BY <2>2, <1>1, HeadTailProperties
    <3> QED BY <3>1, LenProperties
  <2>4. conn[c].fd = NoFd /\ conn[c].peer # "free" /\ fd \in Fds /\ conn[c] \in Connections
    BY <1>1, <2>2 DEF BacklogOK, FreeFds, ConnOK
  <2>5. r \in Connections /\ r.fd = fd /\ r.peer = conn[c].peer /\ r.inbox = conn[c].inbox
    BY <2>4, SetFd
  <2>6. conn' = [conn EXCEPT ![c] = r]
    BY <2>1 DEF Accepted
  <2> HIDE DEF c, r
  <2>61. r.peer = "free" => r.fd = NoFd
    BY <2>4, <2>5
  <2>7. /\ ConnOK(conn') /\ conn'[c] = r /\ \A d \in Conns : d # c => conn'[d] = conn[d]
    <3>1. /\ ConnOK([conn EXCEPT ![c] = r]) /\ [conn EXCEPT ![c] = r][c] = r
          /\ \A d \in Conns : d # c => [conn EXCEPT ![c] = r][d] = conn[d]
      BY <1>1, <2>2, <2>5, <2>61, OneConn
    <3> QED BY <2>6, <3>1
  <2>8. BacklogOK(backlog', conn')
    <3> DEFINE b == Tail(backlog)
    <3>1. b \in Seq(Conns) /\ DOMAIN b = 1 .. Len(backlog) - 1
          /\ \A n \in DOMAIN b : n + 1 \in DOMAIN backlog /\ b[n] = backlog[n + 1]
      BY <2>2, <2>3
    <3>2. \A n \in DOMAIN b : b[n] # c
      BY <3>1, <2>2, <1>1 DEF BacklogOK, Distinct
    <3>3. Distinct(b)
      BY <3>1, <1>1 DEF BacklogOK, Distinct
    <3>4. \A n \in DOMAIN b : b[n] \in Conns /\ conn[b[n]].fd = NoFd /\ conn[b[n]].peer # "free"
      BY <3>1, <1>1, <2>2, ElementOfSeq DEF BacklogOK
    <3> HIDE DEF b
    <3>5. \A n \in DOMAIN b : conn'[b[n]] = conn[b[n]]
      BY <2>7, <3>2, <3>4
    <3>6. BacklogOK(b, conn')
      BY <3>1, <3>3, <3>4, <3>5 DEF BacklogOK
    <3> QED BY <2>1, <3>6 DEF b
  <2>9. CASE Fail
    BY <2>7, <2>8, <2>9, Stops DEF Fail
  <2>10. CASE pfds' = Append(pfds, Entry(fd, FALSE)) /\ pc' = "recv_id" /\ UNCHANGED iter
    <3>1. \A d \in Conns : conn[d].fd # NoFd => conn'[d].fd = conn[d].fd
      BY <2>4, <2>7
    <3>2. VecOK(pfds, conn') /\ HoldsFd(conn', fd)
      BY <1>2, <2>2, <2>5, <2>7, <3>1, SameVec DEF HoldsFd
    <3>3. \A n \in DOMAIN pfds : pfds[n].fd # fd
      BY <1>2, FreshFd
    <3>4. /\ VecOK(pfds', conn') /\ (UdpIn(pfds) => UdpIn(pfds'))
          /\ ~ pfds'[Len(pfds')].pollin /\ Len(pfds') > iter
          /\ Reported(pfds', iter + 1) = Reported(pfds, iter + 1)
      BY <1>2, <1>3, <2>4, <2>10, <3>2, <3>3, VecGrows
    <3>5. ASSUME NEW g \in todo'
          PROVE  Ready(UdpIn(pfds'), conn', udpq', backlog', stdin', g)
      <4>1. g # LISTENER /\ Ready(UdpIn(pfds), conn, udpq, backlog, stdin, g) /\ g # NoFd
        BY <1>2, <1>3, TodoTypes
      <4>2. ASSUME NEW d \in Conns, conn[d].fd = g, CanRead(conn[d])
            PROVE  conn'[d].fd = g /\ CanRead(conn'[d])
        BY <4>1, <4>2, <2>4, <2>7
      <4> QED BY <1>1, <3>4, <4>1, <4>2 DEF Ready
    <3>6. From' = iter + 1 /\ pc' = "recv_id" /\ iter' = iter
      BY <2>10 DEF From
    <3>7. RoundOK' /\ WaitOK'
      BY <1>2, <1>3, <3>4, <3>5, <3>6 DEF RoundOK, WaitOK
    <3> QED BY <2>7, <2>8, <3>7 DEF SInv
  <2> QED BY <2>1, <2>9, <2>10
<1> QED BY <1>4, <1>5 DEF accept_client

\* The new connection is registered, or rejected and its entry, the last one, taken back.
LEMMA RecvIdKeeps ==
    ASSUME SInv, recv_id
    PROVE  SInv'
<1> DEFINE f == newFd
<1>1. /\ pc = "recv_id" /\ ConnOK(conn) /\ BacklogOK(backlog, conn)
      /\ UNCHANGED <<backlog, udpq, stdin, todo>>
  BY DEF recv_id, Now, SInv
<1>2. /\ VecOK(pfds, conn) /\ iter \in Nat /\ iter > 1 /\ todo = Reported(pfds, iter + 1)
      /\ \A fd \in todo : Ready(UdpIn(pfds), conn, udpq, backlog, stdin, fd)
      /\ Len(pfds) > iter /\ ~ pfds[Len(pfds)].pollin
  BY <1>1 DEF SInv, RoundOK, InRound, From
<1>3. /\ pfds \in Seq(Entries) /\ Len(pfds) \in Nat /\ DOMAIN pfds = 1 .. Len(pfds)
      /\ Len(pfds) \in 2 .. Len(pfds) /\ Len(pfds) \in DOMAIN pfds
  BY <1>2, VecTypes DEF VecOK
<1>4. f = pfds[Len(pfds)].fd
  BY DEF newFd, Last
<1> HIDE DEF f
<1>5. PICK c \in ConnsOf(f) :
        \/ /\ conn[c].inbox # << >> /\ conn' = Received(c)
           /\ pc' = "retransmit" /\ UNCHANGED <<pfds, iter>>
        \/ /\ conn[c].inbox # << >> /\ conn' = [Received(c) EXCEPT ![c].fd = NoFd]
           /\ ContinueAt(poll_vec_remove_fd(pfds, Len(pfds)), iter + 1)
        \/ UNCHANGED conn /\ Fail
  BY DEF recv_id, f
<1>6. c \in Conns /\ conn[c].fd = f /\ conn[c] \in Connections
  BY <1>1, <1>5 DEF ConnsOf, ConnOK
<1>7. \A fd \in todo : fd # f
  <2> TAKE fd \in todo
  <2>1. PICK m \in ReportedFrom(pfds, iter + 1) : fd = pfds[m].fd
    BY <1>2 DEF Reported
  <2>2. m \in DOMAIN pfds /\ pfds[m].pollin
    BY <1>2, <1>3, <2>1 DEF ReportedFrom
  <2>3. m # Len(pfds)
    BY <1>2, <2>2
  <2> QED BY <1>2, <1>3, <1>4, <2>1, <2>2, <2>3 DEF VecOK
<1>8. CASE UNCHANGED conn /\ Fail
  BY <1>1, <1>8, Stops DEF Fail
<1>9. ASSUME conn[c].inbox # << >>
      PROVE  Moves(conn, Received(c), f) /\ KeepsFds(conn, Received(c))
  <2>1. Tail(conn[c].inbox) \in Seq(Commands \cup {IdMsg})
    BY <1>6, <1>9, ConnTypes, HeadTailProperties
  <2>2. Received(c) = [conn EXCEPT ![c].inbox = Tail(conn[c].inbox)]
    BY DEF Received
  <2> DEFINE t == Tail(conn[c].inbox)
  <2> HIDE DEF t
  <2>3. /\ Moves(conn, [conn EXCEPT ![c].inbox = t], conn[c].fd)
        /\ KeepsFds(conn, [conn EXCEPT ![c].inbox = t])
    BY <1>1, <1>6, <2>1, ReceiveMoves DEF t
  <2> QED BY <1>6, <2>2, <2>3 DEF t
<1>10. CASE conn[c].inbox # << >> /\ conn' = Received(c)
            /\ pc' = "retransmit" /\ UNCHANGED <<pfds, iter>>
  <2>1. Moves(conn, conn', f) /\ KeepsFds(conn, conn')
    BY <1>9, <1>10
  <2>2. VecOK(pfds, conn') /\ ConnOK(conn') /\ BacklogOK(backlog', conn')
    BY <1>1, <1>2, <2>1, SameVec, BacklogStays DEF KeepsFds, Moves
  <2>3. ASSUME NEW fd \in todo
        PROVE  Ready(UdpIn(pfds), conn', udpq', backlog', stdin', fd)
    <3>1. fd # f /\ Ready(UdpIn(pfds), conn, udpq, backlog, stdin, fd)
      BY <1>2, <1>7
    <3> QED BY <1>1, <2>1, <3>1, ReadyStays
  <2>4. From' = iter + 1 /\ iter' = iter /\ pfds' = pfds
    BY <1>10 DEF From
  <2>5. RoundOK' /\ WaitOK'
    BY <1>1, <1>2, <1>10, <2>2, <2>3, <2>4 DEF RoundOK, WaitOK
  <2> QED BY <2>2, <2>5 DEF SInv
<1>11. CASE /\ conn[c].inbox # << >> /\ conn' = [Received(c) EXCEPT ![c].fd = NoFd]
            /\ ContinueAt(poll_vec_remove_fd(pfds, Len(pfds)), iter + 1)
  <2> DEFINE cn == Received(c)
             r == [cn[c] EXCEPT !.fd = NoFd]
             w == RemoveAt(pfds, Len(pfds))
  <2>1. Moves(conn, cn, f) /\ KeepsFds(conn, cn) /\ ConnOK(cn)
    BY <1>9, <1>11 DEF Moves
  <2>2. conn' = [cn EXCEPT ![c] = r]
    BY <1>11
  <2>3. ContinueAt(w, iter + 1)
    BY <1>11 DEF poll_vec_remove_fd
  <2> HIDE DEF cn
  <2>4. cn[c] \in Connections /\ cn[c].fd = f
    BY <1>6, <2>1 DEF ConnOK, KeepsFds
  <2>5. r \in Connections /\ r.fd = NoFd /\ r.peer = cn[c].peer
    BY <2>4, SetFd
  <2>6. f # NoFd /\ (cn[c].peer = "free" => cn[c].fd = NoFd)
    BY <1>3, <1>4, <1>6, <2>1, VecTypes, EntryTypes DEF ConnOK
  <2> HIDE DEF r
  <2>7. Moves(cn, [cn EXCEPT ![c] = r], f)
    <3>1. /\ r.fd \in {cn[c].fd, NoFd}
          /\ r.peer = "free" => cn[c].peer = "free" /\ r.fd = cn[c].fd
          /\ cn[c].fd # f => r.fd = cn[c].fd /\ (CanRead(cn[c]) => CanRead(r))
      BY <2>4, <2>5, <2>6
    <3> QED BY <1>6, <2>1, <2>5, <3>1, OneMoves
  <2>8. Moves(conn, conn', f)
    BY <2>1, <2>2, <2>7 DEF Moves
  <2>9. BacklogOK(backlog', conn') /\ ConnOK(conn')
    BY <1>1, <2>8, BacklogStays DEF Moves
  <2>10. VecOK(w, conn') /\ (UdpIn(pfds) /\ f # UDP => UdpIn(w))
    <3>1. \A d \in Conns : conn[d].fd \notin {NoFd, pfds[Len(pfds)].fd}
                             => conn'[d].fd = conn[d].fd
      BY <1>4, <2>8 DEF Moves
    <3> QED BY <1>2, <1>3, <1>4, <3>1, VecDrops
  <2>11. todo' = Reported(w, iter + 1)
    <3>1. Len(pfds) > 0 /\ iter + 1 \in Nat \ {0}
      BY <1>2
    <3> QED BY <1>1, <1>2, <1>3, <3>1, ReportedBefore
  <2> HIDE DEF w
  <2>12. ASSUME NEW fd \in todo'
         PROVE  Ready(UdpIn(w), conn', udpq', backlog', stdin', fd)
    <3>1. fd # f /\ Ready(UdpIn(pfds), conn, udpq, backlog, stdin, fd)
      BY <1>1, <1>2, <1>7
    <3>2. fd = UDP /\ UdpIn(pfds) => UdpIn(w)
      BY <2>10, <3>1
    <3> QED BY <1>1, <2>8, <3>1, <3>2, ReadyStays
  <2>13. iter + 1 \in Nat /\ iter + 1 > 1
    BY <1>2
  <2> QED BY <2>3, <2>9, <2>10, <2>11, <2>12, <2>13, Onward
<1> QED BY <1>5, <1>8, <1>10, <1>11

-----------------------------------------------------------------------------
(* The clients. *)

\* A client's command is taken from its connection.
LEMMA CommandKeeps ==
    ASSUME SInv, recv_command
    PROVE  SInv'
<1>1. /\ pc = "process_ready_fds" /\ Handled(pfds[iter].fd) /\ ConnOK(conn)
      /\ UNCHANGED <<backlog, udpq, stdin>> /\ ContinueAt(pfds, iter + 1)
  BY DEF recv_command, Now, SInv
<1>2. PICK c \in ConnsOf(pfds[iter].fd) : conn[c].inbox # << >> /\ conn' = Received(c)
  BY DEF recv_command
<1>3. c \in Conns /\ conn[c].fd = pfds[iter].fd /\ conn[c] \in Connections
  BY <1>1, <1>2 DEF ConnsOf, ConnOK
<1>4. Tail(conn[c].inbox) \in Seq(Commands \cup {IdMsg})
  BY <1>2, <1>3, ConnTypes, HeadTailProperties
<1>5. conn' = [conn EXCEPT ![c].inbox = Tail(conn[c].inbox)]
  BY <1>2 DEF Received
<1>6. Moves(conn, conn', pfds[iter].fd) /\ KeepsFds(conn, conn')
  BY <1>1, <1>3, <1>4, <1>5, ReceiveMoves
<1>7. BacklogOK(backlog', conn')
  BY <1>1, <1>6, BacklogStays DEF SInv
<1> QED BY <1>1, <1>6, <1>7, HandlerDone

\* A client's connection is closed and its entry leaves the vector.
LEMMA EndKeeps ==
    ASSUME SInv, recv_end
    PROVE  SInv'
<1>1. /\ pc = "process_ready_fds" /\ Handled(pfds[iter].fd) /\ ConnOK(conn)
      /\ UNCHANGED <<backlog, udpq, stdin>>
  BY DEF recv_end, Now, SInv
<1>2. \/ conn' = ClosedFd(pfds[iter].fd) /\ DropEntry
      \/ ContinueAt(pfds, iter + 1) /\ UNCHANGED conn
  BY DEF recv_end
<1>3. Moves(conn, conn', pfds[iter].fd)
  BY <1>1, <1>2, CloseMoves, MovesRefl
<1>4. BacklogOK(backlog', conn')
  BY <1>1, <1>3, BacklogStays DEF SInv
<1>5. (KeepsFds(conn, conn') /\ ContinueAt(pfds, iter + 1)) \/ DropEntry
  BY <1>2 DEF KeepsFds
<1> QED BY <1>1, <1>3, <1>4, <1>5, HandlerDone

-----------------------------------------------------------------------------
\* No connection is there when the server starts.
LEMMA ConnInit ==
    ASSUME conn = [c \in Conns |-> FreeConn]
    PROVE  ConnOK(conn) /\ \A c \in Conns : conn[c].fd = NoFd
<1>1. << >> \in Seq(Commands \cup {IdMsg}) /\ 0 \in 0 .. SockBuf
  BY EmptySeq, BoundsAssumption
<1>2. FreeConn \in Connections /\ FreeConn.fd = NoFd
  BY <1>1 DEF FreeConn, Connections
<1> QED BY <1>2 DEF ConnOK

\* A sequence of three.
LEMMA Triple ==
    ASSUME NEW S, NEW a \in S, NEW b \in S, NEW c \in S
    PROVE  /\ <<a, b, c>> \in Seq(S) /\ Len(<<a, b, c>>) = 3
           /\ <<a, b, c>>[1] = a /\ <<a, b, c>>[2] = b /\ <<a, b, c>>[3] = c
OBVIOUS

\* The three descriptors of the server itself are different ones.
LEMMA ThreeEntries ==
    ASSUME NEW vec \in Seq(Entries), Len(vec) = 3,
           vec[1].fd = STDIN, vec[2].fd = UDP, vec[3].fd = LISTENER
    PROVE  VecOK(vec, conn)
<1>1. DOMAIN vec = 1 .. 3
  BY LenProperties
<1>2. vec[1].fd = STDIN /\ vec[2].fd = UDP /\ vec[3].fd = LISTENER
  OBVIOUS
<1>3. \A n \in DOMAIN vec : n = 1 \/ n = 2 \/ n = 3
  BY <1>1
<1>4. \A m, n \in DOMAIN vec : vec[m].fd = vec[n].fd => m = n
  <2>1. STDIN # UDP /\ STDIN # LISTENER /\ UDP # LISTENER
    BY FdsAreNumbers
  <2> TAKE m, n \in DOMAIN vec
  <2>2. CASE m = 1
    BY <1>2, <1>3, <2>1, <2>2
  <2>3. CASE m = 2
    BY <1>2, <1>3, <2>1, <2>3
  <2>4. CASE m = 3
    BY <1>2, <1>3, <2>1, <2>4
  <2> QED BY <1>3, <2>2, <2>3, <2>4
<1>5. UdpIn(vec)
  BY <1>1, <1>2 DEF UdpIn
<1>6. \A n \in DOMAIN vec : \/ vec[n].fd \in {STDIN, LISTENER}
                            \/ vec[n].fd = UDP /\ UdpIn(vec)
  BY <1>2, <1>3, <1>5
<1>7. Len(vec) > 0
  BY <1>1
<1> QED BY <1>2, <1>4, <1>6, <1>7 DEF VecOK

\* init_server's vector.
LEMMA VecInit ==
    VecOK(<<Entry(STDIN, FALSE), Entry(UDP, FALSE), Entry(LISTENER, FALSE)>>, conn)
<1> DEFINE e1 == Entry(STDIN, FALSE)
           e2 == Entry(UDP, FALSE)
           e3 == Entry(LISTENER, FALSE)
           vec == <<e1, e2, e3>>
<1>1. UDP \in Fds
  BY BoundsAssumption DEF UDP, Fds
<1>2. e1 \in Entries /\ e2 \in Entries /\ e3 \in Entries
  BY <1>1 DEF Entry, Entries
<1>3. e1.fd = STDIN /\ e2.fd = UDP /\ e3.fd = LISTENER
  BY DEF Entry
<1> HIDE DEF e1, e2, e3
<1>4. vec \in Seq(Entries) /\ Len(vec) = 3 /\ vec[1] = e1 /\ vec[2] = e2 /\ vec[3] = e3
  BY <1>2, Triple
<1> HIDE DEF vec
<1>5. VecOK(vec, conn)
  BY <1>3, <1>4, ThreeEntries
<1> QED BY <1>5 DEF vec, e1, e2, e3

\* The invariant holds when the server starts.
LEMMA InitSInv == Init => SInv
<1> SUFFICES ASSUME Init PROVE SInv
  OBVIOUS
<1>1. /\ pc = "wait_for_ready_fds" /\ todo = {} /\ backlog = << >>
      /\ pfds = <<Entry(STDIN, FALSE), Entry(UDP, FALSE), Entry(LISTENER, FALSE)>>
      /\ conn = [c \in Conns |-> FreeConn]
  BY DEF Init, NetInit
<1>2. ConnOK(conn)
  BY <1>1, ConnInit
<1>3. BacklogOK(backlog, conn)
  BY <1>1, EmptySeq DEF BacklogOK, Distinct
<1>4. VecOK(pfds, conn)
  BY <1>1, VecInit
<1> QED BY <1>1, <1>2, <1>3, <1>4 DEF SInv, RoundOK, WaitOK, InRound

\* Every step keeps it.
LEMMA StepSInv == SInv /\ [Next]_vars => SInv'
<1> SUFFICES ASSUME SInv, [Next]_vars PROVE SInv'
  OBVIOUS
<1>1. CASE ServerStep
  <2>1. CASE wait_for_ready_fds
    BY <2>1, PollKeeps
  <2>2. CASE check_if_exit
    BY <2>2, ExitKeeps
  <2>3. CASE free_server
    BY <2>3, GoneKeeps
  <2>4. CASE recv_udp_message
    BY <2>4, DatagramKeeps
  <2>5. CASE recv_udp_from_client
    BY <2>5, StrayKeeps
  <2>6. CASE transmit_send \/ transmit_store
    BY <2>6, TransmitKeeps
  <2>7. CASE accept_client
    BY <2>7, AcceptKeeps
  <2>8. CASE recv_id
    BY <2>8, RecvIdKeeps
  <2>9. CASE retransmit_send \/ retransmit_done \/ retransmit_dangling
    BY <2>9, RetransmitKeeps
  <2>10. CASE send_killed
    BY <2>10, GoneKeeps DEF send_killed
  <2>11. CASE recv_command
    BY <2>11, CommandKeeps
  <2>12. CASE recv_end
    BY <2>12, EndKeeps
  <2>13. CASE poll_fails
    BY <2>13, PollFailKeeps
  <2> QED BY <1>1, <2>1, <2>2, <2>3, <2>4, <2>5, <2>6, <2>7, <2>8, <2>9, <2>10, <2>11, <2>12,
             <2>13 DEF ServerStep
<1>2. CASE \E c \in Conns, id \in Ids : External(Connect(c, id))
  BY <1>2, ConnectKeeps
<1>3. CASE \E c \in Conns : \/ External(SendId(c)) \/ External(SendCommand(c))
                            \/ External(ReadMessage(c)) \/ External(ReadEnd(c))
                            \/ External(Exit(c))
  BY <1>3, SubscriberKeeps
<1>4. CASE \/ \E d \in Datagrams : External(Publish(d))
           \/ \E line \in Lines : External(TypeLine(line))
  BY <1>4, InputKeeps
<1>5. CASE UNCHANGED vars
  <2>1. UNCHANGED <<pc, pfds, iter, todo, conn, backlog, udpq, stdin>>
    BY <1>5 DEF vars, netVars, serverVars, history
  <2>2. ConnOK(conn) /\ BacklogOK(backlog, conn)
    BY DEF SInv
  <2> QED BY <2>1, <2>2, MovesRefl, EnvKeeps
<1> QED BY <1>1, <1>2, <1>3, <1>4, <1>5 DEF Next

\* The invariant holds always.
LEMMA AlwaysSInv == Spec => []SInv
<1> QED BY InitSInv, StepSInv, PTL DEF Spec

\* Every descriptor that a poll reports is handled exactly once in the round of
\* process_ready_fds: no entry is skipped and none is visited twice when a handler removes its
\* entry, appends one, or the number of a closed descriptor is given to a new connection.
THEOREM ReportsAreHandledOnce == Spec => []EachReportedOnce
<1>1. SInv => EachReportedOnce
  <2> SUFFICES ASSUME SInv PROVE EachReportedOnce
    OBVIOUS
  <2>1. pc = "wait_for_ready_fds" => todo = {}
    BY DEF SInv, WaitOK
  <2>2. ASSUME pc = "process_ready_fds" PROVE pfds[iter].fd \in todo
    BY <2>2, ReportedRest DEF SInv, RoundOK, InRound, From
  <2> QED BY <2>1, <2>2 DEF EachReportedOnce
<1> QED BY <1>1, AlwaysSInv, PTL

\* A handler of process_ready_fds never waits: what the poll reported for its descriptor is
\* still there when its turn comes, whatever the handlers before it and the other processes
\* did in between.
THEOREM NoHandlerWaits == Spec => []HandlersDoNotBlock
<1>1. SInv => HandlersDoNotBlock
  <2> SUFFICES ASSUME SInv, pc = "process_ready_fds" PROVE ReadableFd(pfds[iter].fd)
    BY DEF HandlersDoNotBlock
  <2>1. /\ VecOK(pfds, conn) /\ iter \in Nat /\ iter > 1 /\ iter \in ReportedFrom(pfds, iter)
        /\ todo = Reported(pfds, iter)
        /\ \A fd \in todo : Ready(UdpIn(pfds), conn, udpq, backlog, stdin, fd)
    BY DEF SInv, RoundOK, InRound, From
  <2>2. pfds[iter].fd \in todo
    BY <2>1, ReportedRest
  <2>3. Ready(UdpIn(pfds), conn, udpq, backlog, stdin, pfds[iter].fd)
    BY <2>1, <2>2
  <2> QED BY <2>3 DEF ReadableFd, Ready, UdpOpen, UdpIn, ConnsOf, Readable, CanRead, PeerGone
<1> QED BY <1>1, AlwaysSInv, PTL

-----------------------------------------------------------------------------
(* What the server's calls do to the connections. *)

\* The subscriber's end of a connection is not the server's to change.
SameSubscriber(r, r2) == /\ r2.id = r.id /\ r2.peer = r.peer

\* A message that is sent changes what is unread and what the server knows of a reset.
LEMMA SendFacts ==
    ASSUME ConnOK(conn), NEW fd, NEW result, send_tcp_msg(fd, result)
    PROVE  \A c \in Conns : /\ SameSubscriber(conn[c], conn'[c])
                            /\ conn'[c].fd = conn[c].fd /\ conn'[c].inbox = conn[c].inbox
<1>1. ASSUME NEW c \in Conns, NEW r, conn' = [conn EXCEPT ![c] = r],
             SameSubscriber(conn[c], r), r.fd = conn[c].fd, r.inbox = conn[c].inbox
      PROVE  \A d \in Conns : /\ SameSubscriber(conn[d], conn'[d])
                              /\ conn'[d].fd = conn[d].fd /\ conn'[d].inbox = conn[d].inbox
  BY <1>1 DEF SameSubscriber, ConnOK
<1>2. ASSUME NEW c \in Conns, conn' = [conn EXCEPT ![c].unread = @ + 1]
      PROVE  \A d \in Conns : /\ SameSubscriber(conn[d], conn'[d])
                              /\ conn'[d].fd = conn[d].fd /\ conn'[d].inbox = conn[d].inbox
  <2> DEFINE u == conn[c].unread + 1
             r == [conn[c] EXCEPT !.unread = u]
  <2>1. conn' = [conn EXCEPT ![c] = r]
    BY <1>2
  <2>2. SameSubscriber(conn[c], r) /\ r.fd = conn[c].fd /\ r.inbox = conn[c].inbox
    <3> HIDE DEF u
    <3> QED BY DEF SameSubscriber, ConnOK, Connections
  <2> HIDE DEF r
  <2> QED BY <1>1, <2>1, <2>2
<1>3. ASSUME NEW c \in Conns, NEW e, conn' = [conn EXCEPT ![c].err = e]
      PROVE  \A d \in Conns : /\ SameSubscriber(conn[d], conn'[d])
                              /\ conn'[d].fd = conn[d].fd /\ conn'[d].inbox = conn[d].inbox
  <2> DEFINE r == [conn[c] EXCEPT !.err = e]
  <2>1. conn' = [conn EXCEPT ![c] = r]
    BY <1>3
  <2>2. SameSubscriber(conn[c], r) /\ r.fd = conn[c].fd /\ r.inbox = conn[c].inbox
    BY DEF SameSubscriber, ConnOK, Connections
  <2> HIDE DEF r
  <2> QED BY <1>1, <2>1, <2>2
<1>4. CASE conn' = conn
  BY <1>4 DEF SameSubscriber
<1> QED BY <1>2, <1>3, <1>4 DEF send_tcp_msg, ConnsOf

\* A message that is read leaves the inbox of its connection.
LEMMA ReceiveFacts ==
    ASSUME ConnOK(conn), NEW c \in Conns
    PROVE  \A d \in Conns : /\ SameSubscriber(conn[d], Received(c)[d])
                            /\ Received(c)[d].fd = conn[d].fd
                            /\ d # c => Received(c)[d].inbox = conn[d].inbox
<1> DEFINE s == Tail(conn[c].inbox)
           r == [conn[c] EXCEPT !.inbox = s]
<1>1. Received(c) = [conn EXCEPT ![c] = r]
  BY DEF Received
<1> HIDE DEF s
<1>2. SameSubscriber(conn[c], r) /\ r.fd = conn[c].fd
  BY DEF SameSubscriber, ConnOK, Connections
<1> HIDE DEF r
<1> QED BY <1>1, <1>2 DEF SameSubscriber, ConnOK

\* A close takes the descriptor from its connections.
LEMMA CloseFacts ==
    ASSUME ConnOK(conn), NEW f
    PROVE  \A c \in Conns : /\ SameSubscriber(conn[c], ClosedFd(f)[c])
                            /\ ClosedFd(f)[c].inbox = conn[c].inbox
                            /\ conn[c].fd = f => ClosedFd(f)[c].fd = NoFd
                            /\ conn[c].fd # f => ClosedFd(f)[c].fd = conn[c].fd
<1> TAKE c \in Conns
<1>1. ClosedFd(f)[c] = IF conn[c].fd = f THEN [conn[c] EXCEPT !.fd = NoFd, !.err = "none"]
                                         ELSE conn[c]
  BY DEF ClosedFd
<1>2. conn[c] \in Connections
  BY DEF ConnOK
<1> QED BY <1>1, <1>2 DEF SameSubscriber, Connections

\* An accepted connection gets its descriptor.
LEMMA AcceptFacts ==
    ASSUME ConnOK(conn), NEW c \in Conns, NEW fd
    PROVE  \A d \in Conns : /\ SameSubscriber(conn[d], Accepted(c, fd)[d])
                            /\ Accepted(c, fd)[d].inbox = conn[d].inbox
                            /\ Accepted(c, fd)[d].fd = IF d = c THEN fd ELSE conn[d].fd
<1> DEFINE r == [conn[c] EXCEPT !.fd = fd]
<1>1. Accepted(c, fd) = [conn EXCEPT ![c] = r]
  BY DEF Accepted
<1>2. SameSubscriber(conn[c], r) /\ r.fd = fd /\ r.inbox = conn[c].inbox
  BY DEF SameSubscriber, ConnOK, Connections
<1> HIDE DEF r
<1> QED BY <1>1, <1>2 DEF SameSubscriber, ConnOK

\* A rejected connection loses it again.
LEMMA RejectFacts ==
    ASSUME ConnOK(conn), NEW c \in Conns
    PROVE  \A d \in Conns :
              /\ SameSubscriber(conn[d], [Received(c) EXCEPT ![c].fd = NoFd][d])
              /\ [Received(c) EXCEPT ![c].fd = NoFd][d].fd = IF d = c THEN NoFd ELSE conn[d].fd
              /\ d # c => [Received(c) EXCEPT ![c].fd = NoFd][d].inbox = conn[d].inbox
<1> DEFINE s == Tail(conn[c].inbox)
           q == [conn[c] EXCEPT !.inbox = s]
           r == [q EXCEPT !.fd = NoFd]
           cn == [conn EXCEPT ![c] = q]
<1>1. Received(c) = cn
  BY DEF Received
<1>2. cn[c] = q /\ DOMAIN cn = Conns /\ (\A d \in Conns : d # c => cn[d] = conn[d])
  BY DEF ConnOK
<1> HIDE DEF s
<1>3. [cn EXCEPT ![c].fd = NoFd] = [cn EXCEPT ![c] = r]
  <2> HIDE DEF cn, q
  <2>1. [cn EXCEPT ![c].fd = NoFd] = [cn EXCEPT ![c] = [cn[c] EXCEPT !.fd = NoFd]]
    OBVIOUS
  <2>2. cn[c] = q
    BY <1>2
  <2>3. r = [cn[c] EXCEPT !.fd = NoFd]
    BY <2>2
  <2> HIDE DEF r
  <2> QED BY <2>1, <2>3
<1>4. SameSubscriber(conn[c], r) /\ r.fd = NoFd
  BY DEF SameSubscriber, ConnOK, Connections
<1> HIDE DEF r, cn
<1>5. /\ [cn EXCEPT ![c] = r][c] = r
      /\ \A d \in Conns : d # c => [cn EXCEPT ![c] = r][d] = conn[d]
  BY <1>2
<1> DEFINE closed == [Received(c) EXCEPT ![c].fd = NoFd]
<1>6. closed = [cn EXCEPT ![c] = r]
  BY <1>1, <1>3
<1> HIDE DEF closed
<1>7. \A d \in Conns : /\ SameSubscriber(conn[d], closed[d])
                       /\ closed[d].fd = IF d = c THEN NoFd ELSE conn[d].fd
                       /\ d # c => closed[d].inbox = conn[d].inbox
  BY <1>4, <1>5, <1>6 DEF SameSubscriber
<1> QED BY <1>7 DEF closed

-----------------------------------------------------------------------------
(* Every connection that was made has an ID. *)

KnownIds == \A c \in Conns : conn[c].peer # "free" => conn[c].id \in Ids

\* The server changes neither the ID of a connection nor whether it was made.
SameConns == \A c \in Conns : /\ conn'[c].id = conn[c].id
                              /\ conn'[c].peer = "free" <=> conn[c].peer = "free"

\* No handler touches the subscriber's end, except that the one of the datagrams takes the
\* error of a reset.
LEMMA ServerKeepsIds ==
    ASSUME ConnOK(conn), BacklogOK(backlog, conn), ServerStep
    PROVE  SameConns
<1>1. CASE UNCHANGED conn
  BY <1>1 DEF SameConns
<1>2. ASSUME NEW cn, conn' = cn, \A c \in Conns : SameSubscriber(conn[c], cn[c])
      PROVE  SameConns
  BY <1>2 DEF SameConns, SameSubscriber
<1>3. CASE wait_for_ready_fds \/ poll_fails \/ check_if_exit \/ recv_udp_message
           \/ transmit_store \/ retransmit_done
  BY <1>1, <1>3 DEF wait_for_ready_fds, poll_fails, check_if_exit, recv_udp_message,
                    transmit_store, retransmit_done, netVars
<1>4. ASSUME conn' = AllClosed PROVE SameConns
  <2>1. \A c \in Conns : conn[c] \in Connections /\ conn'[c] = [conn[c] EXCEPT !.fd = NoFd]
    BY <1>4 DEF AllClosed, ConnOK
  <2>2. \A c \in Conns : SameSubscriber(conn[c], conn'[c])
    BY <2>1 DEF SameSubscriber, Connections
  <2> QED BY <1>2, <2>2
<1>5. CASE free_server \/ send_killed
  BY <1>4, <1>5 DEF free_server, send_killed, Gone
<1>6. CASE recv_udp_from_client
  <2>1. PICK c \in Conns :
          \/ \E n : conn' = [conn EXCEPT ![c].inbox = SubSeq(@, n + 1, Len(@))]
          \/ conn[c].peer = "aborted" /\ conn' = [conn EXCEPT ![c].peer = "closed"]
          \/ conn' = ClosedFd(UDP)
    BY <1>6 DEF recv_udp_from_client, ConnsOf
  <2>2. ASSUME NEW n, conn' = [conn EXCEPT ![c].inbox = SubSeq(@, n + 1, Len(@))]
        PROVE  SameConns
    <3> DEFINE s == SubSeq(conn[c].inbox, n + 1, Len(conn[c].inbox))
               r == [conn[c] EXCEPT !.inbox = s]
    <3>1. conn' = [conn EXCEPT ![c] = r]
      BY <2>2
    <3>2. SameSubscriber(conn[c], r)
      BY DEF SameSubscriber, ConnOK, Connections
    <3> HIDE DEF r
    <3> QED BY <3>1, <3>2 DEF SameSubscriber, SameConns, ConnOK
  <2>3. CASE conn[c].peer = "aborted" /\ conn' = [conn EXCEPT ![c].peer = "closed"]
    <3> DEFINE r == [conn[c] EXCEPT !.peer = "closed"]
    <3>1. conn' = [conn EXCEPT ![c] = r]
      BY <2>3
    <3>2. r.id = conn[c].id /\ r.peer = "closed"
      BY DEF ConnOK, Connections
    <3> HIDE DEF r
    <3> QED BY <2>3, <3>1, <3>2 DEF SameConns, ConnOK
  <2>4. CASE conn' = ClosedFd(UDP)
    BY <1>2, <2>4, CloseFacts
  <2> QED BY <2>1, <2>2, <2>3, <2>4
<1>7. CASE transmit_send \/ retransmit_send
  <2>1. PICK fd, result : send_tcp_msg(fd, result)
    BY <1>7 DEF transmit_send, retransmit_send
  <2> QED BY <1>2, <2>1, SendFacts
<1>8. CASE retransmit_dangling
  BY <1>1, <1>4, <1>8 DEF retransmit_dangling, netVars, Gone
<1>9. CASE accept_client
  <2>1. Head(backlog) \in Conns
    BY <1>9, HeadTailProperties DEF accept_client, BacklogOK
  <2>2. \/ UNCHANGED conn
        \/ \E fd \in FreeFds : conn' = Accepted(Head(backlog), fd)
    BY <1>9 DEF accept_client
  <2> QED BY <1>1, <1>2, <2>1, <2>2, AcceptFacts
<1>10. CASE recv_id
  <2>1. PICK c \in Conns : \/ conn' = Received(c)
                           \/ conn' = [Received(c) EXCEPT ![c].fd = NoFd]
                           \/ UNCHANGED conn
    BY <1>10 DEF recv_id, ConnsOf
  <2> QED BY <1>1, <1>2, <2>1, ReceiveFacts, RejectFacts
<1>11. CASE recv_command
  <2>1. PICK c \in Conns : conn' = Received(c)
    BY <1>11 DEF recv_command, ConnsOf
  <2> QED BY <1>2, <2>1, ReceiveFacts
<1>12. CASE recv_end
  <2>1. conn' = ClosedFd(pfds[iter].fd) \/ UNCHANGED conn
    BY <1>12 DEF recv_end
  <2> QED BY <1>1, <1>2, <2>1, CloseFacts
<1> QED BY <1>3, <1>5, <1>6, <1>7, <1>8, <1>9, <1>10, <1>11, <1>12 DEF ServerStep

-----------------------------------------------------------------------------
(* What the subscribers, the publishers and the operator do between two steps. *)

Env ==
    \/ \E c \in Conns, id \in Ids : ServerRuns /\ External(Connect(c, id))
    \/ \E c \in Conns : External(SendId(c))
    \/ \E c \in Conns : External(SendCommand(c))
    \/ \E c \in Conns : External(ReadMessage(c))
    \/ \E c \in Conns : External(ReadEnd(c))
    \/ \E c \in Conns : External(Exit(c))
    \/ \E d \in Datagrams : ServerRuns /\ UdpOpen /\ External(Publish(d))
    \/ \E line \in Lines : ServerRuns /\ External(TypeLine(line))

\* Every step is one of the server, one of its environment or none.
LEMMA StepCases == [Next]_vars => ServerStep \/ Env \/ UNCHANGED vars
BY DEF Next, Env

\* A connection keeps its descriptor, its ID and its end.
OldConns ==
    \A c \in Conns :
        /\ conn'[c].fd = conn[c].fd
        /\ conn[c].peer # "free" => conn'[c].peer # "free" /\ conn'[c].id = conn[c].id
        /\ PeerGone(c) => PeerGone(c)' /\ conn'[c].inbox = conn[c].inbox

\* A connection that is made has an ID and waits in the backlog.
NewConns ==
    \/ /\ backlog' = backlog
       /\ \A c \in Conns : conn[c].peer = "free" => conn'[c].peer = "free"
    \/ \E c \in Conns : /\ conn[c].peer = "free" /\ conn'[c].id \in Ids
                        /\ backlog' = Append(backlog, c)
                        /\ \A d \in Conns : d # c => conn'[d] = conn[d]

\* The environment acts on the sockets only.
LEMMA EnvFacts ==
    ASSUME ConnOK(conn), Env
    PROVE  /\ UNCHANGED <<serverVars, history>> /\ OldConns /\ NewConns
<1>1. UNCHANGED <<serverVars, history>>
  BY DEF Env, External
<1>2. CASE UNCHANGED <<conn, backlog>>
  BY <1>1, <1>2 DEF OldConns, NewConns, PeerGone
<1>3. ASSUME NEW c \in Conns, NEW r, conn' = [conn EXCEPT ![c] = r], backlog' = backlog,
             r.fd = conn[c].fd, r.id = conn[c].id, r.peer # "free",
             conn[c].peer \in {"open", "connecting"}
      PROVE  OldConns /\ NewConns
  BY <1>3 DEF OldConns, NewConns, PeerGone, ConnOK
<1>4. \A c \in Conns : conn[c] \in Connections
  BY DEF ConnOK
<1>5. CASE \E c \in Conns, id \in Ids : External(Connect(c, id))
  <2>1. PICK c \in Conns, id \in Ids : External(Connect(c, id))
    BY <1>5
  <2> DEFINE r == [conn[c] EXCEPT !.peer = "connecting", !.id = id]
  <2>2. /\ conn' = [conn EXCEPT ![c] = r] /\ conn[c].peer = "free"
        /\ backlog' = Append(backlog, c)
    BY <2>1 DEF External, Connect
  <2>3. r.fd = conn[c].fd /\ r.id = id /\ r.peer = "connecting"
    BY <1>4 DEF Connections
  <2> HIDE DEF r
  <2> QED BY <1>1, <2>2, <2>3 DEF OldConns, NewConns, PeerGone, ConnOK
<1>6. CASE \E c \in Conns : External(SendId(c))
  <2>1. PICK c \in Conns : External(SendId(c))
    BY <1>6
  <2> DEFINE s == Append(conn[c].inbox, IdMsg)
             r == [conn[c] EXCEPT !.peer = "open", !.inbox = s]
  <2>2. /\ conn' = [conn EXCEPT ![c] = r] /\ conn[c].peer = "connecting"
        /\ backlog' = backlog
    BY <2>1 DEF External, SendId
  <2> HIDE DEF s
  <2>3. r.fd = conn[c].fd /\ r.id = conn[c].id /\ r.peer = "open"
    BY <1>4 DEF Connections
  <2> HIDE DEF r
  <2> QED BY <1>1, <1>3, <2>2, <2>3
<1>7. CASE \E c \in Conns : External(SendCommand(c))
  <2>1. PICK c \in Conns : External(SendCommand(c))
    BY <1>7
  <2>2. PICK m \in Commands : conn' = [conn EXCEPT ![c].inbox = Append(@, m)]
    BY <2>1 DEF External, SendCommand
  <2> DEFINE s == Append(conn[c].inbox, m)
             r == [conn[c] EXCEPT !.inbox = s]
  <2>3. conn' = [conn EXCEPT ![c] = r] /\ conn[c].peer = "open" /\ backlog' = backlog
    BY <2>1, <2>2 DEF External, SendCommand
  <2> HIDE DEF s
  <2>4. r.fd = conn[c].fd /\ r.id = conn[c].id /\ r.peer = conn[c].peer
    BY <1>4 DEF Connections
  <2> HIDE DEF r
  <2> QED BY <1>1, <1>3, <2>3, <2>4
<1>8. CASE \E c \in Conns : External(ReadMessage(c))
  <2>1. PICK c \in Conns : External(ReadMessage(c))
    BY <1>8
  <2> DEFINE u == conn[c].unread - 1
             r == [conn[c] EXCEPT !.unread = u]
  <2>2. conn' = [conn EXCEPT ![c] = r] /\ conn[c].peer = "open" /\ backlog' = backlog
    BY <2>1 DEF External, ReadMessage
  <2> HIDE DEF u
  <2>3. r.fd = conn[c].fd /\ r.id = conn[c].id /\ r.peer = conn[c].peer
    BY <1>4 DEF Connections
  <2> HIDE DEF r
  <2> QED BY <1>1, <1>3, <2>2, <2>3
<1>9. ASSUME NEW c \in Conns, Running(c), conn' = [conn EXCEPT ![c].peer = "closed"],
             backlog' = backlog
      PROVE  OldConns /\ NewConns
  <2> DEFINE r == [conn[c] EXCEPT !.peer = "closed"]
  <2>1. conn' = [conn EXCEPT ![c] = r]
    BY <1>9
  <2>2. r.fd = conn[c].fd /\ r.id = conn[c].id /\ r.peer = "closed"
    BY <1>4 DEF Connections
  <2> HIDE DEF r
  <2> QED BY <1>3, <1>9, <2>1, <2>2 DEF Running
<1>10. ASSUME NEW c \in Conns, Running(c), NEW e, backlog' = backlog,
              conn' = [conn EXCEPT ![c].peer = "aborted", ![c].unread = 0, ![c].err = e]
       PROVE  OldConns /\ NewConns
  <2> DEFINE r == [conn[c] EXCEPT !.peer = "aborted", !.unread = 0, !.err = e]
  <2>1. conn' = [conn EXCEPT ![c] = r]
    BY <1>10
  <2>2. r.fd = conn[c].fd /\ r.id = conn[c].id /\ r.peer = "aborted"
    BY <1>4 DEF Connections
  <2> HIDE DEF r
  <2> QED BY <1>3, <1>10, <2>1, <2>2 DEF Running
<1>11. CASE \E c \in Conns : External(ReadEnd(c)) \/ External(Exit(c))
  BY <1>1, <1>9, <1>10, <1>11 DEF External, ReadEnd, Exit
<1>12. CASE \/ \E d \in Datagrams : External(Publish(d))
            \/ \E line \in Lines : External(TypeLine(line))
  BY <1>1, <1>2, <1>12 DEF External, Publish, TypeLine
<1> QED BY <1>5, <1>6, <1>7, <1>8, <1>11, <1>12 DEF Env

\* So every connection that was made has an ID.
LEMMA KnownIdsStep ==
    ASSUME ConnOK(conn), BacklogOK(backlog, conn), KnownIds, [Next]_vars
    PROVE  KnownIds'
<1>1. CASE ServerStep
  BY <1>1, ServerKeepsIds DEF KnownIds, SameConns
<1>2. CASE Env
  BY <1>2, EnvFacts DEF KnownIds, OldConns, NewConns
<1>3. CASE UNCHANGED vars
  BY <1>3 DEF KnownIds, vars, netVars
<1> QED BY <1>1, <1>2, <1>3, StepCases

-----------------------------------------------------------------------------
(* The loop over the entries. *)

\* The listener comes first behind the stdin, or second behind the UDP socket.
Shape(vec) ==
    /\ vec \in Seq(Entries) /\ Len(vec) > 1
    /\ \/ vec[2].fd = LISTENER
       \/ vec[2].fd = UDP /\ Len(vec) > 2 /\ vec[3].fd = LISTENER

AtWork == {"process_ready_fds", "transmit", "recv_id", "retransmit"}

LoopTypes ==
    /\ pc \in Places
    /\ pc \in {"done", "killed"} => pfds = << >>
    /\ pc \notin {"done", "killed"} => Shape(pfds)
    /\ iter \in 0 .. Len(pfds)
    /\ pc \in AtWork => iter > 1

\* Two vectors of the same descriptors.
SameEntries(v, w) == /\ w \in Seq(Entries) /\ Len(w) = Len(v) /\ DOMAIN w = DOMAIN v
                     /\ \A n \in DOMAIN v : w[n].fd = v[n].fd

\* The shape is one of the descriptors.
LEMMA ShapeStays ==
    ASSUME NEW v, NEW w, Shape(v), SameEntries(v, w)
    PROVE  Shape(w) /\ (UdpIn(w) <=> UdpIn(v))
<1>1. Len(v) \in Nat /\ DOMAIN v = 1 .. Len(v)
  BY VecTypes DEF Shape
<1>2. w[2].fd = v[2].fd /\ (Len(v) > 2 => w[3].fd = v[3].fd)
  BY <1>1 DEF SameEntries, Shape
<1> QED BY <1>1, <1>2 DEF SameEntries, Shape, UdpIn

\* The listener is never removed, and no other entry takes the place of the UDP socket.
LEMMA ShapeDrops ==
    ASSUME NEW v, Shape(v), NEW p \in 2 .. Len(v), v[p].fd # LISTENER
    PROVE  /\ Shape(RemoveAt(v, p))
           /\ UdpIn(RemoveAt(v, p)) => UdpIn(v) /\ p # 2
<1> DEFINE w == RemoveAt(v, p)
<1>1. v \in Seq(Entries) /\ Len(v) \in Nat /\ DOMAIN v = 1 .. Len(v) /\ p \in DOMAIN v
      /\ p \in Nat
  BY VecTypes DEF Shape
<1>2. w \in Seq(Entries) /\ Len(w) = Len(v) - 1
      /\ \A n \in 1 .. Len(v) - 1 : w[n] = IF n < p THEN v[n] ELSE v[n + 1]
  BY <1>1, RemoveAtProperties
<1> HIDE DEF w
<1>3. UDP # LISTENER
  BY FdsAreNumbers
<1>4. CASE p = 2
  <2>1. v[2].fd = UDP /\ Len(v) > 2 /\ v[3].fd = LISTENER
    BY <1>4 DEF Shape
  <2>2. w[2] = v[3] /\ Len(w) > 1
    BY <1>1, <1>2, <1>4, <2>1
  <2> QED BY <1>2, <1>3, <1>4, <2>1, <2>2 DEF Shape, UdpIn, w
<1>5. CASE p > 2
  <2>1. w[2] = v[2] /\ Len(w) > 1
    BY <1>1, <1>2, <1>5
  <2>2. CASE v[2].fd = LISTENER
    BY <1>2, <1>3, <2>1, <2>2 DEF Shape, UdpIn, w
  <2>3. CASE v[2].fd = UDP /\ Len(v) > 2 /\ v[3].fd = LISTENER
    <3>1. p > 3 /\ Len(v) > 3
      BY <1>1, <1>5, <2>3
    <3>2. w[3] = v[3] /\ Len(w) > 2
      BY <1>1, <1>2, <3>1
    <3> QED BY <1>1, <1>2, <1>3, <2>1, <2>3, <3>1, <3>2 DEF Shape, UdpIn, w
  <2> QED BY <2>2, <2>3 DEF Shape
<1> QED BY <1>1, <1>4, <1>5

\* The loop goes on over the same descriptors.
LEMMA Continues ==
    ASSUME NEW vec \in Seq(Entries), NEW n \in Nat, n > 1, ContinueAt(vec, n)
    PROVE  /\ SameEntries(vec, pfds')
           /\ pc' \in {"process_ready_fds", "wait_for_ready_fds"}
           /\ iter' \in 0 .. Len(vec)
           /\ pc' \in AtWork => iter' > 1
<1>1. Len(vec) \in Nat /\ DOMAIN vec = 1 .. Len(vec) /\ \A m \in DOMAIN vec : vec[m] \in Entries
  BY VecTypes
<1>2. CASE /\ pc' = "process_ready_fds" /\ pfds' = vec
           /\ iter' \in ReportedFrom(vec, n)
  <2>1. iter' \in n .. Len(vec)
    BY <1>2 DEF ReportedFrom
  <2>2. SameEntries(vec, pfds')
    BY <1>2 DEF SameEntries
  <2>3. iter' \in 0 .. Len(vec) /\ iter' > 1
    BY <1>1, <2>1
  <2> QED BY <1>2, <2>2, <2>3
<1>3. CASE /\ pc' = "wait_for_ready_fds" /\ iter' = 0
           /\ pfds' = [m \in DOMAIN vec |-> Entry(vec[m].fd, FALSE)]
  <2> DEFINE w == [m \in DOMAIN vec |-> Entry(vec[m].fd, FALSE)]
  <2>1. \A m \in DOMAIN vec : Entry(vec[m].fd, FALSE) \in Entries
    BY <1>1, EntryTypes DEF Entry, Entries
  <2>2. w \in [1 .. Len(vec) -> Entries] /\ DOMAIN w = DOMAIN vec
    BY <1>1, <2>1
  <2>3. \A m \in DOMAIN vec : w[m].fd = vec[m].fd
    BY DEF Entry
  <2> HIDE DEF w
  <2>4. w \in Seq(Entries) /\ Len(w) = Len(vec)
    BY <1>1, <2>2, SeqDef, LenProperties
  <2>5. SameEntries(vec, w)
    BY <2>2, <2>3, <2>4 DEF SameEntries
  <2>6. pfds' = w
    BY <1>3 DEF w
  <2>7. SameEntries(vec, pfds')
    BY <2>5, <2>6
  <2>8. pc' = "wait_for_ready_fds" /\ iter' = 0 /\ 0 \in 0 .. Len(vec)
    BY <1>1, <1>3
  <2>9. pc' \notin AtWork
    BY <2>8 DEF AtWork
  <2> QED BY <2>7, <2>8, <2>9
<1> QED BY <1>2, <1>3 DEF ContinueAt

\* What a step of the loop leaves: its types, and the UDP socket open only if it was.
LoopGoesOn == LoopTypes' /\ (UdpOpen' => UdpOpen)

\* A handler goes on in a vector that has the shape.
LEMMA GoesOn ==
    ASSUME NEW vec, Shape(vec), UdpIn(vec) => UdpIn(pfds),
           NEW n \in Nat, n > 1, ContinueAt(vec, n)
    PROVE  LoopGoesOn
<1>1. vec \in Seq(Entries)
  BY DEF Shape
<1>2. SameEntries(vec, pfds') /\ pc' \in {"process_ready_fds", "wait_for_ready_fds"}
      /\ iter' \in 0 .. Len(vec) /\ (pc' \in AtWork => iter' > 1)
  BY <1>1, Continues
<1>3. Shape(pfds') /\ (UdpIn(pfds') <=> UdpIn(vec))
  BY <1>2, ShapeStays
<1>4. Len(pfds') = Len(vec)
  BY <1>2 DEF SameEntries
<1> QED BY <1>2, <1>3, <1>4 DEF LoopGoesOn, LoopTypes, Places, UdpOpen, UdpIn

\* A handler drops its entry, or the last one, and goes on.
LEMMA DropsOn ==
    ASSUME LoopTypes, pc \in AtWork, NEW p \in 2 .. Len(pfds), pfds[p].fd # LISTENER,
           NEW n \in Nat, n > 1, ContinueAt(RemoveAt(pfds, p), n)
    PROVE  LoopGoesOn /\ (UdpOpen' => p # 2)
<1>1. Shape(pfds)
  BY DEF LoopTypes, AtWork
<1> DEFINE w == RemoveAt(pfds, p)
<1>2. Shape(w) /\ (UdpIn(w) => UdpIn(pfds) /\ p # 2)
  BY <1>1, ShapeDrops
<1>3. ContinueAt(w, n)
  OBVIOUS
<1> HIDE DEF w
<1>4. LoopGoesOn
  BY <1>2, <1>3, GoesOn
<1>5. SameEntries(w, pfds')
  BY <1>2, <1>3, Continues DEF Shape
<1>6. UdpIn(pfds') <=> UdpIn(w)
  BY <1>2, <1>5, ShapeStays
<1> QED BY <1>2, <1>4, <1>6 DEF UdpOpen, UdpIn

\* A handler goes on behind its entry, with or without the loop over the clients.
LEMMA PassesOn ==
    ASSUME LoopTypes, pc \in AtWork, NEW n, NEW t,
           \/ ContinueAt(pfds, iter + 1) \/ TransmitFrom(n, t)
           \/ pc' \in AtWork /\ UNCHANGED <<pfds, iter>>
    PROVE  LoopGoesOn
<1>1. Shape(pfds) /\ iter \in Nat /\ iter > 1 /\ Len(pfds) \in Nat
  BY VecTypes DEF LoopTypes, AtWork, Shape
<1>2. CASE ContinueAt(pfds, iter + 1)
  BY <1>1, <1>2, GoesOn
<1>3. CASE pc' \in AtWork /\ UNCHANGED <<pfds, iter>>
  BY <1>1, <1>3 DEF LoopGoesOn, LoopTypes, AtWork, Places, UdpOpen
<1> QED BY <1>2, <1>3 DEF TransmitFrom, AtWork

\* The server gives up, or is gone.
LEMMA EndsLoop ==
    ASSUME LoopTypes, pc \notin {"done", "killed"}, Fail \/ Gone("done") \/ Gone("killed")
    PROVE  LoopGoesOn
<1>1. CASE Fail
  <2>1. Len(pfds) \in Nat
    BY VecTypes DEF LoopTypes, Shape
  <2> QED BY <1>1, <2>1 DEF Fail, LoopGoesOn, LoopTypes, AtWork, Places, UdpOpen
<1>2. CASE Gone("done") \/ Gone("killed")
  <2>1. pc' \in {"done", "killed"} /\ pfds' = << >> /\ iter' = 0
    BY <1>2 DEF Gone
  <2>2. Len(pfds') = 0
    BY <2>1, EmptySeq
  <2> QED BY <2>1, <2>2 DEF LoopGoesOn, LoopTypes, AtWork, Places, UdpOpen
<1> QED BY <1>1, <1>2

\* A handler's entry is in the vector.
LEMMA EntryOfHandler ==
    ASSUME SInv, pc = "process_ready_fds"
    PROVE  /\ iter \in 2 .. Len(pfds) /\ pfds \in Seq(Entries)
           /\ iter \in ReportedFrom(pfds, iter)
<1>1. /\ VecOK(pfds, conn) /\ iter \in Nat /\ iter > 1 /\ iter \in ReportedFrom(pfds, iter)
  BY DEF SInv, RoundOK, InRound
<1>2. iter \in DOMAIN pfds
  BY <1>1, ReportedRest
<1> QED BY <1>1, <1>2, VecTypes DEF VecOK

\* The new connection's entry is the last one and behind that of the listener.
LEMMA EntryOfNew ==
    ASSUME SInv, pc = "recv_id"
    PROVE  /\ iter \in Nat /\ iter > 1 /\ Len(pfds) \in Nat /\ Len(pfds) > iter
           /\ pfds \in Seq(Entries) /\ newFd = pfds[Len(pfds)].fd /\ newFd # NoFd
           /\ Len(pfds) \in DOMAIN pfds /\ DOMAIN pfds = 1 .. Len(pfds)
<1>1. /\ VecOK(pfds, conn) /\ iter \in Nat /\ iter > 1 /\ Len(pfds) > iter
  BY DEF SInv, RoundOK, InRound
<1>2. /\ Len(pfds) \in Nat /\ DOMAIN pfds = 1 .. Len(pfds)
      /\ \A n \in DOMAIN pfds : pfds[n] \in Entries
  BY <1>1, VecTypes DEF VecOK
<1>3. Len(pfds) \in DOMAIN pfds
  BY <1>1, <1>2
<1>4. newFd = pfds[Len(pfds)].fd
  BY DEF newFd, Last
<1>5. newFd # NoFd
  BY <1>2, <1>3, <1>4, EntryTypes
<1> QED BY <1>1, <1>2, <1>3, <1>4, <1>5 DEF VecOK

\* A connection with a descriptor has the number of one.
LEMMA FdTypes ==
    ASSUME ConnOK(conn), NEW c \in Conns
    PROVE  /\ conn[c] \in Connections /\ conn[c].fd \in Fds \cup {NoFd}
           /\ conn[c].fd \notin {STDIN, LISTENER}
           /\ conn[c].fd # NoFd => conn[c].fd \in Fds /\ conn[c].peer # "free"
BY ConnTypes, FdsAreNumbers DEF ConnOK

\* Every step leaves the loop with its types, and a closed UDP socket closed.
LEMMA LoopStep ==
    ASSUME SInv, LoopTypes, [Next]_vars
    PROVE  LoopGoesOn
<1>1. ConnOK(conn)
  BY DEF SInv
<1>2. CASE Env \/ UNCHANGED vars
  <2>1. UNCHANGED <<pc, pfds, iter>>
    BY <1>1, <1>2, EnvFacts DEF vars, serverVars
  <2> QED BY <2>1 DEF LoopGoesOn, LoopTypes, UdpOpen
<1>3. CASE wait_for_ready_fds
  <2> DEFINE w == [n \in DOMAIN pfds |-> Entry(pfds[n].fd, ReadableFd(pfds[n].fd))]
  <2>1. Shape(pfds) /\ pc \notin {"done", "killed"}
    BY <1>3 DEF wait_for_ready_fds, Now, LoopTypes
  <2>2. /\ Len(pfds) \in Nat /\ DOMAIN pfds = 1 .. Len(pfds)
        /\ \A n \in DOMAIN pfds : pfds[n] \in Entries
    BY <2>1, VecTypes DEF Shape
  <2>3. \A n \in DOMAIN pfds : Entry(pfds[n].fd, ReadableFd(pfds[n].fd)) \in Entries
    <3>1. \A fd : ReadableFd(fd) \in BOOLEAN
      BY DEF ReadableFd
    <3> QED BY <2>2, <3>1, EntryTypes DEF Entry, Entries
  <2>4. w \in [1 .. Len(pfds) -> Entries] /\ DOMAIN w = DOMAIN pfds
    BY <2>2, <2>3
  <2>5. \A n \in DOMAIN pfds : w[n].fd = pfds[n].fd
    BY DEF Entry
  <2>6. (pc' = "check_if_exit" /\ pfds' = w /\ UNCHANGED iter) \/ ContinueAt(w, 2)
    BY <1>3 DEF wait_for_ready_fds
  <2> HIDE DEF w
  <2>7. w \in Seq(Entries) /\ Len(w) = Len(pfds)
    BY <2>2, <2>4, SeqDef, LenProperties
  <2>8. SameEntries(pfds, w)
    BY <2>4, <2>5, <2>7 DEF SameEntries
  <2>9. Shape(w) /\ (UdpIn(w) <=> UdpIn(pfds))
    BY <2>1, <2>8, ShapeStays
  <2>10. CASE ContinueAt(w, 2)
    BY <2>9, <2>10, GoesOn
  <2>11. CASE pc' = "check_if_exit" /\ pfds' = w /\ UNCHANGED iter
    BY <2>7, <2>9, <2>11 DEF LoopGoesOn, LoopTypes, AtWork, Places, UdpOpen, UdpIn
  <2> QED BY <2>6, <2>10, <2>11
<1>4. CASE check_if_exit
  <2>1. Shape(pfds) /\ pc \notin {"done", "killed"}
    BY <1>4 DEF check_if_exit, Now, LoopTypes
  <2>2. Fail \/ ContinueAt(pfds, 2)
    BY <1>4 DEF check_if_exit
  <2> QED BY <2>1, <2>2, GoesOn, EndsLoop
<1>5. CASE poll_fails \/ free_server \/ send_killed
  BY <1>5, EndsLoop DEF poll_fails, free_server, send_killed, Now
<1>6. ASSUME pc = "process_ready_fds", pfds[iter].fd # LISTENER, DropEntry
      PROVE  LoopGoesOn
  <2>1. iter \in 2 .. Len(pfds)
    BY <1>6, EntryOfHandler
  <2> QED BY <1>6, <2>1, DropsOn DEF DropEntry, poll_vec_remove_fd, AtWork
<1>7. CASE recv_udp_message \/ recv_udp_from_client
  <2>1. pc = "process_ready_fds" /\ pfds[iter].fd = UDP
    BY <1>7 DEF recv_udp_message, recv_udp_from_client, AtEntry, Now
  <2>2. Fail \/ DropEntry \/ \E t : TransmitFrom(1, t)
    BY <1>7 DEF recv_udp_message, recv_udp_from_client, AddMessage, RefuseMessage
  <2>3. CASE Fail
    BY <2>1, <2>3, EndsLoop
  <2>4. CASE DropEntry
    BY <1>6, <2>1, <2>4, FdsAreNumbers
  <2>5. CASE \E t : TransmitFrom(1, t)
    BY <2>1, <2>5, PassesOn DEF AtWork
  <2> QED BY <2>2, <2>3, <2>4, <2>5
<1>8. CASE transmit_send \/ transmit_store
  <2>1. pc = "transmit"
    BY <1>8 DEF transmit_send, transmit_store, Now
  <2>2. Fail \/ TransmitFrom(k + 1, Last(udp_msgs))
    BY <1>8 DEF transmit_send, transmit_store
  <2> QED BY <2>1, <2>2, EndsLoop, PassesOn DEF AtWork
<1>9. CASE accept_client
  <2>1. pc = "process_ready_fds"
    BY <1>9 DEF accept_client, AtEntry, Now
  <2>2. Fail \/ \E fd \in FreeFds : /\ pfds' = Append(pfds, Entry(fd, FALSE))
                                    /\ pc' = "recv_id" /\ UNCHANGED iter
    BY <1>9 DEF accept_client, poll_vec_add_fd
  <2>3. CASE Fail
    BY <2>1, <2>3, EndsLoop
  <2>4. ASSUME NEW fd \in FreeFds, pfds' = Append(pfds, Entry(fd, FALSE)),
               pc' = "recv_id", UNCHANGED iter
        PROVE  LoopGoesOn
    <3>1. Shape(pfds) /\ iter \in 0 .. Len(pfds) /\ iter > 1
      BY <2>1 DEF LoopTypes, AtWork
    <3>2. Entry(fd, FALSE) \in Entries
      BY <2>4 DEF FreeFds, Entry, Entries
    <3>3. pfds \in Seq(Entries) /\ Len(pfds) \in Nat
      BY <3>1, VecTypes DEF Shape
    <3>4. /\ pfds' \in Seq(Entries) /\ Len(pfds') = Len(pfds) + 1
          /\ \A n \in 1 .. Len(pfds) : pfds'[n] = pfds[n]
      BY <2>4, <3>2, <3>3, AppendProperties
    <3>5. Shape(pfds') /\ (UdpOpen' => UdpOpen) /\ iter \in 0 .. Len(pfds')
      BY <3>1, <3>3, <3>4 DEF Shape, UdpOpen
    <3> QED BY <2>4, <3>1, <3>5 DEF LoopGoesOn, LoopTypes, Places
  <2> QED BY <2>2, <2>3, <2>4
<1>10. CASE recv_id
  <2>1. pc = "recv_id"
    BY <1>10 DEF recv_id, Now
  <2>2. PICK c \in ConnsOf(newFd) :
          \/ pc' = "retransmit" /\ UNCHANGED <<pfds, iter>>
          \/ ContinueAt(RemoveAt(pfds, Len(pfds)), iter + 1)
          \/ Fail
    BY <1>10 DEF recv_id, poll_vec_remove_fd
  <2>3. CASE pc' = "retransmit" /\ UNCHANGED <<pfds, iter>>
    BY <2>1, <2>3, PassesOn DEF AtWork
  <2>4. CASE ContinueAt(RemoveAt(pfds, Len(pfds)), iter + 1)
    <3>1. /\ iter \in Nat /\ iter > 1 /\ Len(pfds) > iter /\ Len(pfds) \in Nat
          /\ newFd = pfds[Len(pfds)].fd
      BY <2>1, EntryOfNew
    <3>2. pfds[Len(pfds)].fd # LISTENER /\ Len(pfds) \in 2 .. Len(pfds)
      BY <1>1, <2>2, <3>1, FdTypes DEF ConnsOf
    <3>3. iter + 1 \in Nat /\ iter + 1 > 1
      BY <3>1
    <3> QED BY <2>1, <2>4, <3>2, <3>3, DropsOn DEF AtWork
  <2>5. CASE Fail
    BY <2>1, <2>5, EndsLoop
  <2> QED BY <2>2, <2>3, <2>4, <2>5
<1>11. CASE retransmit_send \/ retransmit_done \/ retransmit_dangling
  <2>1. pc = "retransmit"
    BY <1>11 DEF retransmit_send, retransmit_done, retransmit_dangling, Now
  <2>2. \/ UNCHANGED <<pc, pfds, iter>> \/ ContinueAt(pfds, iter + 1) \/ Gone("killed")
    BY <1>11 DEF retransmit_send, retransmit_done, retransmit_dangling, EndRetransmit
  <2> QED BY <2>1, <2>2, PassesOn, EndsLoop DEF AtWork
<1>12. CASE recv_command \/ recv_end
  <2>1. pc = "process_ready_fds" /\ pfds[iter].fd # LISTENER
    BY <1>12 DEF recv_command, recv_end, Now
  <2>2. DropEntry \/ ContinueAt(pfds, iter + 1)
    BY <1>12 DEF recv_command, recv_end
  <2> QED BY <1>6, <2>1, <2>2, PassesOn DEF AtWork
<1> QED BY <1>2, <1>3, <1>4, <1>5, <1>7, <1>8, <1>9, <1>10, <1>11, <1>12, StepCases
        DEF ServerStep

-----------------------------------------------------------------------------
(* The inputs, and the array of the messages: the bounds of the model hold, the array moves *)
(* at most once for each message, and a message in the socket's buffer is not in it yet.    *)

Stopped == {"free_server", "done", "killed"}

InputTypes ==
    /\ udpq \in Seq(Datagrams)
    /\ published \in 0 .. MaxPublish /\ commands \in 0 .. MaxCmds
    /\ stdin \in Lines \cup {"nothing"}

ArrayTypes ==
    /\ udp_msgs \in Seq(Topics \cup {NoTopic}) /\ Len(udp_msgs) <= MaxPublish
    /\ cap \in Nat
    /\ blk \in Blocks /\ (pc \notin Stopped => blk <= Len(udp_msgs))
    /\ UdpOpen => Len(udp_msgs) + Len(udpq) <= published
    /\ pc = "transmit" => Len(udp_msgs) > 0

DataTypes == InputTypes /\ ArrayTypes

\* The fields of a datagram.
LEMMA DatagramTypesOK ==
    ASSUME NEW d \in Datagrams, d.type = "topic"
    PROVE  d.topic \in Topics
BY DEF Datagrams

\* What the buffer of datagrams may hold.
LEMMA BufTypes ==
    ASSUME DataTypes, udpq # << >>
    PROVE  TopicsInBuf \subseteq Topics \cup {NoTopic}
<1>1. udpq \in Seq(Datagrams) /\ udp_msgs \in Seq(Topics \cup {NoTopic})
  BY DEF DataTypes, InputTypes, ArrayTypes
<1>2. Head(udpq).type = "topic" => Head(udpq).topic \in Topics
  BY <1>1, DatagramTypesOK, HeadTailProperties
<1>3. udp_msgs # << >> => Last(udp_msgs) \in Topics \cup {NoTopic}
  BY <1>1, LenProperties, HeadTailProperties, ElementOfSeq DEF Last
<1> QED BY <1>2, <1>3 DEF TopicsInBuf

\* Most steps leave the inputs and the array alone.
LEMMA SameData ==
    ASSUME DataTypes, UdpOpen' => UdpOpen, pc \notin Stopped,
           UNCHANGED <<udpq, published, commands, udp_msgs, cap, blk>>,
           stdin' \in {stdin, "nothing"},
           pc' = "transmit" => pc = "transmit"
    PROVE  DataTypes'
BY DEF DataTypes, InputTypes, ArrayTypes

\* The array has room, or grows and may move.
LEMMA RoomTypes ==
    ASSUME ArrayTypes, pc \notin Stopped, MakeRoom, Len(udp_msgs) < MaxPublish
    PROVE  cap' \in Nat /\ blk' \in Blocks /\ blk' <= Len(udp_msgs) + 1
<1>1. Len(udp_msgs) \in Nat /\ blk \in Nat /\ blk <= Len(udp_msgs) /\ cap \in Nat
  BY LenProperties, BoundsAssumption DEF ArrayTypes, Blocks
<1>2. cap' \in Nat
  BY <1>1 DEF MakeRoom
<1>3. blk' = blk \/ blk' = blk + 1
  BY DEF MakeRoom
<1> QED BY <1>1, <1>2, <1>3, BoundsAssumption DEF Blocks

\* A message enters the array, or the handler gives up.
LEMMA ArrayGrows ==
    ASSUME ArrayTypes, pc \notin Stopped, Len(udp_msgs) < MaxPublish,
           udpq' \in Seq(Datagrams), published \in Nat, published' = published, UdpOpen' => UdpOpen,
           UdpOpen' => Len(udp_msgs) + 1 + Len(udpq') <= published,
           (\E t \in Topics \cup {NoTopic} : AddMessage(t)) \/ RefuseMessage
    PROVE  ArrayTypes'
<1>1. udp_msgs \in Seq(Topics \cup {NoTopic}) /\ Len(udp_msgs) \in Nat
  BY LenProperties DEF ArrayTypes
<1>2. CASE \E t \in Topics \cup {NoTopic} : AddMessage(t)
  <2>1. PICK t \in Topics \cup {NoTopic} : AddMessage(t)
    BY <1>2
  <2>2. udp_msgs' \in Seq(Topics \cup {NoTopic}) /\ Len(udp_msgs') = Len(udp_msgs) + 1
    BY <1>1, <2>1, AppendProperties DEF AddMessage
  <2>3. cap' \in Nat /\ blk' \in Blocks /\ blk' <= Len(udp_msgs) + 1
    BY <2>1, RoomTypes DEF AddMessage
  <2> QED BY <1>1, <2>2, <2>3, BoundsAssumption DEF ArrayTypes
<1>3. CASE RefuseMessage
  <2>1. cap' \in Nat /\ blk' \in Blocks
    BY <1>3, RoomTypes DEF RefuseMessage, ArrayTypes
  <2>2. pc' = "free_server" /\ udp_msgs' = udp_msgs
    BY <1>3 DEF RefuseMessage, Fail
  <2>3. Len(udpq') \in Nat /\ published \in Nat
    BY LenProperties
  <2>4. UdpOpen' => Len(udp_msgs) + Len(udpq') <= published
    BY <1>1, <2>3
  <2> QED BY <1>1, <2>1, <2>2, <2>4 DEF ArrayTypes, Stopped
<1> QED BY <1>2, <1>3

\* Every step keeps the inputs and the array within their types and bounds.
LEMMA DataStep ==
    ASSUME SInv, LoopTypes, DataTypes, [Next]_vars
    PROVE  DataTypes'
<1>1. UdpOpen' => UdpOpen
  BY LoopStep DEF LoopGoesOn
<1>2. udpq \in Seq(Datagrams) /\ published \in Nat /\ published <= MaxPublish
      /\ Len(udpq) \in Nat /\ udp_msgs \in Seq(Topics \cup {NoTopic}) /\ Len(udp_msgs) \in Nat
  BY LenProperties, BoundsAssumption DEF DataTypes, InputTypes, ArrayTypes
<1>3. CASE Env
  <2>1. UNCHANGED serverVars /\ ConnOK(conn)
    BY <1>3, EnvFacts DEF SInv
  <2>2. UNCHANGED <<pc, pfds, udp_msgs, cap, blk>>
    BY <2>1 DEF serverVars
  <2>3. CASE \E d \in Datagrams : External(Publish(d))
    <3>1. PICK d \in Datagrams : External(Publish(d))
      BY <2>3
    <3>2. /\ published < MaxPublish /\ published' = published + 1 /\ udpq' = Append(udpq, d)
          /\ UNCHANGED <<commands, stdin>>
      BY <3>1 DEF External, Publish
    <3>3. udpq' \in Seq(Datagrams) /\ Len(udpq') = Len(udpq) + 1
      BY <1>2, <3>2, AppendProperties
    <3>4. InputTypes'
      BY <1>2, <3>2, <3>3, BoundsAssumption DEF DataTypes, InputTypes
    <3>5. ArrayTypes'
      BY <1>2, <2>2, <3>2, <3>3 DEF DataTypes, ArrayTypes, UdpOpen
    <3> QED BY <3>4, <3>5 DEF DataTypes
  <2>4. CASE \E line \in Lines : External(TypeLine(line))
    <3>1. stdin' \in Lines /\ UNCHANGED <<udpq, published, commands>>
      BY <2>4 DEF External, TypeLine
    <3> QED BY <2>2, <3>1 DEF DataTypes, InputTypes, ArrayTypes, UdpOpen
  <2>5. CASE \E c \in Conns : External(SendCommand(c))
    <3>1. /\ commands < MaxCmds /\ commands' = commands + 1
          /\ UNCHANGED <<udpq, published, stdin>>
      BY <2>5 DEF External, SendCommand
    <3>2. commands' \in 0 .. MaxCmds
      BY <3>1, BoundsAssumption DEF DataTypes, InputTypes
    <3> QED BY <2>2, <3>1, <3>2 DEF DataTypes, InputTypes, ArrayTypes, UdpOpen
  <2>6. CASE \E c \in Conns : \/ \E id \in Ids : External(Connect(c, id))
                              \/ External(SendId(c)) \/ External(ReadMessage(c))
                              \/ External(ReadEnd(c)) \/ External(Exit(c))
    <3>1. UNCHANGED <<udpq, published, commands, stdin>>
      BY <2>6 DEF External, Connect, SendId, ReadMessage, ReadEnd, Exit
    <3> QED BY <2>2, <3>1 DEF DataTypes, InputTypes, ArrayTypes, UdpOpen
  <2> QED BY <1>3, <2>3, <2>4, <2>5, <2>6 DEF Env
<1>4. CASE UNCHANGED vars
  BY <1>4 DEF vars, netVars, serverVars, DataTypes, InputTypes, ArrayTypes, UdpOpen
<1>5. ASSUME Gone("done") \/ Gone("killed") PROVE DataTypes'
  <2>1. /\ pc' \in {"done", "killed"} /\ udpq' = << >> /\ udp_msgs' = << >> /\ pfds' = << >>
        /\ UNCHANGED <<published, commands, stdin, cap, blk>>
    BY <1>5 DEF Gone
  <2>2. << >> \in Seq(Datagrams) /\ << >> \in Seq(Topics \cup {NoTopic}) /\ Len(<< >>) = 0
    BY EmptySeq
  <2>3. ~ UdpOpen'
    BY <2>1, EmptySeq DEF UdpOpen
  <2> QED BY <2>1, <2>2, <2>3, BoundsAssumption
          DEF DataTypes, InputTypes, ArrayTypes, Stopped
<1>6. ASSUME NEW n, NEW vec, ContinueAt(vec, n) PROVE pc' # "transmit"
  BY <1>6 DEF ContinueAt
<1>7. CASE wait_for_ready_fds \/ poll_fails \/ check_if_exit
  <2>1. /\ pc \notin Stopped /\ pc' # "transmit" /\ stdin' \in {stdin, "nothing"}
        /\ UNCHANGED <<udpq, published, commands, udp_msgs, cap, blk>>
    BY <1>6, <1>7
       DEF wait_for_ready_fds, poll_fails, check_if_exit, Now, Stopped, Fail, netVars
  <2> QED BY <1>1, <2>1, SameData
<1>8. CASE free_server \/ send_killed
  BY <1>5, <1>8 DEF free_server, send_killed
<1>9. CASE recv_udp_message
  <2>1. /\ pc = "process_ready_fds" /\ pfds[iter].fd = UDP /\ udpq # << >> /\ UdpOpen
        /\ udpq' = Tail(udpq) /\ UNCHANGED <<published, commands, stdin>>
    BY <1>9 DEF recv_udp_message, AtEntry, Now
  <2>2. Head(udpq) \in Datagrams /\ udpq' \in Seq(Datagrams) /\ Len(udpq') = Len(udpq) - 1
        /\ Len(udpq) > 0
    BY <1>2, <2>1, HeadTailProperties, LenProperties
  <2>3. InputTypes'
    BY <2>1, <2>2 DEF DataTypes, InputTypes
  <2>4. Len(udp_msgs) + Len(udpq) <= published /\ Len(udp_msgs) < MaxPublish
    BY <1>2, <2>1, <2>2, BoundsAssumption DEF DataTypes, ArrayTypes
  <2>5. CASE (\E t \in Topics \cup {NoTopic} : AddMessage(t)) \/ RefuseMessage
    <3>1. Len(udp_msgs) + 1 + Len(udpq') <= published
      BY <1>2, <2>2, <2>4
    <3>2. ArrayTypes'
      BY <1>1, <1>2, <2>1, <2>2, <2>4, <2>5, <3>1, ArrayGrows DEF DataTypes, Stopped
    <3> QED BY <2>3, <3>2 DEF DataTypes
  <2>6. CASE DropEntry /\ UNCHANGED <<udp_msgs, cap, blk>>
    <3>1. pc' # "transmit"
      BY <1>6, <2>6 DEF DropEntry
    <3>2. Len(udp_msgs) + Len(udpq') <= published
      BY <1>2, <2>2, <2>4
    <3> QED BY <1>1, <2>1, <2>3, <2>6, <3>1, <3>2 DEF DataTypes, ArrayTypes, Stopped
  <2>7. TopicsInBuf \subseteq Topics \cup {NoTopic}
    BY <1>2, <2>1, BufTypes
  <2> QED BY <1>9, <2>5, <2>6, <2>7 DEF recv_udp_message
<1>10. CASE recv_udp_from_client
  <2>1. /\ pc = "process_ready_fds" /\ ~ UdpOpen /\ Len(udp_msgs) < MaxPublish
        /\ UNCHANGED <<udpq, published, commands, stdin>>
    BY <1>10 DEF recv_udp_from_client, AtEntry, Now
  <2>2. InputTypes' /\ ~ UdpOpen'
    BY <1>1, <2>1 DEF DataTypes, InputTypes
  <2>3. CASE (\E t \in Topics \cup {NoTopic} : AddMessage(t)) \/ RefuseMessage
    <3>1. ArrayTypes'
      BY <1>2, <2>1, <2>2, <2>3, ArrayGrows DEF DataTypes, Stopped
    <3> QED BY <2>2, <3>1 DEF DataTypes
  <2>4. CASE DropEntry /\ UNCHANGED <<udp_msgs, cap, blk>>
    <3>1. pc' # "transmit"
      BY <1>6, <2>4 DEF DropEntry
    <3> QED BY <1>1, <2>1, <2>4, <3>1, SameData DEF Stopped
  <2> QED BY <1>10, <2>3, <2>4 DEF recv_udp_from_client
<1>11. CASE transmit_send \/ transmit_store
  <2>1. /\ pc = "transmit" /\ stdin' = stdin
        /\ UNCHANGED <<udpq, published, commands, udp_msgs, cap, blk>>
    BY <1>11 DEF transmit_send, transmit_store, Now, netVars
  <2> QED BY <1>1, <2>1, SameData DEF Stopped
<1>12. CASE accept_client \/ recv_id
  <2>1. /\ pc \in {"process_ready_fds", "recv_id"} /\ stdin' = stdin /\ pc' # "transmit"
        /\ UNCHANGED <<udpq, published, commands, udp_msgs, cap, blk>>
    BY <1>6, <1>12 DEF accept_client, recv_id, AtEntry, Now, Fail
  <2> QED BY <1>1, <2>1, SameData DEF Stopped
<1>13. CASE retransmit_send \/ retransmit_done \/ retransmit_dangling
  <2>1. CASE Gone("killed")
    BY <1>5, <2>1
  <2>2. CASE ~ Gone("killed")
    <3>1. /\ pc = "retransmit" /\ stdin' = stdin /\ pc' # "transmit"
          /\ UNCHANGED <<udpq, published, commands, udp_msgs, cap, blk>>
      BY <1>6, <1>13, <2>2
         DEF retransmit_send, retransmit_done, retransmit_dangling, EndRetransmit, Now, netVars
    <3> QED BY <1>1, <3>1, SameData DEF Stopped
  <2> QED BY <2>1, <2>2
<1>14. CASE recv_command \/ recv_end
  <2>1. /\ pc = "process_ready_fds" /\ stdin' = stdin /\ pc' # "transmit"
        /\ UNCHANGED <<udpq, published, commands, udp_msgs, cap, blk>>
    BY <1>6, <1>14 DEF recv_command, recv_end, Now, DropEntry
  <2> QED BY <1>1, <2>1, SameData DEF Stopped
<1> QED BY <1>3, <1>4, <1>7, <1>8, <1>9, <1>10, <1>11, <1>12, <1>13, <1>14, StepCases
        DEF ServerStep

-----------------------------------------------------------------------------
(* The slots of the clients vector, whatever descriptors its operations are called with. *)

WellTyped(s) == s \in CV!Slots /\ Len(s.topics) = Len(s.options)

\* The fields of a slot.
LEMMA SlotTypes ==
    ASSUME CV!TypeOK
    PROVE  /\ clients \in Seq(CV!Slots) /\ Len(clients) \in Nat
           /\ DOMAIN clients = 1 .. Len(clients)
           /\ \A i \in DOMAIN clients :
                 /\ WellTyped(clients[i])
                 /\ clients[i].id \in Ids /\ clients[i].status \in {"ACTIVE", "DEAD"}
                 /\ clients[i].fd \in Fds \cup {NoFd}
                 /\ clients[i].topics \in Seq(Topics) /\ clients[i].options \in Seq(Options)
                 /\ clients[i].ready_msgs \in Seq(Pointers)
                 /\ Len(clients[i].topics) \in Nat
                 /\ DOMAIN clients[i].topics = 1 .. Len(clients[i].topics)
                 /\ DOMAIN clients[i].options = DOMAIN clients[i].topics
                 /\ Len(clients[i].ready_msgs) \in Nat
                 /\ DOMAIN clients[i].ready_msgs = 1 .. Len(clients[i].ready_msgs)
<1>1. clients \in Seq(CV!Slots) /\ Len(clients) \in Nat /\ DOMAIN clients = 1 .. Len(clients)
  BY LenProperties DEF CV!TypeOK
<1>2. \A i \in DOMAIN clients : WellTyped(clients[i])
  BY <1>1, ElementOfSeq DEF CV!TypeOK, WellTyped
<1>3. ASSUME NEW s, WellTyped(s)
      PROVE  /\ s.id \in Ids /\ s.status \in {"ACTIVE", "DEAD"} /\ s.fd \in Fds \cup {NoFd}
             /\ s.topics \in Seq(Topics) /\ s.options \in Seq(Options)
             /\ s.ready_msgs \in Seq(Pointers) /\ Len(s.topics) = Len(s.options)
  BY <1>3 DEF WellTyped, CV!Slots, CV!Statuses, CV!Options, Options, CV!NoFd, NoFd
<1>4. ASSUME NEW s, WellTyped(s)
      PROVE  /\ Len(s.topics) \in Nat /\ DOMAIN s.topics = 1 .. Len(s.topics)
             /\ DOMAIN s.options = DOMAIN s.topics
             /\ Len(s.ready_msgs) \in Nat /\ DOMAIN s.ready_msgs = 1 .. Len(s.ready_msgs)
  BY <1>3, <1>4, LenProperties
<1> QED BY <1>1, <1>2, <1>3, <1>4

SlotFields ==
    /\ Len(clients) \in Nat /\ DOMAIN clients = 1 .. Len(clients)
    /\ \A i \in DOMAIN clients :
          /\ clients[i].id \in Ids /\ clients[i].status \in {"ACTIVE", "DEAD"}
          /\ clients[i].fd \in Fds \cup {NoFd}
          /\ clients[i].topics \in Seq(Topics) /\ clients[i].options \in Seq(Options)
          /\ clients[i].ready_msgs \in Seq(Pointers)
          /\ DOMAIN clients[i].topics = 1 .. Len(clients[i].topics)
          /\ DOMAIN clients[i].options = DOMAIN clients[i].topics
          /\ Len(clients[i].ready_msgs) \in Nat
          /\ DOMAIN clients[i].ready_msgs = 1 .. Len(clients[i].ready_msgs)

\* The same after a step.
LEMMA SlotTypesNext == CV!TypeOK' => SlotFields'
<1>1. CV!TypeOK => SlotFields
  BY SlotTypes DEF SlotFields
<1> QED BY <1>1, PTL

\* A slot is replaced.
LEMMA SlotReplaced ==
    ASSUME CV!TypeOK, NEW i \in DOMAIN clients, NEW s, WellTyped(s),
           clients' = [clients EXCEPT ![i] = s]
    PROVE  /\ CV!TypeOK' /\ Len(clients') = Len(clients) /\ DOMAIN clients' = DOMAIN clients
           /\ clients'[i] = s /\ \A j \in DOMAIN clients : j # i => clients'[j] = clients[j]
<1>1. clients \in Seq(CV!Slots) /\ s \in CV!Slots /\ DOMAIN clients = 1 .. Len(clients)
  BY SlotTypes DEF WellTyped
<1>2. /\ clients' \in Seq(CV!Slots) /\ Len(clients') = Len(clients)
      /\ DOMAIN clients' = DOMAIN clients /\ clients'[i] = s
      /\ \A j \in DOMAIN clients : j # i => clients'[j] = clients[j]
  BY <1>1, ExceptSeq, LenProperties
<1>3. \A j \in DOMAIN clients' : Len(clients'[j].topics) = Len(clients'[j].options)
  BY <1>2, SlotTypes DEF WellTyped
<1> QED BY <1>2, <1>3 DEF CV!TypeOK

\* A slot is appended.
LEMMA SlotAdded ==
    ASSUME CV!TypeOK, NEW s, WellTyped(s), clients' = Append(clients, s)
    PROVE  /\ CV!TypeOK' /\ Len(clients') = Len(clients) + 1
           /\ DOMAIN clients' = 1 .. Len(clients) + 1
           /\ clients'[Len(clients) + 1] = s
           /\ \A j \in DOMAIN clients : clients'[j] = clients[j]
<1>1. clients \in Seq(CV!Slots) /\ s \in CV!Slots /\ DOMAIN clients = 1 .. Len(clients)
  BY SlotTypes DEF WellTyped
<1>2. /\ clients' \in Seq(CV!Slots) /\ Len(clients') = Len(clients) + 1
      /\ clients'[Len(clients) + 1] = s
      /\ \A j \in DOMAIN clients : clients'[j] = clients[j]
  BY <1>1, AppendProperties
<1>3. DOMAIN clients' = 1 .. Len(clients) + 1
  BY <1>2, LenProperties
<1>4. \A j \in DOMAIN clients' : Len(clients'[j].topics) = Len(clients'[j].options)
  <2> TAKE j \in DOMAIN clients'
  <2>1. CASE j \in DOMAIN clients
    BY <1>2, <2>1, SlotTypes DEF WellTyped
  <2>2. CASE j \notin DOMAIN clients
    <3>1. j = Len(clients) + 1
      BY <1>1, <1>3, <2>2, SlotTypes
    <3> QED BY <1>2, <3>1 DEF WellTyped
  <2> QED BY <2>1, <2>2
<1> QED BY <1>2, <1>3, <1>4 DEF CV!TypeOK

\* Two slots of one subscriber with the same subscriptions.
SameSubscriptions(s, r) == r.id = s.id /\ r.topics = s.topics /\ r.options = s.options

\* register_new_client gives the ID's slot the descriptor, or appends one.
LEMMA RegisterFacts ==
    ASSUME CV!TypeOK, NEW id \in Ids, NEW fd \in Fds, CV!register_new_client(id, fd, "OK")
    PROVE  /\ CV!TypeOK'
           /\ \/ \E i \in DOMAIN clients :
                    /\ clients[i].id = id /\ clients[i].status = "DEAD"
                    /\ DOMAIN clients' = DOMAIN clients
                    /\ clients'[i].fd = fd /\ clients'[i].status = "ACTIVE"
                    /\ SameSubscriptions(clients[i], clients'[i])
                    /\ clients'[i].ready_msgs = clients[i].ready_msgs
                    /\ \A j \in DOMAIN clients : j # i => clients'[j] = clients[j]
              \/ /\ \A j \in DOMAIN clients : clients[j].id # id /\ clients'[j] = clients[j]
                 /\ DOMAIN clients' = 1 .. Len(clients) + 1
                 /\ clients'[Len(clients) + 1] = CV!NewSlot(id, fd)
<1>1. ASSUME NEW i \in DOMAIN clients, CV!IsFirst(i, CV!SlotsOfId(id)),
             clients[i].status = "DEAD",
             clients' = [clients EXCEPT ![i].fd = fd, ![i].status = "ACTIVE"]
      PROVE  /\ CV!TypeOK'
             /\ clients[i].id = id /\ clients[i].status = "DEAD"
             /\ DOMAIN clients' = DOMAIN clients
             /\ clients'[i].fd = fd /\ clients'[i].status = "ACTIVE"
             /\ SameSubscriptions(clients[i], clients'[i])
             /\ clients'[i].ready_msgs = clients[i].ready_msgs
             /\ \A j \in DOMAIN clients : j # i => clients'[j] = clients[j]
  <2> DEFINE s == [clients[i] EXCEPT !.fd = fd, !.status = "ACTIVE"]
  <2>1. clients' = [clients EXCEPT ![i] = s]
    BY <1>1
  <2>2. clients[i] \in CV!Slots /\ Len(clients[i].topics) = Len(clients[i].options)
    BY SlotTypes DEF WellTyped
  <2>3. /\ s \in CV!Slots /\ s.fd = fd /\ s.status = "ACTIVE"
        /\ s.id = clients[i].id /\ s.topics = clients[i].topics
        /\ s.options = clients[i].options /\ s.ready_msgs = clients[i].ready_msgs
    BY <2>2 DEF CV!Slots, CV!Statuses
  <2> HIDE DEF s
  <2>4. WellTyped(s) /\ SameSubscriptions(clients[i], s)
    BY <2>2, <2>3 DEF WellTyped, SameSubscriptions
  <2>5. /\ CV!TypeOK' /\ DOMAIN clients' = DOMAIN clients /\ clients'[i] = s
        /\ \A j \in DOMAIN clients : j # i => clients'[j] = clients[j]
    BY <2>1, <2>4, SlotReplaced
  <2>6. clients[i].id = id
    BY <1>1 DEF CV!IsFirst, CV!SlotsOfId
  <2> QED BY <1>1, <2>3, <2>4, <2>5, <2>6
<1>2. ASSUME CV!SlotsOfId(id) = {}, clients' = Append(clients, CV!NewSlot(id, fd))
      PROVE  /\ CV!TypeOK'
             /\ \A j \in DOMAIN clients : clients[j].id # id /\ clients'[j] = clients[j]
             /\ DOMAIN clients' = 1 .. Len(clients) + 1
             /\ clients'[Len(clients) + 1] = CV!NewSlot(id, fd)
  <2> DEFINE s == CV!NewSlot(id, fd)
  <2>1. s \in CV!Slots /\ s.topics = << >> /\ s.options = << >>
    BY EmptySeq DEF CV!NewSlot, CV!Slots, CV!Statuses
  <2>2. WellTyped(s)
    BY <2>1 DEF WellTyped
  <2> HIDE DEF s
  <2>3. /\ CV!TypeOK' /\ DOMAIN clients' = 1 .. Len(clients) + 1
        /\ clients'[Len(clients) + 1] = s /\ \A j \in DOMAIN clients : clients'[j] = clients[j]
    BY <1>2, <2>2, SlotAdded DEF s
  <2>4. \A j \in DOMAIN clients : clients[j].id # id
    BY <1>2 DEF CV!SlotsOfId
  <2> QED BY <2>3, <2>4 DEF s
<1> QED BY <1>1, <1>2 DEF CV!register_new_client

\* A registration that is refused changes nothing.
LEMMA RefusedFacts ==
    ASSUME NEW id, NEW fd, NEW result, result # "OK",
           CV!register_new_client(id, fd, result)
    PROVE  UNCHANGED clients
BY DEF CV!register_new_client

\* close_active_client takes the descriptor from the first slot that has it.
LEMMA DisconnectFacts ==
    ASSUME CV!TypeOK, NEW fd, NEW result, CV!close_active_client(fd, result)
    PROVE  /\ CV!TypeOK'
           /\ \/ /\ result # "OK" /\ UNCHANGED clients
                 /\ \A i \in DOMAIN clients :
                       clients[i].fd = fd =>
                          \E j \in DOMAIN clients : /\ clients[j].fd = fd
                                                    /\ clients[j].status = "DEAD"
              \/ /\ result = "OK"
                 /\ \E i \in DOMAIN clients :
                       /\ clients[i].fd = fd /\ clients[i].status = "ACTIVE"
                       /\ DOMAIN clients' = DOMAIN clients
                       /\ clients'[i].fd = NoFd /\ clients'[i].status = "DEAD"
                       /\ SameSubscriptions(clients[i], clients'[i])
                       /\ clients'[i].ready_msgs = clients[i].ready_msgs
                       /\ \A j \in DOMAIN clients : j # i => clients'[j] = clients[j]
<1>1. ASSUME NEW i \in DOMAIN clients,
             clients' = [clients EXCEPT ![i].status = "DEAD", ![i].fd = CV!NoFd]
      PROVE  /\ CV!TypeOK'
             /\ DOMAIN clients' = DOMAIN clients
             /\ clients'[i].fd = NoFd /\ clients'[i].status = "DEAD"
             /\ SameSubscriptions(clients[i], clients'[i])
             /\ clients'[i].ready_msgs = clients[i].ready_msgs
             /\ \A j \in DOMAIN clients : j # i => clients'[j] = clients[j]
  <2> DEFINE s == [clients[i] EXCEPT !.status = "DEAD", !.fd = CV!NoFd]
  <2>1. clients' = [clients EXCEPT ![i] = s]
    BY <1>1
  <2>2. clients[i] \in CV!Slots /\ Len(clients[i].topics) = Len(clients[i].options)
    BY SlotTypes DEF WellTyped
  <2>3. /\ s \in CV!Slots /\ s.fd = NoFd /\ s.status = "DEAD"
        /\ s.id = clients[i].id /\ s.topics = clients[i].topics
        /\ s.options = clients[i].options /\ s.ready_msgs = clients[i].ready_msgs
    BY <2>2 DEF CV!Slots, CV!Statuses, CV!NoFd, NoFd
  <2> HIDE DEF s
  <2>4. WellTyped(s) /\ SameSubscriptions(clients[i], s)
    BY <2>2, <2>3 DEF WellTyped, SameSubscriptions
  <2>5. /\ CV!TypeOK' /\ DOMAIN clients' = DOMAIN clients /\ clients'[i] = s
        /\ \A j \in DOMAIN clients : j # i => clients'[j] = clients[j]
    BY <2>1, <2>4, SlotReplaced
  <2> QED BY <2>3, <2>4, <2>5
<1>2. CASE UNCHANGED clients /\ result # "OK"
  <2>1. CV!TypeOK'
    BY <1>2 DEF CV!TypeOK
  <2>2. \/ \E i \in DOMAIN clients : clients[i].fd = fd /\ clients[i].status = "DEAD"
        \/ \A i \in DOMAIN clients : clients[i].fd # fd
    BY <1>2 DEF CV!close_active_client, CV!IsFirst, CV!SlotsOfFd
  <2> QED BY <1>2, <2>1, <2>2
<1>3. ASSUME result = "OK",
             NEW i \in DOMAIN clients, clients[i].fd = fd, clients[i].status = "ACTIVE",
             clients' = [clients EXCEPT ![i].status = "DEAD", ![i].fd = CV!NoFd]
      PROVE  /\ CV!TypeOK'
             /\ \E l \in DOMAIN clients :
                       /\ clients[l].fd = fd /\ clients[l].status = "ACTIVE"
                       /\ DOMAIN clients' = DOMAIN clients
                       /\ clients'[l].fd = NoFd /\ clients'[l].status = "DEAD"
                       /\ SameSubscriptions(clients[l], clients'[l])
                       /\ clients'[l].ready_msgs = clients[l].ready_msgs
                       /\ \A j \in DOMAIN clients : j # l => clients'[j] = clients[j]
  BY <1>1, <1>3
<1>4. \/ UNCHANGED clients /\ result # "OK"
      \/ /\ result = "OK"
         /\ \E i \in DOMAIN clients :
               /\ clients[i].fd = fd /\ clients[i].status = "ACTIVE"
               /\ clients' = [clients EXCEPT ![i].status = "DEAD", ![i].fd = CV!NoFd]
  BY DEF CV!close_active_client, CV!IsFirst, CV!SlotsOfFd
<1> QED BY <1>2, <1>3, <1>4

\* Two slots that differ in the subscriptions only.
SameSession(s, r) == /\ r.id = s.id /\ r.status = s.status /\ r.fd = s.fd
                     /\ r.ready_msgs = s.ready_msgs

\* The subscriptions of one slot change.
LEMMA TopicsReplaced ==
    ASSUME CV!TypeOK, NEW i \in DOMAIN clients,
           NEW T \in Seq(Topics), NEW O \in Seq(Options), Len(T) = Len(O),
           clients' = [clients EXCEPT ![i].topics = T, ![i].options = O]
    PROVE  /\ CV!TypeOK' /\ DOMAIN clients' = DOMAIN clients
           /\ SameSession(clients[i], clients'[i])
           /\ clients'[i].topics = T /\ clients'[i].options = O
           /\ \A j \in DOMAIN clients : j # i => clients'[j] = clients[j]
<1> DEFINE s == [clients[i] EXCEPT !.topics = T, !.options = O]
<1>1. clients' = [clients EXCEPT ![i] = s]
  OBVIOUS
<1>2. clients[i] \in CV!Slots
  BY SlotTypes DEF WellTyped
<1>3. /\ s \in CV!Slots /\ s.topics = T /\ s.options = O
      /\ s.id = clients[i].id /\ s.status = clients[i].status
      /\ s.fd = clients[i].fd /\ s.ready_msgs = clients[i].ready_msgs
  BY <1>2 DEF CV!Slots, CV!Options, Options
<1> HIDE DEF s
<1>4. WellTyped(s) /\ SameSession(clients[i], s)
  BY <1>3 DEF WellTyped, SameSession
<1>5. /\ CV!TypeOK' /\ DOMAIN clients' = DOMAIN clients /\ clients'[i] = s
      /\ \A j \in DOMAIN clients : j # i => clients'[j] = clients[j]
  BY <1>1, <1>4, SlotReplaced
<1> QED BY <1>3, <1>4, <1>5

\* T and O are the topics and the options of slot s with option sf for topic t.
Subscribes(s, t, sf, T, O) ==
    \/ \E j \in DOMAIN s.topics : /\ s.topics[j] = t
                                  /\ T = s.topics /\ O = [s.options EXCEPT ![j] = sf]
    \/ /\ \A j \in DOMAIN s.topics : s.topics[j] # t
       /\ T = Append(s.topics, t) /\ O = Append(s.options, sf)

\* subscribe_client_to_topic sets the option of a topic or adds the topic.
LEMMA SubscribeFacts ==
    ASSUME CV!TypeOK, NEW fd, NEW t \in Topics, NEW sf \in Options, NEW result,
           CV!subscribe_client_to_topic(fd, t, sf, result)
    PROVE  /\ CV!TypeOK'
           /\ result # "OK" => UNCHANGED clients
           /\ result = "OK" => \E i \in DOMAIN clients :
                 /\ clients[i].fd = fd
                 /\ DOMAIN clients' = DOMAIN clients
                 /\ SameSession(clients[i], clients'[i])
                 /\ \A j \in DOMAIN clients : j # i => clients'[j] = clients[j]
                 /\ Subscribes(clients[i], t, sf, clients'[i].topics, clients'[i].options)
<1>1. CASE UNCHANGED clients /\ result # "OK"
  BY <1>1 DEF CV!TypeOK
<1>2. ASSUME result = "OK", NEW i \in DOMAIN clients, clients[i].fd = fd,
             NEW T \in Seq(Topics), NEW O \in Seq(Options), Len(T) = Len(O),
             clients' = [clients EXCEPT ![i].topics = T, ![i].options = O],
             Subscribes(clients[i], t, sf, T, O)
      PROVE  /\ CV!TypeOK'
             /\ \E l \in DOMAIN clients :
                 /\ clients[l].fd = fd
                 /\ DOMAIN clients' = DOMAIN clients
                 /\ SameSession(clients[l], clients'[l])
                 /\ \A j \in DOMAIN clients : j # l => clients'[j] = clients[j]
                 /\ Subscribes(clients[l], t, sf, clients'[l].topics, clients'[l].options)
  <2>1. /\ CV!TypeOK' /\ DOMAIN clients' = DOMAIN clients
        /\ SameSession(clients[i], clients'[i])
        /\ clients'[i].topics = T /\ clients'[i].options = O
        /\ \A j \in DOMAIN clients : j # i => clients'[j] = clients[j]
    BY <1>2, TopicsReplaced
  <2> QED BY <1>2, <2>1
<1>3. ASSUME NEW i \in DOMAIN clients
      PROVE  /\ clients[i].topics \in Seq(Topics) /\ clients[i].options \in Seq(Options)
             /\ Len(clients[i].topics) = Len(clients[i].options)
             /\ DOMAIN clients[i].options = DOMAIN clients[i].topics
  BY SlotTypes DEF WellTyped
<1>4. ASSUME result = "OK", NEW i \in DOMAIN clients, clients[i].fd = fd,
             NEW j \in DOMAIN clients[i].topics, clients[i].topics[j] = t,
             clients' = [clients EXCEPT ![i].options[j] = sf]
      PROVE  \E T \in Seq(Topics), O \in Seq(Options) :
                /\ Len(T) = Len(O)
                /\ clients' = [clients EXCEPT ![i].topics = T, ![i].options = O]
                /\ T = clients[i].topics /\ O = [clients[i].options EXCEPT ![j] = sf]
  <2> DEFINE O == [clients[i].options EXCEPT ![j] = sf]
             T == clients[i].topics
  <2>1. O \in Seq(Options) /\ Len(O) = Len(clients[i].options)
    BY <1>3, ExceptSeq, LenProperties
  <2>2. clients' = [clients EXCEPT ![i].options = O]
    BY <1>4
  <2> HIDE DEF O
  <2>3. [clients[i] EXCEPT !.options = O] = [clients[i] EXCEPT !.topics = T, !.options = O]
    <3>1. clients[i] \in CV!Slots
      BY SlotTypes DEF WellTyped
    <3> QED BY <3>1 DEF CV!Slots
  <2>4. clients' = [clients EXCEPT ![i] = [clients[i] EXCEPT !.options = O]]
    BY <2>2
  <2>5. clients' = [clients EXCEPT ![i].topics = T, ![i].options = O]
    BY <2>3, <2>4
  <2> QED BY <1>3, <2>1, <2>5 DEF O
<1>5. ASSUME result = "OK", NEW i \in DOMAIN clients, clients[i].fd = fd,
             clients' = [clients EXCEPT ![i].topics  = Append(@, t),
                                        ![i].options = Append(@, sf)]
      PROVE  \E T \in Seq(Topics), O \in Seq(Options) :
                /\ Len(T) = Len(O)
                /\ clients' = [clients EXCEPT ![i].topics = T, ![i].options = O]
                /\ T = Append(clients[i].topics, t) /\ O = Append(clients[i].options, sf)
  <2> DEFINE T == Append(clients[i].topics, t)
             O == Append(clients[i].options, sf)
  <2>1. /\ T \in Seq(Topics) /\ Len(T) = Len(clients[i].topics) + 1
        /\ O \in Seq(Options) /\ Len(O) = Len(clients[i].options) + 1
    BY <1>3, AppendProperties
  <2>2. clients' = [clients EXCEPT ![i].topics = T, ![i].options = O]
    BY <1>5
  <2>3. Len(T) = Len(O)
    BY <1>3, <2>1
  <2> QED BY <2>1, <2>2, <2>3
<1>6. \/ UNCHANGED clients /\ result # "OK"
      \/ \E i \in DOMAIN clients :
            /\ clients[i].fd = fd /\ result = "OK"
            /\ \/ \E j \in DOMAIN clients[i].topics :
                     /\ clients[i].topics[j] = t
                     /\ clients' = [clients EXCEPT ![i].options[j] = sf]
               \/ /\ \A j \in DOMAIN clients[i].topics : clients[i].topics[j] # t
                  /\ clients' = [clients EXCEPT ![i].topics  = Append(@, t),
                                                ![i].options = Append(@, sf)]
  BY DEF CV!subscribe_client_to_topic, CV!IsFirst, CV!SlotsOfFd, CV!TopicIndices
<1>7. CASE result = "OK"
  <2>1. PICK i \in DOMAIN clients :
            /\ clients[i].fd = fd
            /\ \/ \E j \in DOMAIN clients[i].topics :
                     /\ clients[i].topics[j] = t
                     /\ clients' = [clients EXCEPT ![i].options[j] = sf]
               \/ /\ \A j \in DOMAIN clients[i].topics : clients[i].topics[j] # t
                  /\ clients' = [clients EXCEPT ![i].topics  = Append(@, t),
                                                ![i].options = Append(@, sf)]
    BY <1>6, <1>7
  <2>2. \E T \in Seq(Topics), O \in Seq(Options) :
           /\ Len(T) = Len(O)
           /\ clients' = [clients EXCEPT ![i].topics = T, ![i].options = O]
           /\ Subscribes(clients[i], t, sf, T, O)
    <3>1. CASE \E j \in DOMAIN clients[i].topics :
                  /\ clients[i].topics[j] = t
                  /\ clients' = [clients EXCEPT ![i].options[j] = sf]
      <4>1. PICK j \in DOMAIN clients[i].topics :
               /\ clients[i].topics[j] = t
               /\ clients' = [clients EXCEPT ![i].options[j] = sf]
        BY <3>1
      <4>2. \E T \in Seq(Topics), O \in Seq(Options) :
               /\ Len(T) = Len(O)
               /\ clients' = [clients EXCEPT ![i].topics = T, ![i].options = O]
               /\ T = clients[i].topics /\ O = [clients[i].options EXCEPT ![j] = sf]
        BY <1>4, <1>7, <2>1, <4>1
      <4>3. PICK T \in Seq(Topics), O \in Seq(Options) :
               /\ Len(T) = Len(O)
               /\ clients' = [clients EXCEPT ![i].topics = T, ![i].options = O]
               /\ T = clients[i].topics /\ O = [clients[i].options EXCEPT ![j] = sf]
        BY <4>2
      <4>4. \E l \in DOMAIN clients[i].topics :
               /\ clients[i].topics[l] = t /\ T = clients[i].topics
               /\ O = [clients[i].options EXCEPT ![l] = sf]
        BY <4>1, <4>3
      <4> QED BY <4>3, <4>4 DEF Subscribes
    <3>2. CASE /\ \A j \in DOMAIN clients[i].topics : clients[i].topics[j] # t
               /\ clients' = [clients EXCEPT ![i].topics  = Append(@, t),
                                             ![i].options = Append(@, sf)]
      <4>1. clients[i].fd = fd
        BY <2>1
      <4>2. \E T \in Seq(Topics), O \in Seq(Options) :
               /\ Len(T) = Len(O)
               /\ clients' = [clients EXCEPT ![i].topics = T, ![i].options = O]
               /\ T = Append(clients[i].topics, t) /\ O = Append(clients[i].options, sf)
        BY <1>5, <1>7, <3>2, <4>1
      <4>3. PICK T \in Seq(Topics), O \in Seq(Options) :
               /\ Len(T) = Len(O)
               /\ clients' = [clients EXCEPT ![i].topics = T, ![i].options = O]
               /\ T = Append(clients[i].topics, t) /\ O = Append(clients[i].options, sf)
        BY <4>2
      <4> QED BY <3>2, <4>3 DEF Subscribes
    <3> QED BY <2>1, <3>1, <3>2
  <2>3. PICK T \in Seq(Topics), O \in Seq(Options) :
           /\ Len(T) = Len(O)
           /\ clients' = [clients EXCEPT ![i].topics = T, ![i].options = O]
           /\ Subscribes(clients[i], t, sf, T, O)
    BY <2>2
  <2>4. clients[i].fd = fd
    BY <2>1
  <2> QED BY <1>2, <1>7, <2>3, <2>4
<1> QED BY <1>1, <1>6, <1>7

\* unsubscribe_client_from_topic takes a topic and its option out of the arrays.
LEMMA UnsubscribeFacts ==
    ASSUME CV!TypeOK, NEW fd, NEW t, NEW result,
           CV!unsubscribe_client_from_topic(fd, t, result)
    PROVE  /\ CV!TypeOK'
           /\ result # "OK" => UNCHANGED clients
           /\ result = "OK" => \E i \in DOMAIN clients :
                 /\ clients[i].fd = fd
                 /\ DOMAIN clients' = DOMAIN clients
                 /\ SameSession(clients[i], clients'[i])
                 /\ \A j \in DOMAIN clients : j # i => clients'[j] = clients[j]
                 /\ \E j \in DOMAIN clients[i].topics :
                       /\ clients[i].topics[j] = t
                       /\ clients'[i].topics = RemoveAt(clients[i].topics, j)
                       /\ clients'[i].options = RemoveAt(clients[i].options, j)
<1>1. CASE UNCHANGED clients /\ result # "OK"
  BY <1>1 DEF CV!TypeOK
<1>2. ASSUME result = "OK", NEW i \in DOMAIN clients, clients[i].fd = fd,
             NEW j \in DOMAIN clients[i].topics, clients[i].topics[j] = t,
             clients' = [clients EXCEPT ![i].topics  = RemoveAt(@, j),
                                        ![i].options = RemoveAt(@, j)]
      PROVE  /\ CV!TypeOK'
             /\ \E l \in DOMAIN clients :
                 /\ clients[l].fd = fd
                 /\ DOMAIN clients' = DOMAIN clients
                 /\ SameSession(clients[l], clients'[l])
                 /\ \A m \in DOMAIN clients : m # l => clients'[m] = clients[m]
                 /\ \E m \in DOMAIN clients[l].topics :
                       /\ clients[l].topics[m] = t
                       /\ clients'[l].topics = RemoveAt(clients[l].topics, m)
                       /\ clients'[l].options = RemoveAt(clients[l].options, m)
  <2> DEFINE T == RemoveAt(clients[i].topics, j)
             O == RemoveAt(clients[i].options, j)
  <2>1. /\ clients[i].topics \in Seq(Topics) /\ clients[i].options \in Seq(Options)
        /\ Len(clients[i].topics) = Len(clients[i].options)
        /\ DOMAIN clients[i].options = DOMAIN clients[i].topics
    BY SlotTypes DEF WellTyped
  <2>2. T \in Seq(Topics) /\ Len(T) = Len(clients[i].topics) - 1
    BY <2>1, RemoveAtProperties
  <2>3. j \in DOMAIN clients[i].options
    BY <2>1
  <2>4. O \in Seq(Options) /\ Len(O) = Len(clients[i].options) - 1
    BY <2>1, <2>3, RemoveAtProperties
  <2>5. clients' = [clients EXCEPT ![i].topics = T, ![i].options = O]
    BY <1>2
  <2> HIDE DEF T, O
  <2>6. /\ CV!TypeOK' /\ DOMAIN clients' = DOMAIN clients
        /\ SameSession(clients[i], clients'[i])
        /\ clients'[i].topics = T /\ clients'[i].options = O
        /\ \A m \in DOMAIN clients : m # i => clients'[m] = clients[m]
    BY <2>1, <2>2, <2>4, <2>5, TopicsReplaced
  <2> QED BY <1>2, <2>6 DEF T, O
<1>3. \/ UNCHANGED clients /\ result # "OK"
      \/ \E i \in DOMAIN clients :
            /\ clients[i].fd = fd /\ result = "OK"
            /\ \E j \in DOMAIN clients[i].topics :
                  /\ clients[i].topics[j] = t
                  /\ clients' = [clients EXCEPT ![i].topics  = RemoveAt(@, j),
                                                ![i].options = RemoveAt(@, j)]
  <2>1. ASSUME NEW i \in DOMAIN clients, CV!IsFirst(i, CV!SlotsOfFd(fd)), result = "OK",
               NEW j \in DOMAIN clients[i].topics, CV!IsFirst(j, CV!TopicIndices(i, t)),
               clients' = [clients EXCEPT ![i].topics  = RemoveAt(@, j),
                                          ![i].options = RemoveAt(@, j)]
        PROVE  clients[i].fd = fd /\ clients[i].topics[j] = t
    BY <2>1 DEF CV!IsFirst, CV!SlotsOfFd, CV!TopicIndices
  <2>2. \/ \E i \in DOMAIN clients :
              /\ CV!IsFirst(i, CV!SlotsOfFd(fd))
              /\ \/ \E j \in DOMAIN clients[i].topics :
                      /\ CV!IsFirst(j, CV!TopicIndices(i, t))
                      /\ result = "OK"
                      /\ clients' = [clients EXCEPT ![i].topics  = RemoveAt(@, j),
                                                    ![i].options = RemoveAt(@, j)]
                 \/ result = "TOPIC_NOT_FOUND" /\ UNCHANGED clients
        \/ result = "NOT_FOUND" /\ UNCHANGED clients
    BY DEF CV!unsubscribe_client_from_topic, CV!RemoveAt, RemoveAt
  <2> QED BY <2>1, <2>2
<1>4. CASE result = "OK"
  <2>1. PICK i \in DOMAIN clients :
            /\ clients[i].fd = fd
            /\ \E j \in DOMAIN clients[i].topics :
                  /\ clients[i].topics[j] = t
                  /\ clients' = [clients EXCEPT ![i].topics  = RemoveAt(@, j),
                                                ![i].options = RemoveAt(@, j)]
    BY <1>3, <1>4
  <2>2. PICK j \in DOMAIN clients[i].topics :
            /\ clients[i].topics[j] = t
            /\ clients' = [clients EXCEPT ![i].topics  = RemoveAt(@, j),
                                          ![i].options = RemoveAt(@, j)]
    BY <2>1
  <2>3. clients[i].fd = fd
    BY <2>1
  <2> QED BY <1>2, <1>4, <2>2, <2>3
<1>5. (UNCHANGED clients /\ result # "OK") \/ result = "OK"
  BY <1>3
<1> QED BY <1>1, <1>4, <1>5

\* The stored messages of one slot change.
LEMMA StoreReplaced ==
    ASSUME CV!TypeOK, NEW i \in DOMAIN clients, NEW R \in Seq(Pointers),
           clients' = [clients EXCEPT ![i].ready_msgs = R]
    PROVE  /\ CV!TypeOK' /\ DOMAIN clients' = DOMAIN clients
           /\ clients'[i].id = clients[i].id /\ clients'[i].status = clients[i].status
           /\ clients'[i].fd = clients[i].fd
           /\ SameSubscriptions(clients[i], clients'[i])
           /\ clients'[i].ready_msgs = R
           /\ \A j \in DOMAIN clients : j # i => clients'[j] = clients[j]
<1> DEFINE s == [clients[i] EXCEPT !.ready_msgs = R]
<1>1. clients' = [clients EXCEPT ![i] = s]
  OBVIOUS
<1>2. clients[i] \in CV!Slots /\ Len(clients[i].topics) = Len(clients[i].options)
  BY SlotTypes DEF WellTyped
<1>3. /\ s \in CV!Slots /\ s.ready_msgs = R /\ s.id = clients[i].id
      /\ s.status = clients[i].status /\ s.fd = clients[i].fd
      /\ s.topics = clients[i].topics /\ s.options = clients[i].options
  BY <1>2 DEF CV!Slots
<1> HIDE DEF s
<1>4. WellTyped(s) /\ SameSubscriptions(clients[i], s)
  BY <1>2, <1>3 DEF WellTyped, SameSubscriptions
<1>5. /\ CV!TypeOK' /\ DOMAIN clients' = DOMAIN clients /\ clients'[i] = s
      /\ \A j \in DOMAIN clients : j # i => clients'[j] = clients[j]
  BY <1>1, <1>4, SlotReplaced
<1> QED BY <1>3, <1>4, <1>5

\* add_topic_msg_for_client puts the pointer behind the stored ones.
LEMMA StoreFacts ==
    ASSUME CV!TypeOK, NEW p \in Pointers, NEW i \in DOMAIN clients, NEW result,
           CV!add_topic_msg_for_client(p, i, result)
    PROVE  /\ CV!TypeOK' /\ DOMAIN clients' = DOMAIN clients
           /\ result # "OK" => UNCHANGED clients
           /\ result = "OK" =>
                 /\ clients'[i].id = clients[i].id /\ clients'[i].status = clients[i].status
                 /\ clients'[i].fd = clients[i].fd
                 /\ SameSubscriptions(clients[i], clients'[i])
                 /\ clients'[i].ready_msgs = Append(clients[i].ready_msgs, p)
                 /\ \A j \in DOMAIN clients : j # i => clients'[j] = clients[j]
<1>1. CASE UNCHANGED clients /\ result # "OK"
  BY <1>1 DEF CV!TypeOK
<1>2. CASE result = "OK" /\ clients' = [clients EXCEPT ![i].ready_msgs = Append(@, p)]
  <2> DEFINE R == Append(clients[i].ready_msgs, p)
  <2>1. clients[i].ready_msgs \in Seq(Pointers)
    BY SlotTypes DEF WellTyped
  <2>2. R \in Seq(Pointers)
    BY <2>1, AppendProperties
  <2>3. clients' = [clients EXCEPT ![i].ready_msgs = R]
    BY <1>2
  <2> HIDE DEF R
  <2>4. /\ CV!TypeOK' /\ DOMAIN clients' = DOMAIN clients
        /\ clients'[i].id = clients[i].id /\ clients'[i].status = clients[i].status
        /\ clients'[i].fd = clients[i].fd
        /\ SameSubscriptions(clients[i], clients'[i])
        /\ clients'[i].ready_msgs = R
        /\ \A j \in DOMAIN clients : j # i => clients'[j] = clients[j]
    BY <2>2, <2>3, StoreReplaced
  <2> QED BY <1>2, <2>4 DEF R
<1> QED BY <1>1, <1>2 DEF CV!add_topic_msg_for_client

\* set_ready_msgs_len keeps the oldest n.
LEMMA ShrinkFacts ==
    ASSUME CV!TypeOK, NEW i \in DOMAIN clients, NEW n \in 0 .. Len(clients[i].ready_msgs),
           CV!set_ready_msgs_len(i, n)
    PROVE  /\ CV!TypeOK' /\ DOMAIN clients' = DOMAIN clients
           /\ clients'[i].id = clients[i].id /\ clients'[i].status = clients[i].status
           /\ clients'[i].fd = clients[i].fd
           /\ SameSubscriptions(clients[i], clients'[i])
           /\ clients'[i].ready_msgs = SubSeq(clients[i].ready_msgs, 1, n)
           /\ clients'[i].ready_msgs \in Seq(Pointers) /\ Len(clients'[i].ready_msgs) = n
           /\ \A m \in 1 .. n : clients'[i].ready_msgs[m] = clients[i].ready_msgs[m]
           /\ \A j \in DOMAIN clients : j # i => clients'[j] = clients[j]
<1> DEFINE R == SubSeq(clients[i].ready_msgs, 1, n)
<1>1. clients[i].ready_msgs \in Seq(Pointers)
  BY SlotTypes DEF WellTyped
<1>2. /\ R \in Seq(Pointers) /\ Len(R) = n
      /\ \A m \in 1 .. n : R[m] = clients[i].ready_msgs[m]
  BY <1>1, SubSeqProperties, LenProperties, ElementOfSeq
<1>3. clients' = [clients EXCEPT ![i].ready_msgs = R]
  BY DEF CV!set_ready_msgs_len
<1>4. /\ CV!TypeOK' /\ DOMAIN clients' = DOMAIN clients
      /\ clients'[i].id = clients[i].id /\ clients'[i].status = clients[i].status
      /\ clients'[i].fd = clients[i].fd
      /\ SameSubscriptions(clients[i], clients'[i])
      /\ clients'[i].ready_msgs = R
      /\ \A j \in DOMAIN clients : j # i => clients'[j] = clients[j]
  <2> HIDE DEF R
  <2> QED BY <1>2, <1>3, StoreReplaced
<1> QED BY <1>2, <1>4

-----------------------------------------------------------------------------
(* The slots and the counter k: the loop of transmit_topic_to_clients is at a slot, the one *)
(* of retransmit_topics_to_client has not more to send than the slot holds.                 *)

SlotsOK ==
    /\ CV!TypeOK /\ k \in Nat
    /\ pc = "transmit" => k \in DOMAIN clients
    /\ pc = "retransmit" => \A i \in DOMAIN clients :
          CV!IsFirst(i, CV!SlotsOfFd(newFd)) => k <= Len(clients[i].ready_msgs)

\* Outside the two loops only the slots matter.
LEMMA OutsideLoops ==
    ASSUME CV!TypeOK', k' \in Nat, pc' \notin {"transmit", "retransmit"}
    PROVE  SlotsOK'
BY DEF SlotsOK

\* A stop of the server, or the loop over the entries, leads outside.
LEMMA LeadsOutside ==
    ASSUME NEW vec, NEW n, ContinueAt(vec, n) \/ Fail
    PROVE  pc' \notin {"transmit", "retransmit"}
BY DEF ContinueAt, Fail

\* Where k is left alone or zeroed, and the slots too.
LEMMA SameSlots ==
    ASSUME SlotsOK, UNCHANGED clients, k' \in {0, k}, pc' \notin {"transmit", "retransmit"}
    PROVE  SlotsOK'
<1>1. CV!TypeOK' /\ k' \in Nat
  BY DEF SlotsOK, CV!TypeOK
<1> QED BY <1>1, OutsideLoops

\* The loop over the clients goes on at a slot, or ends.
LEMMA TransmitSlots ==
    ASSUME CV!TypeOK, CV!TypeOK', DOMAIN clients' = DOMAIN clients,
           NEW n \in Nat \ {0}, NEW t, TransmitFrom(n, t)
    PROVE  SlotsOK'
<1>1. Len(clients) \in Nat /\ DOMAIN clients = 1 .. Len(clients)
  BY SlotTypes
<1>2. CASE pc' = "transmit" /\ k' \in Concerned(n, t)
  <2>1. k' \in n .. Len(clients)
    BY <1>2 DEF Concerned
  <2>2. k' \in DOMAIN clients /\ k' \in Nat
    BY <1>1, <2>1
  <2> QED BY <1>2, <2>2 DEF SlotsOK
<1>3. CASE k' = 0 /\ ContinueAt(pfds, iter + 1)
  BY <1>3, LeadsOutside, OutsideLoops
<1> QED BY <1>2, <1>3 DEF TransmitFrom

\* The end of the retransmission leaves well-formed slots.
LEMMA EndSlots ==
    ASSUME CV!TypeOK, NEW i \in DOMAIN clients, EndRetransmit(i)
    PROVE  SlotsOK'
<1>1. 0 \in 0 .. Len(clients[i].ready_msgs)
  BY SlotTypes, LenProperties
<1>2. CV!TypeOK'
  BY <1>1, ShrinkFacts DEF EndRetransmit
<1> QED BY <1>2, LeadsOutside, OutsideLoops DEF EndRetransmit

\* The connection behind a handler's descriptor was made and has an ID.
LEMMA ConnOfHandler ==
    ASSUME SInv, KnownIds, NEW fd, fd # NoFd, NEW c \in ConnsOf(fd)
    PROVE  /\ c \in Conns /\ conn[c].fd = fd /\ fd \in Fds /\ conn[c].id \in Ids
           /\ conn[c] \in Connections /\ conn[c].peer # "free"
<1>1. c \in Conns /\ conn[c].fd = fd /\ ConnOK(conn)
  BY DEF ConnsOf, SInv
<1> QED BY <1>1, FdTypes DEF KnownIds

\* The descriptor of a handler is one, and has the type of one.
LEMMA FdOfHandler ==
    ASSUME SInv, pc = "process_ready_fds"
    PROVE  pfds[iter] \in Entries /\ pfds[iter].fd \in Fds \cup {STDIN, LISTENER}
           /\ pfds[iter].fd # NoFd
<1>1. iter \in DOMAIN pfds /\ \A n \in DOMAIN pfds : pfds[n] \in Entries
  BY EntryOfHandler, VecTypes
<1> QED BY <1>1, EntryTypes DEF Entries

\* A command that was read is well formed.
LEMMA CommandTypes ==
    ASSUME SInv, NEW c \in Conns, conn[c].inbox # << >>
    PROVE  LET m == Head(conn[c].inbox) IN
           /\ m \in Commands \cup {IdMsg}
           /\ m.cmd \in {"subscribe", "unsubscribe"} => m.topic \in Topics
           /\ m.cmd = "subscribe" => m.sf \in Options
<1>1. conn[c].inbox \in Seq(Commands \cup {IdMsg})
  BY DEF SInv, ConnOK, Connections
<1>2. Head(conn[c].inbox) \in Commands \cup {IdMsg}
  BY <1>1, HeadTailProperties
<1>3. \A m \in Commands \cup {IdMsg} :
         /\ m.cmd \in {"subscribe", "unsubscribe"} => m.topic \in Topics
         /\ m.cmd = "subscribe" => m.sf \in Options
  BY DEF Commands, IdMsg
<1> QED BY <1>2, <1>3

\* A client's command changes subscriptions only.
LEMMA CommandFacts ==
    ASSUME SInv, KnownIds, CV!TypeOK, recv_command
    PROVE  /\ CV!TypeOK' /\ DOMAIN clients' = DOMAIN clients
           /\ \A i \in DOMAIN clients : SameSession(clients[i], clients'[i])
<1>1. pc = "process_ready_fds" /\ pfds[iter].fd # NoFd
  BY FdOfHandler DEF recv_command, Now
<1>2. PICK c \in ConnsOf(pfds[iter].fd), result \in CV!Results :
        /\ conn[c].inbox # << >>
        /\ LET m == Head(conn[c].inbox) IN
           \/ /\ m.cmd = "subscribe"
              /\ CV!subscribe_client_to_topic(pfds[iter].fd, m.topic, m.sf, result)
           \/ /\ m.cmd = "unsubscribe"
              /\ CV!unsubscribe_client_from_topic(pfds[iter].fd, m.topic, result)
           \/ UNCHANGED clients
  BY DEF recv_command
<1>3. c \in Conns
  BY <1>1, <1>2, ConnOfHandler
<1> DEFINE m == Head(conn[c].inbox)
<1>4. /\ m.cmd \in {"subscribe", "unsubscribe"} => m.topic \in Topics
      /\ m.cmd = "subscribe" => m.sf \in Options
  BY <1>2, <1>3, CommandTypes
<1>5. \/ /\ m.cmd = "subscribe"
         /\ CV!subscribe_client_to_topic(pfds[iter].fd, m.topic, m.sf, result)
      \/ /\ m.cmd = "unsubscribe"
         /\ CV!unsubscribe_client_from_topic(pfds[iter].fd, m.topic, result)
      \/ UNCHANGED clients
  BY <1>2
<1> HIDE DEF m
<1>6. CASE UNCHANGED clients
  BY <1>6 DEF CV!TypeOK, SameSession
<1>7. ASSUME CV!TypeOK', NEW i \in DOMAIN clients, DOMAIN clients' = DOMAIN clients,
             SameSession(clients[i], clients'[i]),
             \A j \in DOMAIN clients : j # i => clients'[j] = clients[j]
      PROVE  \A j \in DOMAIN clients : SameSession(clients[j], clients'[j])
  BY <1>7 DEF SameSession
<1>8. CASE /\ m.cmd = "subscribe"
           /\ CV!subscribe_client_to_topic(pfds[iter].fd, m.topic, m.sf, result)
  <2>1. /\ CV!TypeOK'
        /\ result # "OK" => UNCHANGED clients
        /\ result = "OK" => \E i \in DOMAIN clients :
              /\ DOMAIN clients' = DOMAIN clients
              /\ SameSession(clients[i], clients'[i])
              /\ \A j \in DOMAIN clients : j # i => clients'[j] = clients[j]
    <3> DEFINE topic == m.topic
               sf == m.sf
               f == pfds[iter].fd
    <3>1. topic \in Topics /\ sf \in Options
      BY <1>4, <1>8
    <3>2. CV!TypeOK /\ CV!subscribe_client_to_topic(f, topic, sf, result)
      BY <1>8
    <3> HIDE DEF topic, f, sf
    <3>3. CV!TypeOK'
      BY <3>1, <3>2, SubscribeFacts
    <3>5. result # "OK" => UNCHANGED clients
      BY <3>2 DEF CV!subscribe_client_to_topic
    <3>4. ASSUME result = "OK"
          PROVE  \E i \in DOMAIN clients :
                    /\ DOMAIN clients' = DOMAIN clients
                    /\ SameSession(clients[i], clients'[i])
                    /\ \A j \in DOMAIN clients : j # i => clients'[j] = clients[j]
      BY <3>1, <3>2, <3>4, SubscribeFacts
    <3> QED BY <3>3, <3>4, <3>5
  <2>2. CASE result # "OK"
    BY <1>6, <2>1, <2>2
  <2>3. CASE result = "OK"
    <3>1. PICK i \in DOMAIN clients :
              /\ DOMAIN clients' = DOMAIN clients
              /\ SameSession(clients[i], clients'[i])
              /\ \A j \in DOMAIN clients : j # i => clients'[j] = clients[j]
      BY <2>1, <2>3
    <3> QED BY <1>7, <2>1, <3>1
  <2> QED BY <2>2, <2>3
<1>9. CASE /\ m.cmd = "unsubscribe"
           /\ CV!unsubscribe_client_from_topic(pfds[iter].fd, m.topic, result)
  <2>1. /\ CV!TypeOK'
        /\ result # "OK" => UNCHANGED clients
        /\ result = "OK" => \E i \in DOMAIN clients :
              /\ DOMAIN clients' = DOMAIN clients
              /\ SameSession(clients[i], clients'[i])
              /\ \A j \in DOMAIN clients : j # i => clients'[j] = clients[j]
    <3> DEFINE topic == m.topic
               f == pfds[iter].fd
    <3>1. topic \in Topics
      BY <1>4, <1>9
    <3>2. CV!TypeOK /\ CV!unsubscribe_client_from_topic(f, topic, result)
      BY <1>9
    <3> HIDE DEF topic, f
    <3>3. CV!TypeOK' /\ (result # "OK" => UNCHANGED clients)
      BY <3>1, <3>2, UnsubscribeFacts
    <3>4. ASSUME result = "OK"
          PROVE  \E i \in DOMAIN clients :
                    /\ DOMAIN clients' = DOMAIN clients
                    /\ SameSession(clients[i], clients'[i])
                    /\ \A j \in DOMAIN clients : j # i => clients'[j] = clients[j]
      BY <3>1, <3>2, <3>4, UnsubscribeFacts
    <3> QED BY <3>3, <3>4
  <2>2. CASE result # "OK"
    BY <1>6, <2>1, <2>2
  <2>3. CASE result = "OK"
    <3>1. PICK i \in DOMAIN clients :
              /\ DOMAIN clients' = DOMAIN clients
              /\ SameSession(clients[i], clients'[i])
              /\ \A j \in DOMAIN clients : j # i => clients'[j] = clients[j]
      BY <2>1, <2>3
    <3> QED BY <1>7, <2>1, <3>1
  <2> QED BY <2>2, <2>3
<1> QED BY <1>5, <1>6, <1>8, <1>9

\* Every step keeps the slots well formed.
LEMMA SlotsStep ==
    ASSUME SInv, KnownIds, LoopTypes, DataTypes, SlotsOK, [Next]_vars
    PROVE  SlotsOK'
<1>1. CV!TypeOK /\ k \in Nat /\ ConnOK(conn)
  BY DEF SlotsOK, SInv
<1>2. CASE Env \/ UNCHANGED vars
  <2>1. UNCHANGED <<pc, pfds, k, clients>>
    BY <1>1, <1>2, EnvFacts DEF vars, serverVars
  <2> QED BY <2>1 DEF SlotsOK, CV!TypeOK, CV!IsFirst, CV!SlotsOfFd, newFd
<1>3. ASSUME Gone("done") \/ Gone("killed") PROVE SlotsOK'
  <2>1. clients' = << >> /\ k' = 0 /\ pc' \in {"done", "killed"}
    BY <1>3 DEF Gone
  <2>2. CV!TypeOK'
    BY <2>1, EmptySeq DEF CV!TypeOK
  <2> QED BY <2>1, <2>2, OutsideLoops
<1>4. CASE wait_for_ready_fds \/ poll_fails \/ check_if_exit
  <2>1. UNCHANGED clients /\ k' \in {0, k} /\ pc' \notin {"transmit", "retransmit"}
    BY <1>4, LeadsOutside DEF wait_for_ready_fds, poll_fails, check_if_exit, Fail
  <2> QED BY <2>1, SameSlots
<1>5. CASE free_server \/ send_killed
  BY <1>3, <1>5 DEF free_server, send_killed
<1>6. CASE recv_udp_message \/ recv_udp_from_client
  <2>1. UNCHANGED clients
    BY <1>6 DEF recv_udp_message, recv_udp_from_client
  <2>2. CV!TypeOK'
    BY <1>1, <2>1 DEF CV!TypeOK
  <2>3. \/ \E t : TransmitFrom(1, t)
        \/ k' \in {0, k} /\ pc' \notin {"transmit", "retransmit"}
    BY <1>6, LeadsOutside DEF recv_udp_message, recv_udp_from_client, AddMessage,
       RefuseMessage, DropEntry, Fail
  <2>4. CASE \E t : TransmitFrom(1, t)
    BY <1>1, <2>1, <2>2, <2>4, TransmitSlots
  <2> QED BY <2>1, <2>3, <2>4, SameSlots
<1>7. CASE transmit_send
  <2>1. UNCHANGED clients /\ TransmitFrom(k + 1, Last(udp_msgs))
    BY <1>7 DEF transmit_send
  <2>2. CV!TypeOK'
    BY <1>1, <2>1 DEF CV!TypeOK
  <2> QED BY <1>1, <2>1, <2>2, TransmitSlots
<1>8. CASE transmit_store
  <2>1. k \in DOMAIN clients /\ pc = "transmit"
    BY <1>8 DEF transmit_store, Now, SlotsOK
  <2> DEFINE p == [blk |-> blk, msg |-> Len(udp_msgs)]
  <2>2. p \in Pointers
    <3>1. blk \in Blocks /\ Len(udp_msgs) \in 1 .. MaxPublish
      BY <2>1, LenProperties, BoundsAssumption DEF DataTypes, ArrayTypes
    <3> QED BY <3>1 DEF Pointers
  <2>3. PICK result \in {"OK", "ALLOCATION_FAILED"} :
          /\ CV!add_topic_msg_for_client(p, k, result)
          /\ TransmitFrom(k + 1, Last(udp_msgs)) \/ Fail
    BY <1>8 DEF transmit_store
  <2> HIDE DEF p
  <2>4. CV!TypeOK' /\ DOMAIN clients' = DOMAIN clients
    BY <1>1, <2>1, <2>2, <2>3, StoreFacts
  <2>5. CASE TransmitFrom(k + 1, Last(udp_msgs))
    BY <1>1, <2>4, <2>5, TransmitSlots
  <2>6. CASE Fail
    BY <2>4, <2>6, OutsideLoops DEF Fail
  <2> QED BY <2>3, <2>5, <2>6
<1>9. CASE accept_client
  <2>1. UNCHANGED clients /\ k' \in {0, k} /\ pc' \notin {"transmit", "retransmit"}
    BY <1>9 DEF accept_client, Fail
  <2> QED BY <2>1, SameSlots
<1>10. CASE recv_id
  <2>1. pc = "recv_id" /\ newFd # NoFd
    BY <1>10, EntryOfNew DEF recv_id, Now
  <2>2. PICK c \in ConnsOf(newFd), result \in CV!Results :
          \/ /\ CV!register_new_client(conn[c].id, newFd, result)
             /\ \/ /\ result = "OK" /\ pc' = "retransmit" /\ UNCHANGED pfds
                   /\ k' \in {Len(clients'[i].ready_msgs) :
                                 i \in {j \in DOMAIN clients' :
                                          /\ clients'[j].fd = newFd
                                          /\ \A l \in 1 .. j - 1 : clients'[l].fd # newFd}}
                \/ /\ result # "OK" /\ UNCHANGED k
                   /\ ContinueAt(poll_vec_remove_fd(pfds, Len(pfds)), iter + 1)
          \/ UNCHANGED clients /\ Fail
    BY <1>10 DEF recv_id
  <2>3. newFd \in Fds /\ conn[c].id \in Ids
    BY <2>1, <2>2, ConnOfHandler
  <2>4. ASSUME CV!register_new_client(conn[c].id, newFd, "OK"),
               pc' = "retransmit", UNCHANGED pfds,
               NEW i \in DOMAIN clients', clients'[i].fd = newFd,
               \A l \in 1 .. i - 1 : clients'[l].fd # newFd,
               k' = Len(clients'[i].ready_msgs)
        PROVE  SlotsOK'
    <3>1. CV!TypeOK'
      BY <1>1, <2>3, <2>4, RegisterFacts
    <3>2. /\ Len(clients') \in Nat /\ DOMAIN clients' = 1 .. Len(clients')
          /\ clients'[i].ready_msgs \in Seq(Pointers)
      BY <2>4, <3>1, SlotTypesNext DEF SlotFields
    <3>3. k' \in Nat /\ newFd' = newFd
      BY <2>4, <3>2, LenProperties DEF newFd
    <3>4. ASSUME NEW j \in DOMAIN clients', CV!IsFirst(j, CV!SlotsOfFd(newFd))'
          PROVE  j = i
      <4>1. clients'[j].fd = newFd /\ j <= i
        BY <2>4, <3>3, <3>4 DEF CV!IsFirst, CV!SlotsOfFd
      <4> QED BY <2>4, <3>2, <4>1
    <3> QED BY <2>4, <3>1, <3>2, <3>3, <3>4 DEF SlotsOK
  <2>5. CASE result # "OK" /\ CV!register_new_client(conn[c].id, newFd, result)
             /\ UNCHANGED k /\ ContinueAt(poll_vec_remove_fd(pfds, Len(pfds)), iter + 1)
    <3>1. UNCHANGED clients
      BY <2>5, RefusedFacts
    <3> QED BY <2>5, <3>1, LeadsOutside, SameSlots
  <2>6. CASE UNCHANGED clients /\ Fail
    BY <2>6, LeadsOutside, SameSlots DEF Fail
  <2> QED BY <2>2, <2>4, <2>5, <2>6
<1>11. CASE retransmit_send
  <2>1. pc = "retransmit" /\ k > 0
    BY <1>11 DEF retransmit_send, Now
  <2>2. \/ k' = k - 1 /\ UNCHANGED <<pc, pfds, clients>>
        \/ \E i \in DOMAIN clients : EndRetransmit(i)
    BY <1>11 DEF retransmit_send
  <2>3. CASE k' = k - 1 /\ UNCHANGED <<pc, pfds, clients>>
    <3>1. \A i \in DOMAIN clients : Len(clients[i].ready_msgs) \in Nat
      BY <1>1, SlotTypes, LenProperties
    <3>2. k' \in Nat /\ k' <= k
      BY <1>1, <2>1, <2>3
    <3>3. CV!TypeOK' /\ newFd' = newFd /\ CV!SlotsOfFd(newFd)' = CV!SlotsOfFd(newFd)
      BY <1>1, <2>3 DEF CV!TypeOK, newFd, CV!SlotsOfFd
    <3>4. ASSUME NEW i \in DOMAIN clients, CV!IsFirst(i, CV!SlotsOfFd(newFd))
          PROVE  k' <= Len(clients[i].ready_msgs)
      <4>1. k <= Len(clients[i].ready_msgs)
        BY <2>1, <3>4 DEF SlotsOK
      <4> QED BY <1>1, <3>1, <3>2, <4>1
    <3> QED BY <2>1, <2>3, <3>2, <3>3, <3>4 DEF SlotsOK, CV!IsFirst
  <2> QED BY <1>1, <2>2, <2>3, EndSlots
<1>12. CASE retransmit_done
  BY <1>1, <1>12, EndSlots DEF retransmit_done
<1>13. CASE retransmit_dangling
  <2>1. pc = "retransmit"
    BY <1>13 DEF retransmit_dangling, Now
  <2>2. CASE Gone("killed")
    BY <1>3, <2>2
  <2>3. ASSUME NEW i \in DOMAIN clients, CV!IsFirst(i, CV!SlotsOfFd(newFd)),
               CV!set_ready_msgs_len(i, k), k' = 0, ContinueAt(pfds, iter + 1)
        PROVE  SlotsOK'
    <3>1. k \in 0 .. Len(clients[i].ready_msgs)
      <4>1. k <= Len(clients[i].ready_msgs)
        BY <2>1, <2>3 DEF SlotsOK
      <4>2. Len(clients[i].ready_msgs) \in Nat
        BY <1>1, SlotTypes, LenProperties
      <4> QED BY <1>1, <4>1, <4>2
    <3>2. CV!TypeOK'
      BY <1>1, <2>3, <3>1, ShrinkFacts
    <3> QED BY <2>3, <3>2, LeadsOutside, OutsideLoops
  <2> QED BY <1>13, <2>2, <2>3 DEF retransmit_dangling
<1>14. CASE recv_command
  <2>1. UNCHANGED k /\ ContinueAt(pfds, iter + 1)
    BY <1>14 DEF recv_command
  <2>2. CV!TypeOK'
    BY <1>1, <1>14, CommandFacts
  <2> QED BY <1>1, <2>1, <2>2, LeadsOutside, OutsideLoops
<1>15. CASE recv_end
  <2>1. /\ UNCHANGED k
        /\ \E result \in CV!Results : CV!close_active_client(pfds[iter].fd, result)
        /\ DropEntry \/ ContinueAt(pfds, iter + 1)
    BY <1>15 DEF recv_end
  <2>2. CV!TypeOK'
    BY <1>1, <2>1, DisconnectFacts
  <2> QED BY <1>1, <2>1, <2>2, LeadsOutside, OutsideLoops DEF DropEntry
<1> QED BY <1>2, <1>4, <1>5, <1>6, <1>7, <1>8, <1>9, <1>10, <1>11, <1>12, <1>13, <1>14,
           <1>15, StepCases DEF ServerStep

-----------------------------------------------------------------------------
(* The history. *)

Wishes == [Ids -> [Topics -> {"none"} \cup Options]]
Claims == [Ids -> SUBSET (1 .. MaxPublish)]
Logs   == [Conns -> Seq({Junk} \cup 1 .. MaxPublish)]

HistoryTypes ==
    /\ todo \subseteq Fds \cup {LISTENER} /\ ends \subseteq Conns
    /\ since \in [Conns -> {Away} \cup Nat]
    /\ want \in Wishes /\ due \in Claims /\ lost \in Claims /\ log \in Logs

\* What a message is called in the history.
LEMMA MessageTypes ==
    ASSUME DataTypes, pc = "transmit"
    PROVE  Len(udp_msgs) \in 1 .. MaxPublish
BY LenProperties, BoundsAssumption DEF DataTypes, ArrayTypes

\* The pointers of a slot name messages, whatever they point at by now.
LEMMA StoredTypes ==
    ASSUME CV!TypeOK, NEW i \in DOMAIN clients
    PROVE  /\ Len(clients[i].ready_msgs) \in Nat
           /\ DOMAIN clients[i].ready_msgs = 1 .. Len(clients[i].ready_msgs)
           /\ \A n \in DOMAIN clients[i].ready_msgs :
                 /\ clients[i].ready_msgs[n] \in Pointers
                 /\ clients[i].ready_msgs[n].msg \in 1 .. MaxPublish
                 /\ clients[i].ready_msgs[n].blk \in Nat
<1>1. clients[i].ready_msgs \in Seq(Pointers)
  BY SlotTypes
<1>2. \A p \in Pointers : p.msg \in 1 .. MaxPublish /\ p.blk \in Nat
  BY BoundsAssumption DEF Pointers, Blocks
<1> QED BY <1>1, <1>2, LenProperties, ElementOfSeq

\* A message is appended to the logs of some connections.
LEMMA LogTypes ==
    ASSUME log \in Logs, NEW m \in {Junk} \cup 1 .. MaxPublish, NEW S,
           log' = [c \in Conns |-> IF c \in S THEN Append(log[c], m) ELSE log[c]]
    PROVE  log' \in Logs
<1>1. ASSUME NEW c \in Conns
      PROVE  Append(log[c], m) \in Seq({Junk} \cup 1 .. MaxPublish)
  <2>1. log[c] \in Seq({Junk} \cup 1 .. MaxPublish)
    BY DEF Logs
  <2> QED BY <2>1, AppendProperties
<1> QED BY <1>1 DEF Logs

\* The handlers that do not write the history, except that they take an entry off the list.
LEMMA SameHistory ==
    ASSUME HistoryTypes, todo' \subseteq todo, UNCHANGED <<ends, since, want, due, log, lost>>
    PROVE  HistoryTypes'
BY DEF HistoryTypes

\* The empty history.
LEMMA NoHistory ==
    ASSUME todo' = {}, ends' = {}, since' = AllAway, want' = NoSubscriptions,
           due' = NoMessages, log' = NothingSent, lost' = NoMessages
    PROVE  HistoryTypes'
<1>1. << >> \in Seq({Junk} \cup 1 .. MaxPublish)
  BY EmptySeq
<1>2. since' \in [Conns -> {Away} \cup Nat] /\ log' \in Logs
  BY <1>1 DEF AllAway, NothingSent, Logs
<1>3. want' \in Wishes /\ due' \in Claims /\ lost' \in Claims
  BY DEF NoSubscriptions, NoMessages, Wishes, Claims
<1> QED BY <1>2, <1>3 DEF HistoryTypes

\* Every step keeps the history within its types.
LEMMA HistoryStep ==
    ASSUME SInv, KnownIds, LoopTypes, DataTypes, SlotsOK, HistoryTypes, [Next]_vars
    PROVE  HistoryTypes'
<1>1. ConnOK(conn) /\ CV!TypeOK
  BY DEF SInv, SlotsOK
<1>2. CASE Env \/ UNCHANGED vars
  BY <1>1, <1>2, EnvFacts, SameHistory DEF vars, history
<1>3. CASE free_server \/ send_killed
  BY <1>3, NoHistory DEF free_server, send_killed, Gone
<1>4. CASE wait_for_ready_fds
  <2> DEFINE w == [n \in DOMAIN pfds |-> Entry(pfds[n].fd, ReadableFd(pfds[n].fd))]
  <2>1. /\ todo' = {w[n].fd : n \in ReportedFrom(w, 2)} /\ ends' \subseteq Conns
        /\ UNCHANGED <<since, want, due, log, lost>>
    BY <1>4 DEF wait_for_ready_fds, live
  <2>2. VecOK(pfds, conn)
    BY <1>4 DEF wait_for_ready_fds, Now, SInv, WaitOK
  <2>3. /\ Len(pfds) \in Nat /\ DOMAIN pfds = 1 .. Len(pfds)
        /\ \A n \in DOMAIN pfds : pfds[n] \in Entries
    BY <2>2, VecTypes DEF VecOK
  <2>4. ASSUME NEW n \in ReportedFrom(w, 2) PROVE w[n].fd \in Fds \cup {LISTENER}
    <3>1. n \in 2 .. Len(w)
      BY DEF ReportedFrom
    <3>2. w \in [1 .. Len(pfds) -> {Entry(pfds[m].fd, ReadableFd(pfds[m].fd)) :
                                        m \in DOMAIN pfds}]
      BY <2>3
    <3>3. Len(w) = Len(pfds)
      <4> HIDE DEF w
      <4> QED BY <2>3, <3>2, SeqDef, LenProperties
    <3>4. n \in DOMAIN pfds /\ 1 \in DOMAIN pfds /\ n # 1
      BY <2>2, <2>3, <3>1, <3>3 DEF VecOK
    <3>5. pfds[n].fd # STDIN /\ pfds[n].fd \in Fds \cup {STDIN, LISTENER}
      BY <2>2, <2>3, <3>4 DEF VecOK, Entries
    <3>6. w[n].fd = pfds[n].fd
      BY <3>4 DEF Entry
    <3> HIDE DEF w
    <3> QED BY <3>5, <3>6
  <2> HIDE DEF w
  <2> QED BY <2>1, <2>4 DEF HistoryTypes
<1>5. CASE poll_fails \/ check_if_exit
  BY <1>5, SameHistory DEF poll_fails, check_if_exit, history
<1>6. CASE recv_udp_message
  <2>1. /\ Handled(UDP) /\ UNCHANGED <<ends, since, want, log, lost>> /\ UdpOpen /\ udpq # << >>
        /\ \/ UNCHANGED due
           \/ \E t : due' = [id \in Ids |-> IF id \in ClaimsTo(t)
                                           THEN due[id] \cup {Len(udp_msgs) + 1} ELSE due[id]]
    BY <1>6 DEF recv_udp_message
  <2>2. Len(udp_msgs) + 1 \in 1 .. MaxPublish
    <3>1. /\ udpq \in Seq(Datagrams) /\ published \in 0 .. MaxPublish
          /\ udp_msgs \in Seq(Topics \cup {NoTopic})
          /\ Len(udp_msgs) + Len(udpq) <= published
      BY <2>1 DEF DataTypes, InputTypes, ArrayTypes
    <3>2. Len(udpq) \in Nat /\ Len(udpq) > 0 /\ Len(udp_msgs) \in Nat
      BY <2>1, <3>1, LenProperties, HeadTailProperties
    <3> QED BY <3>1, <3>2, BoundsAssumption
  <2>3. due' \in Claims
    BY <2>1, <2>2 DEF HistoryTypes, Claims
  <2> QED BY <2>1, <2>3 DEF HistoryTypes, Handled
<1>7. CASE recv_udp_from_client
  <2>1. /\ Handled(UDP) /\ UNCHANGED <<ends, want, due, log, lost>>
        /\ UNCHANGED since \/ \E c \in Conns : since' = [since EXCEPT ![c] = Away]
    BY <1>7 DEF recv_udp_from_client, ConnsOf
  <2>2. since' \in [Conns -> {Away} \cup Nat]
    BY <2>1 DEF HistoryTypes
  <2> QED BY <2>1, <2>2 DEF HistoryTypes, Handled
<1>8. CASE transmit_send
  <2>1. pc = "transmit" /\ k \in DOMAIN clients
    BY <1>8 DEF transmit_send, Now, SlotsOK
  <2>2. PICK result \in {"OK", "FAILED"} :
          /\ log' = [c \in Conns |-> IF result = "OK" /\ c \in ConnsOf(clients[k].fd)
                                     THEN Append(log[c], Len(udp_msgs)) ELSE log[c]]
          /\ lost' = IF result = "OK" THEN lost
                     ELSE [lost EXCEPT ![clients[k].id] = @ \cup {Len(udp_msgs)}]
          /\ UNCHANGED <<todo, ends, since, want, due>>
    BY <1>8 DEF transmit_send
  <2>3. Len(udp_msgs) \in 1 .. MaxPublish
    BY <2>1, MessageTypes
  <2> DEFINE S == {c \in ConnsOf(clients[k].fd) : result = "OK"}
  <2>4. log' = [c \in Conns |-> IF c \in S THEN Append(log[c], Len(udp_msgs)) ELSE log[c]]
    BY <2>2
  <2> HIDE DEF S
  <2>5. log' \in Logs
    BY <2>3, <2>4, LogTypes DEF HistoryTypes
  <2>6. lost' \in Claims
    BY <2>2, <2>3 DEF HistoryTypes, Claims
  <2> QED BY <2>2, <2>5, <2>6 DEF HistoryTypes
<1>9. CASE transmit_store \/ retransmit_done
  BY <1>9, SameHistory DEF transmit_store, retransmit_done, history
<1>10. CASE accept_client
  BY <1>10, SameHistory DEF accept_client, Handled
<1>11. CASE recv_id
  <2>1. /\ UNCHANGED <<todo, ends, want, due, log, lost>>
        /\ UNCHANGED since \/ \E c \in Conns : since' = [since EXCEPT ![c] = Len(udp_msgs)]
    BY <1>11 DEF recv_id, ConnsOf
  <2>2. Len(udp_msgs) \in Nat
    BY LenProperties DEF DataTypes, ArrayTypes
  <2>3. since' \in [Conns -> {Away} \cup Nat]
    BY <2>1, <2>2 DEF HistoryTypes
  <2> QED BY <2>1, <2>3 DEF HistoryTypes
<1>12. CASE retransmit_send
  <2>1. pc = "retransmit" /\ k \in Nat /\ k > 0
    BY <1>12 DEF retransmit_send, Now, SlotsOK
  <2>2. PICK i \in DOMAIN clients :
          /\ CV!IsFirst(i, CV!SlotsOfFd(newFd))
          /\ \E m \in Stored(NextStored(clients[i].ready_msgs, k)) :
                \/ /\ log' = [c \in Conns |-> IF c \in ConnsOf(newFd) THEN Append(log[c], m)
                                                                      ELSE log[c]]
                   /\ UNCHANGED lost
                \/ /\ UNCHANGED log
                   /\ lost' = [lost EXCEPT ![clients[i].id] =
                                  @ \cup MessagesOf(SubSeq(clients[i].ready_msgs, 1, k))]
    BY <1>12 DEF retransmit_send
  <2> DEFINE R == clients[i].ready_msgs
  <2>3. k <= Len(R)
    BY <2>1, <2>2 DEF SlotsOK
  <2>4. /\ Len(R) \in Nat /\ DOMAIN R = 1 .. Len(R) /\ R \in Seq(Pointers)
        /\ \A n \in DOMAIN R : R[n] \in Pointers /\ R[n].msg \in 1 .. MaxPublish
    BY <1>1, StoredTypes, SlotTypes
  <2> HIDE DEF R
  <2>5. k \in DOMAIN R
    BY <2>1, <2>3, <2>4
  <2>6. Stored(R[k]) \subseteq {Junk} \cup 1 .. MaxPublish
    BY <2>4, <2>5 DEF Stored
  <2>7. MessagesOf(SubSeq(R, 1, k)) \subseteq 1 .. MaxPublish
    <3>1. /\ SubSeq(R, 1, k) \in Seq(Pointers)
          /\ DOMAIN SubSeq(R, 1, k) = 1 .. k
          /\ \A n \in 1 .. k : SubSeq(R, 1, k)[n] = R[n]
      BY <2>1, <2>3, <2>4, SubSeqProperties, LenProperties
    <3>2. \A n \in 1 .. k : R[n].msg \in 1 .. MaxPublish
      BY <2>1, <2>3, <2>4
    <3> DEFINE s == SubSeq(R, 1, k)
    <3> HIDE DEF s
    <3>3. \A n \in DOMAIN s : s[n].msg \in 1 .. MaxPublish
      BY <3>1, <3>2 DEF s
    <3>4. MessagesOf(s) \subseteq 1 .. MaxPublish
      BY <3>3 DEF MessagesOf
    <3> QED BY <3>4 DEF s
  <2>8. log' \in Logs
    BY <2>2, <2>6, LogTypes DEF HistoryTypes, NextStored, R
  <2>9. lost' \in Claims
    <3>1. CASE UNCHANGED lost
      BY <3>1 DEF HistoryTypes
    <3>2. CASE lost' = [lost EXCEPT ![clients[i].id] = @ \cup MessagesOf(SubSeq(R, 1, k))]
      <4> DEFINE M == MessagesOf(SubSeq(R, 1, k))
      <4>1. lost' = [lost EXCEPT ![clients[i].id] = @ \cup M]
        BY <3>2
      <4> HIDE DEF M
      <4>2. M \subseteq 1 .. MaxPublish
        BY <2>7 DEF M
      <4> QED BY <4>1, <4>2 DEF HistoryTypes, Claims
    <3> QED BY <2>2, <3>1, <3>2 DEF R
  <2>10. UNCHANGED <<todo, ends, since, want, due>>
    BY <1>12 DEF retransmit_send
  <2> QED BY <2>8, <2>9, <2>10 DEF HistoryTypes
<1>13. CASE retransmit_dangling
  BY <1>13, SameHistory, NoHistory DEF retransmit_dangling, history, Gone
<1>14. CASE recv_command
  <2>1. /\ pc = "process_ready_fds" /\ pfds[iter].fd # NoFd /\ Handled(pfds[iter].fd)
        /\ UNCHANGED <<ends, since, due, log, lost>>
    BY <1>14, FdOfHandler DEF recv_command, Now
  <2>2. PICK c \in ConnsOf(pfds[iter].fd) :
          /\ conn[c].inbox # << >>
          /\ LET m == Head(conn[c].inbox) IN
             \/ UNCHANGED want
             \/ m.cmd = "subscribe" /\ want' = [want EXCEPT ![conn[c].id][m.topic] = m.sf]
             \/ m.cmd = "unsubscribe" /\ want' = [want EXCEPT ![conn[c].id][m.topic] = "none"]
    BY <1>14 DEF recv_command
  <2>3. c \in Conns /\ conn[c].id \in Ids
    BY <2>1, <2>2, ConnOfHandler
  <2> DEFINE m == Head(conn[c].inbox)
  <2>4. /\ m.cmd \in {"subscribe", "unsubscribe"} => m.topic \in Topics
        /\ m.cmd = "subscribe" => m.sf \in Options
    BY <2>2, <2>3, CommandTypes
  <2>5. \/ UNCHANGED want
        \/ m.cmd = "subscribe" /\ want' = [want EXCEPT ![conn[c].id][m.topic] = m.sf]
        \/ m.cmd = "unsubscribe" /\ want' = [want EXCEPT ![conn[c].id][m.topic] = "none"]
    BY <2>2
  <2> HIDE DEF m
  <2>6. want' \in Wishes
    BY <2>3, <2>4, <2>5 DEF HistoryTypes, Wishes
  <2> QED BY <2>1, <2>6 DEF HistoryTypes, Handled
<1>15. CASE recv_end
  <2>1. /\ Handled(pfds[iter].fd) /\ UNCHANGED <<ends, want, due, log, lost>>
        /\ UNCHANGED since \/ \E c \in Conns : since' = [since EXCEPT ![c] = Away]
    BY <1>15 DEF recv_end, ConnsOf
  <2>2. since' \in [Conns -> {Away} \cup Nat]
    BY <2>1 DEF HistoryTypes
  <2> QED BY <2>1, <2>2 DEF HistoryTypes, Handled
<1> QED BY <1>2, <1>3, <1>4, <1>5, <1>6, <1>7, <1>8, <1>9, <1>10, <1>11, <1>12, <1>13,
           <1>14, <1>15, StepCases DEF ServerStep

-----------------------------------------------------------------------------
\* The types, as an invariant of the whole specification.
Types == KnownIds /\ LoopTypes /\ DataTypes /\ SlotsOK /\ HistoryTypes

\* They hold when the server starts.
LEMMA InitTypes == Init => Types
<1> SUFFICES ASSUME Init PROVE Types
  OBVIOUS
<1>1. KnownIds
  <2>1. FreeConn.peer = "free"
    BY DEF FreeConn
  <2> QED BY <2>1 DEF Init, NetInit, KnownIds
<1>2. LoopTypes
  <2> DEFINE vec == <<Entry(STDIN, FALSE), Entry(UDP, FALSE), Entry(LISTENER, FALSE)>>
  <2>1. pc = "wait_for_ready_fds" /\ pfds = vec /\ iter = 0
    BY DEF Init
  <2>2. VecOK(vec, conn)
    BY VecInit
  <2>3. Len(vec) = 3 /\ vec[2].fd = UDP /\ vec[3].fd = LISTENER
    BY DEF Entry
  <2> HIDE DEF vec
  <2>4. Shape(vec)
    BY <2>2, <2>3 DEF Shape, VecOK
  <2> QED BY <2>1, <2>3, <2>4 DEF LoopTypes, Places, AtWork
<1>3. DataTypes
  <2>1. << >> \in Seq(Datagrams) /\ << >> \in Seq(Topics \cup {NoTopic}) /\ Len(<< >>) = 0
    BY EmptySeq
  <2>2. InputTypes
    BY <2>1, BoundsAssumption DEF Init, NetInit, InputTypes
  <2>3. ArrayTypes
    BY <2>1, BoundsAssumption, UdpCapAssumption DEF Init, NetInit, ArrayTypes, Blocks
  <2> QED BY <2>2, <2>3 DEF DataTypes
<1>4. SlotsOK
  <2>1. clients = << >> /\ k = 0 /\ pc = "wait_for_ready_fds"
    BY DEF Init, CV!Init
  <2> QED BY <2>1, EmptySeq DEF SlotsOK, CV!TypeOK
<1>5. HistoryTypes
  <2>1. << >> \in Seq({Junk} \cup 1 .. MaxPublish)
    BY EmptySeq
  <2>2. since \in [Conns -> {Away} \cup Nat] /\ log \in Logs
    BY <2>1 DEF Init, AllAway, NothingSent, Logs
  <2>3. want \in Wishes /\ due \in Claims /\ lost \in Claims
    BY DEF Init, NoSubscriptions, NoMessages, Wishes, Claims
  <2> QED BY <2>2, <2>3 DEF Init, HistoryTypes
<1> QED BY <1>1, <1>2, <1>3, <1>4, <1>5 DEF Types

\* They hold always.
LEMMA AlwaysTypes == Spec => [](SInv /\ Types)
<1>1. Init => SInv /\ Types
  BY InitSInv, InitTypes
<1>2. SInv /\ Types /\ [Next]_vars => (SInv /\ Types)'
  BY StepSInv, KnownIdsStep, LoopStep, DataStep, SlotsStep, HistoryStep
     DEF Types, SInv, LoopGoesOn
<1> QED BY <1>1, <1>2, PTL DEF Spec

\* The variables of the server and of its surroundings keep their types for any number of
\* IDs, connections, descriptors and messages: the index of process_ready_fds never leaves
\* the poll vector and never names the stdin's entry when a handler uses it, the loop over
\* the clients is at a slot, and the parallel arrays of every slot have one length whatever
\* descriptors the operations of the clients vector are called with.
THEOREM ServerTypes == Spec => []TypeOK
<1>1. SInv /\ Types => TypeOK
  <2> SUFFICES ASSUME SInv, Types PROVE TypeOK
    OBVIOUS
  <2>1. /\ conn \in [Conns -> Connections] /\ backlog \in Seq(Conns)
    BY DEF SInv, ConnOK, BacklogOK
  <2>2. /\ udpq \in Seq(Datagrams)
        /\ published \in 0 .. MaxPublish /\ commands \in 0 .. MaxCmds
        /\ stdin \in Lines \cup {"nothing"}
        /\ udp_msgs \in Seq(Topics \cup {NoTopic}) /\ cap \in Nat /\ blk \in Blocks
    BY DEF Types, DataTypes, InputTypes, ArrayTypes
  <2>3. pfds \in Seq(Entries)
    BY EmptySeq DEF Types, LoopTypes, Shape
  <2>4. /\ pc \in Places /\ iter \in 0 .. Len(pfds)
        /\ pc \in {"process_ready_fds", "transmit", "recv_id", "retransmit"} => iter > 1
    BY DEF Types, LoopTypes, AtWork
  <2>5. k \in Nat /\ CV!TypeOK /\ (pc = "transmit" => k \in DOMAIN clients)
    BY DEF Types, SlotsOK
  <2>6. HistoryTypes
    BY DEF Types
  <2> QED BY <2>1, <2>2, <2>3, <2>4, <2>5, <2>6
          DEF TypeOK, Entries, HistoryTypes, Wishes, Claims, Logs
<1> QED BY <1>1, AlwaysTypes, PTL
=============================================================================
