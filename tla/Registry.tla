------------------------------ MODULE Registry ------------------------------
(***************************************************************************)
(* What the server promises about its subscribers, one function per fact   *)
(* and no data structure: which descriptor serves an ID, what the ID is    *)
(* subscribed to, and which messages wait for its next connection.  A      *)
(* disconnection changes only the first, so that a reconnection finds the  *)
(* other two as they were.                                                 *)
(***************************************************************************)
EXTENDS Integers, Sequences

CONSTANTS Ids, Topics, Fds, Ptrs

VARIABLES
    fdOf,       \* fdOf[id]: the descriptor of the ID's connection, -1 when it has none
    subs,       \* subs[id][t]: "none", "NO_SF" or "SF"
    stored      \* stored[id]: the messages kept for the ID, oldest first

vars == <<fdOf, subs, stored>>

Online(id) == fdOf[id] # -1

Init == /\ fdOf   = [id \in Ids |-> -1]
        /\ subs   = [id \in Ids |-> [t \in Topics |-> "none"]]
        /\ stored = [id \in Ids |-> << >>]

\* A connection takes the ID over only when no other connection holds it.
Join(id, fd) ==
    /\ ~ Online(id)
    /\ \A other \in Ids : fdOf[other] # fd
    /\ fdOf' = [fdOf EXCEPT ![id] = fd]
    /\ UNCHANGED <<subs, stored>>

Leave(id) ==
    /\ Online(id)
    /\ fdOf' = [fdOf EXCEPT ![id] = -1]
    /\ UNCHANGED <<subs, stored>>

\* Subscriptions are changed by the subscriber itself, hence while it is connected.
SetOption(id, t, option) ==
    /\ Online(id)
    /\ subs' = [subs EXCEPT ![id][t] = option]
    /\ UNCHANGED <<fdOf, stored>>

\* A message is kept only for an absent subscriber that asked for store-and-forward.
Keep(id, p) ==
    /\ ~ Online(id)
    /\ \E t \in Topics : subs[id][t] = "SF"
    /\ stored' = [stored EXCEPT ![id] = Append(@, p)]
    /\ UNCHANGED <<fdOf, subs>>

\* The newest messages go first; n of them are left.
Release(id, n) ==
    /\ Online(id)
    /\ stored' = [stored EXCEPT ![id] = SubSeq(@, 1, n)]
    /\ UNCHANGED <<fdOf, subs>>

Next == \E id \in Ids :
    \/ \E fd \in Fds : Join(id, fd)
    \/ Leave(id)
    \/ \E t \in Topics, option \in {"none", "NO_SF", "SF"} : SetOption(id, t, option)
    \/ \E p \in Ptrs : Keep(id, p)
    \/ \E n \in 0 .. Len(stored[id]) : Release(id, n)

Spec == Init /\ [][Next]_vars
=============================================================================
