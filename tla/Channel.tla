------------------------------ MODULE Channel ------------------------------
(***************************************************************************)
(* What send_tcp_msg and recv_tcp_msg promise (src/src/tcp_type.c): a      *)
(* connection that carries whole messages.  Each end sends the messages    *)
(* 1, 2, 3 ... of its own; the other end receives the next one whole or    *)
(* nothing, until an end is closed.  There are no bytes here.              *)
(***************************************************************************)
EXTENDS Naturals, Sequences

VARIABLES
    sent,       \* sent[e]: how many messages the end e has sent
    received,   \* received[e]: the messages the end e has received, in order
    open,       \* open[e]: the end e has not closed the connection
    reset       \* the connection was reset: nothing is sent any more

vars == <<sent, received, open, reset>>

Ends     == {"server", "subscriber"}
Other(e) == IF e = "server" THEN "subscriber" ELSE "server"

Init ==
    /\ sent = [e \in Ends |-> 0]
    /\ received = [e \in Ends |-> << >>]
    /\ open = [e \in Ends |-> TRUE]
    /\ reset = FALSE

\* A reset may follow the first message to an end that is closed.
Send(e) ==
    /\ open[e] /\ ~ reset
    /\ sent' = [sent EXCEPT ![e] = @ + 1]
    /\ reset' \in BOOLEAN
    /\ reset' => ~ open[Other(e)]
    /\ UNCHANGED <<received, open>>

\* The next message of the other end, if that end has sent it.
Receive(e) ==
    /\ open[e]
    /\ Len(received[e]) < sent[Other(e)]
    /\ received' = [received EXCEPT ![e] = Append(@, Len(@) + 1)]
    /\ UNCHANGED <<sent, open, reset>>

\* An end closes, with messages under way or not; what it did not receive is lost.
Close(e) ==
    /\ open[e]
    /\ open' = [open EXCEPT ![e] = FALSE]
    /\ reset' \in {reset, TRUE}
    /\ UNCHANGED <<sent, received>>

\* A part of a message that reached a closed end is answered by a reset too.
Reset ==
    /\ \E e \in Ends : ~ open[e]
    /\ reset' = TRUE
    /\ UNCHANGED <<sent, received, open>>

Next == Reset \/ \E e \in Ends : Send(e) \/ Receive(e) \/ Close(e)

Spec == Init /\ [][Next]_vars
=============================================================================
