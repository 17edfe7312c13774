----------------------------- MODULE MCFraming -----------------------------
(***************************************************************************)
(* An instance of Framing: messages of a few bytes over buffers so small   *)
(* that every split occurs, and that the two ends may fill both of them.   *)
(***************************************************************************)
EXTENDS Framing

\* One command of the subscriber fits and the next one does not; of a message of the server
\* not even a whole one does.
MCCapacity == [e \in Ends |-> IF e = "server" THEN 2 ELSE 4]
MCMaxMsgs  == [e \in Ends |-> 3]
=============================================================================
