---------------------------- MODULE MCSubscriber ----------------------------
(* An instance of Subscriber. *)
EXTENDS Subscriber

Chunk(name, exact, topic, sf, more) ==
    [name |-> name, exact |-> exact, topic |-> topic, sf |-> sf, more |-> more]

\* Every command, complete and not, a longer word, something else and the beginning of a line
\* that fgets cuts.
AllChunks == {Chunk("subscribe", TRUE, "t", sf, FALSE) : sf \in {"none", "1"}}
             \cup {Chunk("subscribe", FALSE, "t", "1", FALSE),
                   Chunk("subscribe", TRUE, "none", "none", FALSE),
                   Chunk("unsubscribe", TRUE, "t", "none", FALSE),
                   Chunk("exit", TRUE, "none", "none", FALSE),
                   Chunk("unknown", TRUE, "none", "none", FALSE),
                   Chunk("unknown", TRUE, "none", "none", TRUE)}
=============================================================================
