----------------------------- MODULE MCUdpType -----------------------------
(***************************************************************************)
(* Instances of UdpType with bytes of 16 values, numbers of two bytes,     *)
(* topics of at most 2 characters and texts of at most 5.                  *)
(***************************************************************************)
EXTENDS UdpType

Topics  == {<<1>>, <<2>>, <<1, 2>>}
Numbers == {0, 27, 200}

Of(topics, type, signs, nums, exps, texts) ==
    [topic : topics, type : {type}, sign : signs, num : nums, exp : exps, chars : texts]

Ints(topics)  == Of(topics, INT, {0, 1}, Numbers, {0}, {<< >>})
Shorts        == Of({<<1>>}, SHORT_REAL, {0}, {0, 15}, {0}, {<< >>})
Floats(exps)  == Of({<<2>>}, FLOAT, {0, 1}, {1, 200}, exps, {<< >>})
Texts(texts)  == Of({<<1>>}, TEXT, {0}, {0}, {0}, texts)
Unknown       == Of({<<1>>}, 4, {0}, {0}, {0}, {<< >>})

\* Topics of full length with every type, powers of ten that do not fit into a word, texts
\* with a zero, of full length, and as the publisher of the repository sends them.
AllMessages == Ints(Topics) \cup Shorts \cup Floats(0 .. 3) \cup Unknown
                   \cup Of({<<1, 2>>}, FLOAT, {0}, {1}, {0}, {<< >>})
                   \cup Texts({<<0>>, <<7, 0>>, <<7>>, <<7, 8, 0>>, <<7, 8, 9, 7, 8>>})
=============================================================================
