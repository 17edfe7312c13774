------------------------------ MODULE PollVec ------------------------------
(***************************************************************************)
(* The poll vector (src/src/poll_vec.c): the array handed to poll(2).  An  *)
(* entry keeps its descriptor and whether the last poll reported POLLIN    *)
(* for it.  The operators return the new vector; the caller applies the    *)
(* close(2) of a removal to the descriptor.                                *)
(***************************************************************************)
EXTENDS Integers, Sequences, SequencesExt

Entry(fd, pollin) == [fd |-> fd, pollin |-> pollin]

(* As in ClientVec, ..._bug is what a mistake would make of the next definition. *)

\* revents of the new entry is left as it was in memory.
poll_vec_add_fd_bug(vec, fd) == Append(vec, Entry(fd, TRUE))

\* poll_vec_add_fd: the new entry goes last and was not reported by any poll yet.
poll_vec_add_fd(vec, fd) == Append(vec, Entry(fd, FALSE))

\* The entry stays as a hole.
remove_leaves_hole_bug(vec, n) == [vec EXCEPT ![n].fd = -1]

\* poll_vec_remove_fd: the entries behind the removed one move down by one.
poll_vec_remove_fd(vec, n) == RemoveAt(vec, n)

FdsOf(vec) == {vec[n].fd : n \in DOMAIN vec}

\* revents is not looked at.
ignores_revents_bug(vec, n) == n .. Len(vec)

\* The loop starts one entry late ...
skips_first_bug(vec, n) == {m \in n + 1 .. Len(vec) : vec[m].pollin}

\* ... or ends one entry early.
stops_early_bug(vec, n) == {m \in n .. Len(vec) - 1 : vec[m].pollin}

\* The indices from n on whose entries the last poll reported.
ReportedFrom(vec, n) == {m \in n .. Len(vec) : vec[m].pollin}
=============================================================================
