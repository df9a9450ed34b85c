----------------------------- MODULE StreamJobs -----------------------------
(***************************************************************************)
(* What the stream modules share: the values a promise of theirs may have, *)
(* and the queue of microtasks.  A stream state is a record s; s.jobs is   *)
(* the queue of reactions, <<handler, argument>>, of promises that have    *)
(* settled.  The promise machinery itself is the subject of Promises.      *)
(***************************************************************************)
EXTENDS Integers, Sequences, SequencesExt

Pending == 0
Done    == -1
Failed  == -2

Job(s, handler, arg) == [s EXCEPT !.jobs = Append(@, <<handler, arg>>)]

\* One operation after another: Op on each state that the first may leave.
Then(S, Op(_)) == UNION {Op(s) : s \in S}

JobIf(c, s, handler, arg) == IF c THEN Job(s, handler, arg) ELSE s
=============================================================================
