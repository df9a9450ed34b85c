---------------------------- MODULE ReadableOps ----------------------------
(***************************************************************************)
(* The operations of ReadableStream and its default controller and reader, *)
(* src/streams/readable.c, on a record s.  s.r is the stream, its          *)
(* controller and the reader that locks it; s.reads[i] is the promise of   *)
(* the i-th read(): Pending, Done, Failed, or the chunk it was given.      *)
(* Chunks are numbered in the order in which the source enqueues them and  *)
(* have size 1.  s.hook is the last read whose promise has a reaction,     *)
(* s.piped says that the reader's closed promise has one (both only while  *)
(* a pipe reads the stream).  The user's pull() is free: an operation that *)
(* may call it yields the set of the states it may leave.                  *)
(***************************************************************************)
EXTENDS StreamJobs

CONSTANT MaxChunks      \* the source enqueues at most so many chunks

NewReadable(hwm, pull) ==
    [state |-> "readable", started |-> FALSE, close_requested |-> FALSE,
     pulling |-> FALSE, pull_again |-> FALSE, queue |-> <<>>, hwm |-> hwm,
     pull |-> pull, locked |-> FALSE, reqs |-> <<>>, closed |-> "none"]

can_close_or_enqueue(s) == s.r.state = "readable" /\ ~s.r.close_requested

should_call_pull(s) ==
    /\ can_close_or_enqueue(s)
    /\ s.r.started
    /\ s.r.reqs # <<>> \/ s.r.hwm > Len(s.r.queue)

\* A read promise settles; its reaction, if it has one, becomes a job.
Answer(s, i, v) ==
    JobIf(i <= s.hook, [s EXCEPT !.reads[i] = v],
          IF v = Failed THEN "pipe_source_error" ELSE "pipe_read", v)

\* Every waiting read, first to last, gets the same answer.
AnswerAll(s, v) == FoldLeft(LAMBDA t, i : Answer(t, i, v), [s EXCEPT !.r.reqs = <<>>], s.r.reqs)

readable_stream_close(s) ==
    LET t == AnswerAll([s EXCEPT !.r.state = "closed"], Done)
    IN  IF s.r.locked THEN [t EXCEPT !.r.closed = "ok"] ELSE t

readable_stream_error(s) ==
    IF s.r.state # "readable" THEN s
    ELSE LET t == [s EXCEPT !.r.state = "errored"]
         IN  IF s.r.locked
             THEN AnswerAll(JobIf(s.piped, [t EXCEPT !.r.closed = "err"],
                                  "pipe_source_error", 0), Failed)
             ELSE t

\* controller.close(): at once if nothing is queued, else when the queue is read.
controller_close(s) ==
    LET t == [s EXCEPT !.r.close_requested = TRUE]
    IN  IF s.r.queue = <<>> THEN readable_stream_close([t EXCEPT !.r.pull = FALSE]) ELSE t

\* Mutant: the chunk is queued even if a read is waiting for one.
StoreAlways(s) == [s EXCEPT !.sent = @ + 1, !.r.queue = Append(@, s.sent + 1)]

\* controller.enqueue() up to its last call: the chunk goes to the first
\* waiting read, or to the queue.
Store(s) ==
    LET n == s.sent + 1
    IN  IF s.r.reqs # <<>>
        THEN Answer([s EXCEPT !.sent = n, !.r.reqs = Tail(@)], Head(s.r.reqs), n)
        ELSE [s EXCEPT !.sent = n, !.r.queue = Append(@, n)]

\* call_pull_if_needed while pull() is running: it only notes the wish.
note_pull(s) == IF should_call_pull(s) THEN [s EXCEPT !.r.pull_again = TRUE] ELSE s

\* The user's pull(): it returns a promise that it settles later; or it
\* enqueues a chunk, or closes, and returns; or it throws.
PullCallback(s) ==
    {[s EXCEPT !.pullp = "pending"], readable_stream_error(s)}
    \cup {Job(t, "rs_pull", Done) :
            t \in IF s.sent < MaxChunks THEN {note_pull(Store(s))} ELSE {controller_close(s)}}

call_pull_if_needed(s) ==
    IF ~should_call_pull(s) THEN {s}
    ELSE IF s.r.pulling THEN {[s EXCEPT !.r.pull_again = TRUE]}
    ELSE IF s.r.pull THEN PullCallback([s EXCEPT !.r.pulling = TRUE])
    ELSE {s}

controller_enqueue(s) == call_pull_if_needed(Store(s))

\* controller.error()
controller_error(s) == readable_stream_error([s EXCEPT !.r.pull = FALSE])

reader_read(s) ==
    LET i == Len(s.reads) + 1
        Settled(v) == [s EXCEPT !.reads = Append(@, v)]
    IN  CASE s.r.state = "closed"  -> {Settled(Done)}
          [] s.r.state = "errored" -> {Settled(Failed)}
          [] OTHER ->
             IF s.r.queue # <<>>
             THEN LET t == [Settled(Head(s.r.queue)) EXCEPT !.r.queue = Tail(@)]
                  IN  IF t.r.close_requested /\ t.r.queue = <<>>
                      THEN {readable_stream_close([t EXCEPT !.r.pull = FALSE])}
                      ELSE call_pull_if_needed(t)
             ELSE call_pull_if_needed([Settled(Pending) EXCEPT !.r.reqs = Append(@, i)])

\* readable_stream_cancel; the user's cancel() throws, returns, or returns a
\* promise, and the promise of the cancellation follows it.
readable_stream_cancel(s) ==
    CASE s.r.state = "closed"  -> {[s EXCEPT !.cancelp = "ok"]}
      [] s.r.state = "errored" -> {[s EXCEPT !.cancelp = "err"]}
      [] OTHER -> {[readable_stream_close(s) EXCEPT !.r.pull = FALSE, !.cancelp = p] :
                     p \in {"ok", "err", "pending"}}

\* getReader(), and the reader that pipeTo takes.
acquire_reader(s) ==
    [s EXCEPT !.r.locked = TRUE,
              !.r.closed = CASE s.r.state = "readable" -> "pending"
                             [] s.r.state = "closed"   -> "ok"
                             [] OTHER                  -> "err"]

release_reader(s) ==
    [AnswerAll(s, Failed) EXCEPT !.r.locked = FALSE, !.r.closed = "none"]

rs_start_resolve(s) ==
    call_pull_if_needed([s EXCEPT !.r.started = TRUE, !.r.pulling = FALSE, !.r.pull_again = FALSE])

\* Mutant: the wish for another pull is forgotten when the pull ends.
rs_pull_resolve_once(s) == {[s EXCEPT !.r.pulling = FALSE, !.r.pull_again = FALSE]}

rs_pull_resolve(s) ==
    LET t == [s EXCEPT !.r.pulling = FALSE]
    IN  IF t.r.pull_again THEN call_pull_if_needed([t EXCEPT !.r.pull_again = FALSE]) ELSE {t}

\* The reactions of the stream's own promises.
ReadableJob(s, job) ==
    CASE job = <<"rs_start", Done>> -> rs_start_resolve(s)
      [] job = <<"rs_pull", Done>>  -> rs_pull_resolve(s)
      [] job \in {<<"rs_start", Failed>>, <<"rs_pull", Failed>>} -> {readable_stream_error(s)}
=============================================================================
