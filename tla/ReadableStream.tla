--------------------------- MODULE ReadableStream ---------------------------
(***************************************************************************)
(* One ReadableStream with its underlying source and the script that reads *)
(* it.  A step is one operation of the script, one operation of the source *)
(* or one microtask; the script and the source may act between any two     *)
(* microtasks.                                                             *)
(***************************************************************************)
EXTENDS ReadableOps

CONSTANT MaxReads       \* the script calls read() at most so often

VARIABLE s

\* start() returned a value, or a promise that the source settles later.
Init ==
    \E hwm \in 0..2, pull \in BOOLEAN, start \in {"none", "pending"} :
        s = [r |-> NewReadable(hwm, pull), sent |-> 0, reads |-> <<>>, hook |-> 0,
             piped |-> FALSE, startp |-> start, pullp |-> "none", cancelp |-> "none",
             jobs |-> IF start = "none" THEN <<<<"rs_start", Done>>>> ELSE <<>>]

-----------------------------------------------------------------------------
\* The script.
GetReader == ~s.r.locked /\ s' = acquire_reader(s)

Read == s.r.locked /\ Len(s.reads) < MaxReads /\ s' \in reader_read(s)

ReleaseLock == s.r.locked /\ s' = release_reader(s)

\* stream.cancel() of a stream that is not locked, or reader.cancel().
Cancel == s.cancelp = "none" /\ s' \in readable_stream_cancel(s)

\* return() of the async iterator, which holds a reader: cancel and release.
IteratorReturn ==
    /\ s.r.locked /\ s.cancelp = "none"
    /\ \E t \in readable_stream_cancel(s) : s' = release_reader(t)

-----------------------------------------------------------------------------
\* The source, besides what pull() itself does.
SourceEnqueue ==
    /\ can_close_or_enqueue(s) /\ s.sent < MaxChunks
    /\ s' \in controller_enqueue(s)

\* The size() of the strategy throws, or yields no size.
SourceEnqueueUnsized ==
    /\ can_close_or_enqueue(s) /\ s.sent < MaxChunks /\ s.r.reqs = <<>>
    /\ s' = readable_stream_error(s)

SourceClose == can_close_or_enqueue(s) /\ s' = controller_close(s)

SourceError == s.r.state = "readable" /\ s' = controller_error(s)

StartSettles ==
    /\ s.startp = "pending"
    /\ \E v \in {Done, Failed} : s' = Job([s EXCEPT !.startp = "none"], "rs_start", v)

\* A pull() that returned a promise does its work, then settles the promise.
PullWorks ==
    /\ s.pullp = "pending" /\ can_close_or_enqueue(s)
    /\ \E t \in IF s.sent < MaxChunks THEN controller_enqueue(s) ELSE {controller_close(s)} :
         s' = [t EXCEPT !.pullp = "worked"]

PullResolves ==
    /\ s.pullp = "worked" \/ (s.pullp = "pending" /\ ~can_close_or_enqueue(s))
    /\ s' = Job([s EXCEPT !.pullp = "none"], "rs_pull", Done)

PullRejects ==
    /\ s.pullp # "none"
    /\ s' = Job([s EXCEPT !.pullp = "none"], "rs_pull", Failed)

CancelSettles ==
    /\ s.cancelp = "pending"
    /\ \E p \in {"ok", "err"} : s' = [s EXCEPT !.cancelp = p]

-----------------------------------------------------------------------------
RunJob ==
    /\ s.jobs # <<>>
    /\ s' \in Then({[s EXCEPT !.jobs = Tail(@)]}, LAMBDA t : ReadableJob(t, Head(s.jobs)))

Next ==
    \/ GetReader \/ Read \/ ReleaseLock \/ Cancel \/ IteratorReturn
    \/ SourceEnqueue \/ SourceEnqueueUnsized \/ SourceClose \/ SourceError
    \/ StartSettles \/ PullWorks \/ PullResolves \/ PullRejects \/ CancelSettles
    \/ RunJob

Fairness ==
    /\ WF_s(RunJob) /\ WF_s(StartSettles)
    /\ WF_s(PullWorks) /\ WF_s(PullResolves)

Spec == Init /\ [][Next]_s /\ Fairness

-----------------------------------------------------------------------------
(* Chunks reach reads in the order in which the source enqueued them: what *)
(* the reads were given, in the order of the read() calls, followed by the *)
(* queue is the sequence enqueued.  No chunk waits while a read waits, a   *)
(* stream that ends by itself has an empty queue, and no read waits on a   *)
(* stream that has ended or has no reader                                  *)
(* (js_rs_controller_enqueue, rs_default_reader_read).                     *)
ChunksInOrder ==
    /\ SelectSeq(s.reads, LAMBDA v : v > 0) \o s.r.queue = [i \in 1..s.sent |-> i]
    /\ s.r.reqs # <<>> => s.r.queue = <<>> /\ s.r.state = "readable" /\ s.r.locked
    /\ s.r.state = "closed" /\ s.cancelp = "none" => s.r.queue = <<>>

\* A read of a source with a pull() has no answer yet.
Waiting == s.r.pull /\ \E i \in DOMAIN s.reads : s.reads[i] = Pending
=============================================================================
