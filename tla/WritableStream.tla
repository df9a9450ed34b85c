--------------------------- MODULE WritableStream ---------------------------
(***************************************************************************)
(* One WritableStream with its underlying sink and the script that writes  *)
(* to it.  A step is one operation of the script, one promise of the sink  *)
(* that settles or one microtask; script and sink may act between any two  *)
(* microtasks.                                                             *)
(***************************************************************************)
EXTENDS WritableOps

CONSTANT MaxWrites      \* the script calls write() at most so often

VARIABLE s

Init ==
    \E hwm \in 0..2, start \in {"none", "pending"} :
        s = [w |-> NewWritable(hwm), writes |-> <<>>, closep |-> "none", abortp |-> "none",
             sink |-> <<>>, sinkp |-> "none", startp |-> start,
             whook |-> 0, chook |-> FALSE, rhook |-> FALSE, wpiped |-> FALSE,
             jobs |-> IF start = "none" THEN <<<<"ws_start", Done>>>> ELSE <<>>]

-----------------------------------------------------------------------------
\* The script.  Chunk i is the argument of the i-th write().
GetWriter == ~s.w.locked /\ s' = acquire_writer(s)

Write ==
    /\ s.w.locked /\ Len(s.writes) < MaxWrites
    /\ s' \in writer_write(s, Len(s.writes) + 1)

WriteUnsized ==
    /\ s.w.locked /\ Len(s.writes) < MaxWrites
    /\ s' \in writer_write_unsized(s)

ReleaseLock == s.w.locked /\ s' = release_writer(s)

\* writer.close(), or close() of a stream that is not locked; so for abort().
Close == ~refuses_close(s) /\ s' \in writable_stream_close(s)

Abort == s' \in writable_stream_abort(s)

\* controller.error(), called at any time.
ControllerError == s' \in ws_controller_error(s)

-----------------------------------------------------------------------------
StartSettles ==
    /\ s.startp = "pending"
    /\ \E v \in {Done, Failed} : s' = Job([s EXCEPT !.startp = "none"], "ws_start", v)

SinkSettles ==
    /\ s.sinkp # "none"
    /\ \E v \in {Done, Failed} : s' = Job([s EXCEPT !.sinkp = "none"], s.sinkp, v)

RunJob ==
    /\ s.jobs # <<>>
    /\ s' \in Then({[s EXCEPT !.jobs = Tail(@)]}, LAMBDA t : WritableJob(t, Head(s.jobs)))

Next ==
    \/ GetWriter \/ Write \/ WriteUnsized \/ ReleaseLock \/ Close \/ Abort \/ ControllerError
    \/ StartSettles \/ SinkSettles \/ RunJob

Fairness == WF_s(RunJob) /\ WF_s(StartSettles) /\ WF_s(SinkSettles)

Spec == Init /\ [][Next]_s /\ Fairness

-----------------------------------------------------------------------------
Chunks == SelectSeq(s.sink, LAMBDA c : c > 0)

(* The sink sees one call at a time: the chunks of accepted writes in      *)
(* order, each only after the write before it was fulfilled, then at most  *)
(* one close or abort, and a close only when every write was fulfilled.    *)
(* No abort starts while a write or a close is at work                     *)
(* (advance_queue_if_needed, start_erroring, finish_erroring).             *)
SinkSeesOneCallAtATime ==
    /\ \A i, j \in DOMAIN Chunks : i < j => Chunks[i] < Chunks[j] /\ s.writes[Chunks[i]] = Done
    /\ \A i \in DOMAIN s.sink : s.sink[i] <= 0 =>
         /\ i = Len(s.sink)
         /\ s.w.in_write = 0
         /\ s.sink[i] = SinkClose => \A j \in DOMAIN Chunks : s.writes[Chunks[j]] = Done
    /\ \A i \in DOMAIN s.writes : s.writes[i] = Done => Contains(Chunks, i)
    /\ s.closep = "ok" => Contains(s.sink, SinkClose)

(* While the stream accepts writes, the writer's ready promise is pending  *)
(* exactly when the queue has reached the high-water mark                  *)
(* (update_backpressure, the constructor of the writer).                   *)
ReadyTellsBackpressure ==
    s.w.locked /\ s.w.state = "writable" /\ s.w.close = "none" =>
        (s.w.ready = "pending" <=> s.w.hwm <= Total(s.w))

\* A write, a close or an abort, or the writer of a stream that fails, has no
\* answer yet.
Waiting ==
    \/ \E i \in DOMAIN s.writes : s.writes[i] = Pending
    \/ s.closep = "pending" \/ s.abortp = "pending"
    \/ s.w.state = "erroring" /\ s.w.closed = "pending"
=============================================================================
