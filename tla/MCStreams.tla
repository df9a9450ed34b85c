------------------------------- MODULE MCStreams -------------------------------
(***************************************************************************)
(* ReadableStream, WritableStream and PipeTo for the model checker: a       *)
(* behaviour is one of any of the three, told by `part'.  They have the one *)
(* variable s in common.                                                    *)
(***************************************************************************)
EXTENDS Naturals, Sequences

CONSTANTS MaxChunks, MaxReads, MaxWrites, MaxHwm

VARIABLES part, s
vars == <<part, s>>

R == INSTANCE ReadableStream
W == INSTANCE WritableStream
P == INSTANCE PipeTo

Init ==
  \/ part = "readable" /\ R!Init
  \/ part = "writable" /\ W!Init
  \/ part = "pipe" /\ P!Init

Readable == part = "readable" /\ R!Next /\ UNCHANGED part
Writable == part = "writable" /\ W!Next /\ UNCHANGED part
Pipe     == part = "pipe" /\ P!Next /\ UNCHANGED part

Next == Readable \/ Writable \/ Pipe

\* The fairness of the three specifications, each for its own behaviours.
Spec ==
  /\ Init /\ [][Next]_vars
  /\ WF_vars(part = "readable" /\ R!RunJob /\ UNCHANGED part)
  /\ WF_vars(part = "readable" /\ R!StartSettles /\ UNCHANGED part)
  /\ WF_vars(part = "readable" /\ R!PullWorks /\ UNCHANGED part)
  /\ WF_vars(part = "readable" /\ R!PullResolves /\ UNCHANGED part)
  /\ WF_vars(part = "writable" /\ W!RunJob /\ UNCHANGED part)
  /\ WF_vars(part = "writable" /\ W!StartSettles /\ UNCHANGED part)
  /\ WF_vars(part = "writable" /\ W!SinkSettles /\ UNCHANGED part)
  /\ WF_vars(part = "pipe" /\ P!RunJob /\ UNCHANGED part)
  /\ WF_vars(part = "pipe" /\ P!PullWorks /\ UNCHANGED part)
  /\ WF_vars(part = "pipe" /\ P!PullResolves /\ UNCHANGED part)
  /\ WF_vars(part = "pipe" /\ P!SinkSettles /\ UNCHANGED part)
-----------------------------------------------------------------------------
\* Chunks reach reads in the order in which the source enqueued them, none waits
\* while a read waits, and no read waits on a stream that has ended
\* (js_rs_controller_enqueue, rs_default_reader_read).
ChunksInOrder == part = "readable" => R!ChunksInOrder

\* The sink sees one call at a time, the writes in order, each after the one
\* before was fulfilled, and one close or abort at the end
\* (ws_default_controller_advance_queue_if_needed).
SinkSeesOneCallAtATime == part = "writable" => W!SinkSeesOneCallAtATime

\* While the stream accepts writes, the writer's ready promise is pending exactly
\* when the queue has reached the high-water mark (writable_stream_update_backpressure).
ReadyTellsBackpressure == part = "writable" => W!ReadyTellsBackpressure

\* The sink of a pipe gets the source's chunks in order and without a gap, a pipe
\* that is fulfilled delivered all of them, and one that has settled holds no
\* lock (pipe_read_resolve, pipes_settle).
PipeDelivers == part = "pipe" => P!PipeDelivers

Waiting ==
  CASE part = "readable" -> R!Waiting
    [] part = "writable" -> W!Waiting
    [] part = "pipe"     -> P!Waiting

\* Nobody waits for ever: every read of a source that answers its pulls, every
\* write, close and abort of a sink that answers its calls, and every pipe
\* between such two is answered
\* (rs_default_controller_call_pull_if_needed,
\* writable_stream_finish_erroring, pipes_pump).
StreamsAnswer == Waiting ~> ~Waiting
=============================================================================
