---------------------------- MODULE WritableOps ----------------------------
(***************************************************************************)
(* The operations of WritableStream and its default controller and writer, *)
(* src/streams/writable.c, on a record s.  s.w is the stream, its          *)
(* controller and the writer that locks it; s.writes[i] is the promise of  *)
(* the i-th write(), s.closep and s.abortp the promises of the close() and *)
(* the abort() that the stream accepted.  s.sink is the sequence of calls  *)
(* made to the sink: a chunk, SinkClose or SinkAbort; s.sinkp is the call  *)
(* that returned a promise not settled yet.  Chunks have size 1.  The last *)
(* write, the close, the ready and the closed promise with a reaction of a *)
(* pipe are s.whook, s.chook, s.rhook and s.wpiped.  The user's sink is    *)
(* free: an operation that may call it yields a set of states.             *)
(***************************************************************************)
EXTENDS StreamJobs

Sentinel  == 0          \* the close sentinel in the controller's queue
SinkClose == -1
SinkAbort == -2

Total(w) == Len(SelectSeq(w.queue, LAMBDA c : c # Sentinel))

get_backpressure(w) == w.hwm <= Total(w)

NewWritable(hwm) ==
    [state |-> "writable", started |-> FALSE, hwm |-> hwm, queue |-> <<>>, reqs |-> <<>>,
     in_write |-> 0, close |-> "none", abort |-> FALSE, was_erroring |-> FALSE,
     algs |-> TRUE, backpressure |-> hwm = 0, locked |-> FALSE,
     ready |-> "none", closed |-> "none"]

\* The promises: each settles once, and its reaction becomes a job.
SettleReady(s, v) ==
    IF s.w.ready # "pending" THEN s
    ELSE JobIf(s.rhook, [s EXCEPT !.w.ready = v, !.rhook = FALSE],
               IF v = "ok" THEN "pipe_ready" ELSE "pipe_dest_error", 0)

SettleClosed(s, v) ==
    IF s.w.closed # "pending" THEN s
    ELSE JobIf(s.wpiped /\ v = "err", [s EXCEPT !.w.closed = v], "pipe_dest_error", 0)

SettleWrite(s, i, v) ==
    JobIf(i <= s.whook, [s EXCEPT !.writes[i] = v],
          IF v = Done THEN "pipe_write" ELSE "pipe_dest_error", 0)

SettleClose(s, v) ==
    JobIf(s.chook, [s EXCEPT !.w.close = "none", !.closep = v],
          IF v = "ok" THEN "pipe_close_resolve" ELSE "pipe_close_reject", 0)

reject_close_and_closed(s) ==
    SettleClosed(IF s.w.close = "queued" THEN SettleClose(s, "err") ELSE s, "err")

finish_abort(s, v) == reject_close_and_closed([s EXCEPT !.abortp = v])

reject_writes(s) ==
    LET hooked == SelectSeq(s.w.reqs, LAMBDA i : i <= s.whook)
    IN  [s EXCEPT !.w.reqs = <<>>,
                  !.writes = [i \in DOMAIN @ |-> IF Contains(s.w.reqs, i) THEN Failed ELSE @[i]],
                  !.jobs = @ \o [k \in DOMAIN hooked |-> <<"pipe_dest_error", 0>>]]

\* writable_stream_finish_erroring; the sink's abort() throws, returns, or
\* returns a promise.
abort_sink(s) ==
    IF ~s.w.algs THEN {Job(s, "ws_abort", Done)}
    ELSE LET t == [s EXCEPT !.w.algs = FALSE, !.sink = Append(@, SinkAbort)]
         IN  {finish_abort(t, "err"), Job(t, "ws_abort", Done), [t EXCEPT !.sinkp = "ws_abort"]}

finish_erroring(s) ==
    IF s.w.state # "erroring" THEN {s}
    ELSE Then({reject_writes([s EXCEPT !.w.state = "errored", !.w.abort = FALSE])},
              LAMBDA t : IF ~s.w.abort THEN {reject_close_and_closed([t EXCEPT !.w.algs = FALSE])}
                         ELSE IF s.w.was_erroring THEN {finish_abort([t EXCEPT !.w.algs = FALSE], "err")}
                         ELSE abort_sink(t))

operation_in_flight(s) == s.w.in_write # 0 \/ s.w.close = "inflight"

\* Mutant: the stream is errored although the sink is still at work.
start_erroring_at_once(s) ==
    IF s.w.state # "writable" THEN {s}
    ELSE Then({SettleReady([s EXCEPT !.w.state = "erroring"], "err")}, finish_erroring)

start_erroring(s) ==
    IF s.w.state # "writable" THEN {s}
    ELSE Then({SettleReady([s EXCEPT !.w.state = "erroring"], "err")},
              LAMBDA t : IF ~operation_in_flight(t) /\ t.w.started THEN finish_erroring(t) ELSE {t})

deal_with_rejection(s) ==
    IF s.w.state = "writable" THEN start_erroring(s) ELSE finish_erroring(s)

ws_controller_error(s) ==
    IF s.w.state # "writable" THEN {s} ELSE start_erroring([s EXCEPT !.w.algs = FALSE])

update_backpressure(s) ==
    LET bp == get_backpressure(s.w)
        t  == [s EXCEPT !.w.backpressure = bp]
    IN  CASE s.w.close # "none" \/ s.w.state # "writable" -> s
          [] ~s.w.locked \/ bp = s.w.backpressure -> t
          [] bp    -> [t EXCEPT !.w.ready = "pending", !.rhook = FALSE]
          [] OTHER -> SettleReady(t, "ok")

write_failed(s) ==
    Then({[SettleWrite(s, s.w.in_write, Failed) EXCEPT
             !.w.in_write = 0, !.w.algs = @ /\ s.w.state # "writable"]}, deal_with_rejection)

\* The sink's write() throws, returns, returns a promise, or calls
\* controller.error() and returns.
process_write(s) ==
    Then({[s EXCEPT !.w.in_write = Head(s.w.reqs), !.w.reqs = Tail(@),
                    !.sink = Append(@, Head(s.w.queue))]},
         LAMBDA t : {Job(t, "ws_write", Done), [t EXCEPT !.sinkp = "ws_write"]}
                    \cup write_failed(t)
                    \cup {Job(u, "ws_write", Done) : u \in ws_controller_error(t)})

close_failed(s) == Then({SettleClose(s, "err")}, deal_with_rejection)

process_close(s) ==
    Then({[s EXCEPT !.w.close = "inflight", !.w.queue = Tail(@), !.w.algs = FALSE,
                    !.sink = Append(@, SinkClose)]},
         LAMBDA t : {Job(t, "ws_close", Done), [t EXCEPT !.sinkp = "ws_close"]} \cup close_failed(t))

advance_queue_if_needed(s) ==
    CASE ~s.w.started \/ s.w.in_write # 0 -> {s}
      [] s.w.started /\ s.w.in_write = 0 /\ s.w.state = "erroring" -> finish_erroring(s)
      [] OTHER -> IF s.w.queue = <<>> THEN {s}
                  ELSE IF Head(s.w.queue) = Sentinel THEN process_close(s) ELSE process_write(s)

\* writer.write(); a stream that is closing, closed or failing refuses it.
refuses_write(s) == s.w.state # "writable" \/ s.w.close # "none"

writer_write(s, chunk) ==
    IF refuses_write(s) THEN {[s EXCEPT !.writes = Append(@, Failed)]}
    ELSE Then({update_backpressure([s EXCEPT !.writes = Append(@, Pending),
                                             !.w.reqs = Append(@, Len(s.writes) + 1),
                                             !.w.queue = Append(@, chunk)])},
              advance_queue_if_needed)

\* The size() of the strategy throws, or yields no size.
writer_write_unsized(s) ==
    IF refuses_write(s) THEN {}
    ELSE {[t EXCEPT !.writes = Append(@, Failed)] : t \in ws_controller_error(s)}

refuses_close(s) == s.w.state \in {"closed", "errored"} \/ s.w.close # "none"

writable_stream_close(s) ==
    LET t == [s EXCEPT !.w.close = "queued", !.closep = "pending"]
        u == IF s.w.backpressure /\ s.w.state = "writable" THEN SettleReady(t, "ok") ELSE t
    IN  Then({[u EXCEPT !.w.queue = Append(@, Sentinel)]}, advance_queue_if_needed)

\* abort() of a stream that has ended, or is being aborted, changes nothing.
writable_stream_abort(s) ==
    IF s.w.state \in {"closed", "errored"} \/ s.w.abort THEN {s}
    ELSE start_erroring([s EXCEPT !.w.abort = TRUE, !.w.was_erroring = s.w.state = "erroring",
                                  !.abortp = "pending"])

acquire_writer(s) ==
    LET ready == CASE s.w.state = "writable" ->
                        IF s.w.close # "none" \/ ~s.w.backpressure THEN "ok" ELSE "pending"
                   [] s.w.state = "closed" -> "ok"
                   [] OTHER -> "err"
        closed == CASE s.w.state = "closed" -> "ok" [] s.w.state = "errored" -> "err"
                    [] OTHER -> "pending"
    IN  [s EXCEPT !.w.locked = TRUE, !.w.ready = ready, !.w.closed = closed]

release_writer(s) == [s EXCEPT !.w.locked = FALSE, !.w.ready = "none", !.w.closed = "none"]

write_done(s) ==
    [SettleWrite(s, s.w.in_write, Done) EXCEPT !.w.in_write = 0, !.w.queue = Tail(@)]

\* Mutant: a freed place does not lift the backpressure.
ws_write_resolve_full(s) == Then({write_done(s)}, advance_queue_if_needed)

ws_write_resolve(s) == Then({update_backpressure(write_done(s))}, advance_queue_if_needed)

\* writable_stream_finish_in_flight_close: a close that succeeds wins over
\* an abort that came while it was running.
ws_close_resolve(s) ==
    LET t == SettleClose(s, "ok")
        u == IF s.w.state = "erroring" /\ s.w.abort
             THEN [t EXCEPT !.abortp = "ok", !.w.abort = FALSE] ELSE t
    IN  SettleClosed([u EXCEPT !.w.state = "closed"], "ok")

\* The reactions of the stream's own promises.
WritableJob(s, job) ==
    CASE job = <<"ws_start", Done>> -> advance_queue_if_needed([s EXCEPT !.w.started = TRUE])
      [] job = <<"ws_start", Failed>>  -> deal_with_rejection([s EXCEPT !.w.started = TRUE])
      [] job = <<"ws_write", Done>> -> ws_write_resolve(s)
      [] job = <<"ws_write", Failed>>  -> write_failed(s)
      [] job = <<"ws_close", Done>> -> {ws_close_resolve(s)}
      [] job = <<"ws_close", Failed>>  -> close_failed(s)
      [] job = <<"ws_abort", Done>> -> {finish_abort(s, "ok")}
      [] job = <<"ws_abort", Failed>>  -> {finish_abort(s, "err")}
=============================================================================
