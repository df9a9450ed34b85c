------------------------------- MODULE PipeTo -------------------------------
(***************************************************************************)
(* readable.pipeTo(writable), src/streams/pipes.c: a ReadableStream and a  *)
(* WritableStream, each as in its own module, joined by the pipe through   *)
(* one microtask queue.  s.p is the pipe_state_t and its promise.  The     *)
(* pipe registers its reactions on the promises of the two streams (the    *)
(* hooks of ReadableOps and WritableOps); reactions of a pipe that has     *)
(* settled do nothing, so settling it also takes the hooks away.           *)
(***************************************************************************)
EXTENDS ReadableOps, WritableOps

CONSTANT MaxHwm         \* the largest high-water mark of the destination

VARIABLE s

stopped(t) == t.p.settled # "no" \/ t.p.shutting_down

\* pipes_settle: the locks are released, then the promise is settled.
pipes_settle(t, v) ==
    IF t.p.settled # "no" THEN t
    ELSE release_writer(release_reader(
           [t EXCEPT !.p.settled = v, !.p.shutting_down = TRUE, !.hook = 0, !.piped = FALSE,
                     !.whook = 0, !.chook = FALSE, !.rhook = FALSE, !.wpiped = FALSE]))

abort_dest(t) == IF "abort" \in t.p.prevent THEN {t} ELSE writable_stream_abort(t)

cancel_source(t) == IF "cancel" \in t.p.prevent THEN {t} ELSE readable_stream_cancel(t)

shutting_down(t) == [t EXCEPT !.p.shutting_down = TRUE, !.p.in_flight = FALSE]

shutdown_from_source_error(t) ==
    IF stopped(t) THEN {t} ELSE {pipes_settle(u, "err") : u \in abort_dest(shutting_down(t))}

shutdown_from_dest_error(t) ==
    IF stopped(t) THEN {t} ELSE {pipes_settle(u, "err") : u \in cancel_source(shutting_down(t))}

shutdown_from_abort(t) ==
    IF stopped(t) THEN {t}
    ELSE {pipes_settle(u, "err") : u \in Then(abort_dest(shutting_down(t)), cancel_source)}

\* The next chunk: wait for the writer to be ready.
pipes_pump(t) ==
    IF stopped(t) \/ t.p.in_flight THEN t
    ELSE LET u == [t EXCEPT !.p.in_flight = TRUE]
         IN  CASE t.w.ready = "pending" -> [u EXCEPT !.rhook = TRUE]
               [] t.w.ready = "ok"      -> Job(u, "pipe_ready", 0)
               [] OTHER                 -> Job(u, "pipe_dest_error", 0)

\* The writer is ready: read.  A reaction registered on a promise that has
\* settled already is a job at once.
HookRead(t) ==
    LET i == Len(t.reads)
        v == t.reads[i]
    IN  JobIf(v # Pending, [t EXCEPT !.hook = i],
              IF v = Failed THEN "pipe_source_error" ELSE "pipe_read", v)

pipe_ready(t) ==
    IF stopped(t) THEN {[t EXCEPT !.p.in_flight = FALSE]}
    ELSE {HookRead(u) : u \in reader_read(t)}

HookWrite(t) ==
    LET i == Len(t.writes)
        v == t.writes[i]
    IN  JobIf(v # Pending, [t EXCEPT !.whook = i],
              IF v = Failed THEN "pipe_dest_error" ELSE "pipe_write", 0)

HookClose(t) ==
    JobIf(t.closep # "pending", [t EXCEPT !.chook = TRUE],
          IF t.closep = "ok" THEN "pipe_close_resolve" ELSE "pipe_close_reject", 0)

close_dest(t) ==
    IF refuses_close(t) THEN {Job(t, "pipe_close_reject", 0)}
    ELSE {HookClose(u) : u \in writable_stream_close(t)}

\* Mutant: the next chunk is asked for before this one is written, and the
\* end of the source settles the pipe at once.
pipe_read_ahead(t, v) ==
    IF stopped(t) THEN {[t EXCEPT !.p.in_flight = FALSE]}
    ELSE IF v = Done THEN {pipes_settle(t, "ok")}
    ELSE {pipes_pump([u EXCEPT !.p.in_flight = FALSE]) : u \in writer_write(t, v)}

pipe_read(t, v) ==
    IF stopped(t) THEN {[t EXCEPT !.p.in_flight = FALSE]}
    ELSE IF v # Done THEN {HookWrite(u) : u \in writer_write(t, v)}
    ELSE IF "close" \in t.p.prevent
         THEN {pipes_settle([t EXCEPT !.p.in_flight = FALSE], "ok")}
         ELSE close_dest([t EXCEPT !.p.in_flight = FALSE])

pipe_write(t) ==
    LET u == [t EXCEPT !.p.in_flight = FALSE] IN IF stopped(t) THEN u ELSE pipes_pump(u)

PipeJob(t, job) ==
    CASE job[1] = "pipe_ready"         -> pipe_ready(t)
      [] job[1] = "pipe_read"          -> pipe_read(t, job[2])
      [] job[1] = "pipe_write"         -> {pipe_write(t)}
      [] job[1] = "pipe_source_error"  -> shutdown_from_source_error(t)
      [] job[1] = "pipe_dest_error"    -> shutdown_from_dest_error(t)
      [] job[1] = "pipe_close_resolve" -> {pipes_settle(t, "ok")}
      [] job[1] = "pipe_close_reject"  -> {pipes_settle(t, "err")}
      [] job[1] \in {"rs_start", "rs_pull"} -> ReadableJob(t, job)
      [] OTHER                         -> WritableJob(t, job)

-----------------------------------------------------------------------------
\* Two new streams and the options of the pipe.  A destination whose
\* high-water mark is 0 is never ready, so the pipe never reads.
Init ==
    \E rhwm \in 0..1, whwm \in 1..MaxHwm, prevent \in SUBSET {"close", "abort", "cancel"} :
        s = [r |-> NewReadable(rhwm, TRUE), sent |-> 0, reads |-> <<>>, hook |-> 0, piped |-> FALSE,
             pullp |-> "none", cancelp |-> "none",
             w |-> NewWritable(whwm), writes |-> <<>>, closep |-> "none", abortp |-> "none",
             sink |-> <<>>, sinkp |-> "none",
             whook |-> 0, chook |-> FALSE, rhook |-> FALSE, wpiped |-> FALSE,
             p |-> [settled |-> "idle", shutting_down |-> FALSE, in_flight |-> FALSE,
                    prevent |-> prevent, signal |-> "live"],
             jobs |-> <<<<"rs_start", Done>>, <<"ws_start", Done>>>>]

\* readable_stream_pipe_to
StartPipe ==
    /\ s.p.settled = "idle"
    /\ LET t == acquire_writer(acquire_reader([s EXCEPT !.p.settled = "no", !.piped = TRUE,
                                                        !.wpiped = TRUE]))
           u == JobIf(t.r.closed = "err", t, "pipe_source_error", 0)
       IN  s' \in Then({JobIf(t.w.closed = "err", u, "pipe_dest_error", 0)},
                       LAMBDA v : IF v.p.signal = "aborted" THEN shutdown_from_abort(v)
                                  ELSE {pipes_pump(v)})

\* The signal is aborted: pipe_abort_listener, if a pipe is running.
SignalAborts ==
    /\ s.p.signal = "live"
    /\ LET t == [s EXCEPT !.p.signal = "aborted"]
       IN  s' \in IF s.p.settled = "no" THEN shutdown_from_abort(t) ELSE {t}

SourceEnqueue ==
    /\ can_close_or_enqueue(s) /\ s.sent < MaxChunks
    /\ s' \in controller_enqueue(s)

SourceClose == can_close_or_enqueue(s) /\ s' = controller_close(s)

SourceError == s.r.state = "readable" /\ s' = controller_error(s)

PullWorks ==
    /\ s.pullp = "pending" /\ can_close_or_enqueue(s)
    /\ \E t \in IF s.sent < MaxChunks THEN controller_enqueue(s) ELSE {controller_close(s)} :
         s' = [t EXCEPT !.pullp = "worked"]

PullResolves ==
    /\ s.pullp = "worked" \/ (s.pullp = "pending" /\ ~can_close_or_enqueue(s))
    /\ s' = Job([s EXCEPT !.pullp = "none"], "rs_pull", Done)

DestError == s' \in ws_controller_error(s)

SinkSettles ==
    /\ s.sinkp # "none"
    /\ \E v \in {Done, Failed} : s' = Job([s EXCEPT !.sinkp = "none"], s.sinkp, v)

RunJob ==
    /\ s.jobs # <<>>
    /\ s' \in Then({[s EXCEPT !.jobs = Tail(@)]}, LAMBDA t : PipeJob(t, Head(s.jobs)))

Next ==
    \/ StartPipe \/ SignalAborts
    \/ SourceEnqueue \/ SourceClose \/ SourceError \/ PullWorks \/ PullResolves
    \/ DestError \/ SinkSettles \/ RunJob

Fairness == WF_s(RunJob) /\ WF_s(PullWorks) /\ WF_s(PullResolves) /\ WF_s(SinkSettles)

Spec == Init /\ [][Next]_s /\ Fairness

-----------------------------------------------------------------------------
Written == SelectSeq(s.sink, LAMBDA c : c > 0)

(* The sink gets the chunks of the source in order and without a gap, and  *)
(* a pipe that fulfils its promise has delivered all of them: every write  *)
(* was fulfilled, the source is closed and empty, and the sink was closed  *)
(* after the last chunk unless preventClose asks otherwise.  A pipe that   *)
(* has settled holds no lock                                               *)
(* (pipe_read_resolve, pipe_write_resolve, pipes_settle).                  *)
PipeDelivers ==
    /\ Written = [i \in 1..Len(Written) |-> i] /\ Len(Written) <= s.sent
    /\ s.p.settled = "ok" =>
         /\ Len(Written) = s.sent /\ s.r.state = "closed" /\ s.r.queue = <<>>
         /\ \A i \in DOMAIN s.writes : s.writes[i] = Done
         /\ (s.closep = "ok" /\ Last(s.sink) = SinkClose) \/ "close" \in s.p.prevent
    /\ s.p.settled # "no" => ~s.r.locked /\ ~s.w.locked

\* A pipe that was started is not settled yet.
Waiting == s.p.settled = "no"
=============================================================================
