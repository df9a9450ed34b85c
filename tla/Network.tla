-------------------------------- MODULE Network --------------------------------
(***************************************************************************)
(* TCP servers and sockets: the connection (src/net/connection.c), the      *)
(* listener (src/net/listener.c) and the net module's Server and Socket on  *)
(* top of them (src/modules/net.c).  A connection is one that the server    *)
(* accepted or one that a client socket made.  It                           *)
(* has a stream and a timer handle and, while it resolves a name, a request *)
(* that cannot be cancelled; it is freed when all of them have called back. *)
(*                                                                         *)
(* libuv is external: closing a stream calls its pending requests back with *)
(* UV_ECANCELED and then its close callback; both happen in later turns of  *)
(* the loop.  A handler of 'close' neither reconnects its socket nor makes  *)
(* its server listen again.  Allocations succeed.                           *)
(***************************************************************************)
EXTENDS Naturals, FiniteSets

CONSTANTS
  Conn,            \* connections, accepted by the server or made by connect()
  MaxConnections,  \* server.maxConnections, 0 for no limit
  MaxListens,      \* bound on the calls of server.listen()
  MaxConnects      \* bound on the client sockets

VARIABLES conn, s
vars == <<conn, s>>

\* conn[k]: ant_conn_t, the libuv handles and requests it owns, and the
\* net_socket_t that owns it.
\*   mem      "none", "live" or "freed"
\*   timer, stream   the handles: "open", "closing" or "closed"
\*   link     "idle", "resolving", "connecting", "up" or "down"
\*   shut     a shutdown request: "no", "pending" or "done"
\*   writes   write requests pending (0 or 1)
\*   socket   "none", "live" or "freed"; server (accepted), hadError, job (the microtask of
\*            net_socket_schedule_connect_error) are its own
\*   said     the events emitted: "nothing", "error", "close", "close error",
\*            or "late" when one followed 'close' or the flag of 'close' was wrong
NoConn == [mem |-> "none", timer |-> "open", stream |-> "open", link |-> "idle",
           shut |-> "no", writes |-> 0, closing |-> FALSE, close_handles |-> 0,
           reading |-> FALSE, read_paused |-> FALSE, read_eof |-> FALSE,
           socket |-> "none", server |-> FALSE, hadError |-> FALSE, job |-> FALSE, said |-> "nothing"]

\* s: net_server_t and its listener: "none", "open", "closing" or "closed";
\* connections: the listener's list; sockets: the server's list.
Init ==
  /\ conn = [k \in Conn |-> NoConn]
  /\ \E half \in BOOLEAN :
       s = [connections |-> {}, sockets |-> {}, listener |-> "none",
            listening |-> FALSE, closing |-> FALSE, closes |-> 0, listens |-> 0,
            allow_half_open |-> half]

\* A step of one connection.
Becomes(k, c) == conn' = [conn EXCEPT ![k] = c] /\ UNCHANGED s
-----------------------------------------------------------------------------
emit(c, event) ==
  [c EXCEPT !.said =
     CASE @ \in {"close", "close error", "late"} -> "late"
       [] event = "close" /\ c.hadError  -> IF @ = "error" THEN "close error" ELSE "late"
       [] event = "close" /\ ~c.hadError -> IF @ = "error" THEN "late" ELSE "close"
       [] event = "error"                -> "error"
       [] OTHER                          -> @]

\* Mutant: the sockets still open are not waited for.
finish_close_early(t) ==
  IF t.closing /\ t.listener = "closed"
  THEN [t EXCEPT !.closing = FALSE, !.listening = FALSE, !.closes = @ + 1]
  ELSE t

\* net_server_maybe_finish_close.
net_server_maybe_finish_close(t) ==
  IF t.closing /\ t.listener = "closed" /\ t.sockets = {}
  THEN [t EXCEPT !.closing = FALSE, !.listening = FALSE, !.closes = @ + 1]
  ELSE t

\* net_server_on_conn_close and net_socket_detach: what the socket emits, and what
\* becomes of the server; a connection that got no socket has no one to tell.
SocketClosed(c) ==
  IF c.socket # "live" THEN c ELSE [emit(c, "close") EXCEPT !.socket = "freed"]
net_server_on_conn_close(t, k, c) ==
  LET u == [t EXCEPT !.sockets = @ \ {k}] IN
  IF c.socket # "live" THEN t
  ELSE IF c.server THEN net_server_maybe_finish_close(u) ELSE u

\* ant_conn_finish_close.  The fields that only the freed memory had are
\* cleared.
ant_conn_finish_close(k, c) ==
  /\ conn' = [conn EXCEPT ![k] =
       [SocketClosed(c) EXCEPT !.mem = "freed", !.closing = FALSE, !.close_handles = 0,
                               !.read_paused = FALSE, !.read_eof = FALSE, !.hadError = FALSE]]
  /\ s' = [net_server_on_conn_close(s, k, c) EXCEPT !.connections = @ \ {k}]

\* --close_handles, of a closed handle or of the resolver.
CountDown(k, c) ==
  IF c.close_handles > 1 THEN Becomes(k, [c EXCEPT !.close_handles = @ - 1])
  ELSE ant_conn_finish_close(k, c)

\* Mutant: the resolver's request is not counted.
ant_conn_close_handles_only(c) ==
  IF c.closing THEN c
  ELSE [c EXCEPT !.closing = TRUE, !.timer = "closing", !.stream = "closing",
                 !.reading = FALSE, !.close_handles = 2]

\* ant_conn_close.
ant_conn_close(c) ==
  IF c.closing THEN c
  ELSE [c EXCEPT !.closing = TRUE, !.timer = "closing", !.stream = "closing",
                 !.reading = FALSE,
                 !.close_handles = IF c.link = "resolving" THEN 3 ELSE 2]

\* ant_conn_start.
ant_conn_start(c) ==
  IF c.closing THEN c ELSE [c EXCEPT !.read_paused = FALSE, !.reading = TRUE]

\* ant_conn_shutdown.  libuv refuses a stream without a connection and a second
\* shutdown; a refusal closes at once.
ant_conn_shutdown(c) ==
  IF c.closing THEN c
  ELSE IF c.link \in {"connecting", "up"} /\ c.shut = "no"
       THEN [c EXCEPT !.shut = "pending"]
       ELSE ant_conn_close(c)

\* What a handler of an event may do before the C code that emitted it goes on;
\* everything else commutes with that code.
Handler(c) == {c, ant_conn_close(c), ant_conn_shutdown(c)}

\* net_socket_on_error, then ant_conn_close: on_connect with a failure, a read
\* error, the microtask of a connect that failed at once.
Fail(c) ==
  {ant_conn_close(d) : d \in Handler(emit([c EXCEPT !.hadError = TRUE], "error"))}
Fails(k, c) == \E d \in Fail(c) : Becomes(k, d)
-----------------------------------------------------------------------------
\* The program's calls.  A socket's methods throw once it was detached.
Live(k) == conn[k].socket = "live"

\* js_net_server_listen with net_server_bind_listener and ant_listener_listen_*,
\* which resets the listener; binding may fail.
Listen ==
  /\ ~s.listening /\ s.listens < MaxListens
  /\ \/ s' = [s EXCEPT !.listener = "open", !.connections = {}, !.listening = TRUE,
                       !.closing = FALSE, !.listens = @ + 1]
     \/ s' = [s EXCEPT !.listener = "none", !.connections = {}]
  /\ UNCHANGED conn

\* js_net_server_close with ant_listener_stop.
ServerClose ==
  /\ s.listening \/ s.closing
  /\ s' = net_server_maybe_finish_close(
            [s EXCEPT !.closing = TRUE,
                      !.listener = IF @ = "open" THEN "closing" ELSE @])
  /\ UNCHANGED conn

\* net_socket_connect_parsed: an address, a name to resolve, or a failure that
\* a microtask will report.
Connect(k) ==
  /\ conn[k].mem = "none"
  /\ Cardinality({j \in Conn : conn[j].socket # "none" /\ ~conn[j].server}) < MaxConnects
  /\ \E link \in {"connecting", "resolving", "idle"} :
       Becomes(k, [conn[k] EXCEPT !.mem = "live", !.socket = "live", !.link = link,
                                  !.job = (link = "idle"), !.hadError = (link = "idle")])

\* Mutant: the error is emitted and forgotten.
DestroyForgets(k, err) ==
  /\ Live(k)
  /\ IF err THEN \E d \in Handler(emit(conn[k], "error")) : Becomes(k, ant_conn_close(d))
     ELSE Becomes(k, ant_conn_close(conn[k]))

\* js_net_socket_destroy, with or without an error.
Destroy(k, err) ==
  /\ Live(k)
  /\ IF err THEN Fails(k, conn[k]) ELSE Becomes(k, ant_conn_close(conn[k]))

\* js_net_socket_end; js_net_socket_write of a connection libuv can write to.
End(k) == Live(k) /\ Becomes(k, ant_conn_shutdown(conn[k]))
Write(k) ==
  /\ Live(k) /\ ~conn[k].closing
  /\ conn[k].link \in {"connecting", "up"} /\ conn[k].shut = "no" /\ conn[k].writes = 0
  /\ Becomes(k, [conn[k] EXCEPT !.writes = 1])

\* js_net_socket_pause and js_net_socket_resume.
Pause(k) ==
  /\ Live(k) /\ ~conn[k].closing
  /\ Becomes(k, [conn[k] EXCEPT !.read_paused = TRUE, !.reading = FALSE])
Resume(k) ==
  /\ Live(k) /\ ~conn[k].closing
  /\ conn[k].read_paused /\ ~conn[k].read_eof
  /\ Becomes(k, [conn[k] EXCEPT !.read_paused = FALSE, !.reading = TRUE])
-----------------------------------------------------------------------------
\* The loop's callbacks; the microtasks of a failed connect run before them.
Turn == \A k \in Conn : ~conn[k].job

\* net_socket_emit_connect_error.
ConnectErrorJob(k) == conn[k].job /\ Fails(k, [conn[k] EXCEPT !.job = FALSE])

\* ant_listener_accept_cb with ant_conn_accept and net_server_on_accept.  The
\* accept may fail, the server may be full, the handler of 'connection' may end
\* or destroy the socket; then the connection is started, which undoes a pause
\* that pauseOnConnect or the handler asked for.
Accept(k) ==
  /\ Turn /\ conn[k].mem = "none" /\ s.listener = "open"
  /\ LET born == [conn[k] EXCEPT !.mem = "live", !.link = "up"]
         made == [born EXCEPT !.socket = "live", !.server = TRUE]
         listed == [s EXCEPT !.connections = @ \cup {k}]
         full == MaxConnections > 0 /\ Cardinality(s.sockets) >= MaxConnections IN
     \/ Becomes(k, ant_conn_close([born EXCEPT !.link = "idle"]))
     \/ /\ full
        /\ conn' = [conn EXCEPT ![k] = ant_conn_close(born)] /\ s' = listed
     \/ /\ ~full
        /\ \E d \in Handler(made) : conn' = [conn EXCEPT ![k] = ant_conn_start(d)]
        /\ s' = [listed EXCEPT !.sockets = @ \cup {k}]

\* ant_listener_close_cb.
ListenerClosed ==
  /\ Turn /\ s.listener = "closing"
  /\ s' = net_server_maybe_finish_close([s EXCEPT !.listener = "closed"])
  /\ UNCHANGED conn

\* ant_conn_resolved_cb: a connection that was closed meanwhile only counts.
Resolved(k) ==
  /\ Turn /\ conn[k].mem = "live" /\ conn[k].link = "resolving"
  /\ IF conn[k].closing
     THEN CountDown(k, [conn[k] EXCEPT !.link = "down"])
     ELSE \/ Becomes(k, [conn[k] EXCEPT !.link = "connecting"])
          \/ Fails(k, [conn[k] EXCEPT !.link = "down"])

\* ant_conn_connect_cb_impl with net_socket_on_connect.
Connected(k) ==
  /\ Turn /\ conn[k].link = "connecting" /\ conn[k].stream = "open"
  /\ \/ Becomes(k, emit(ant_conn_start([conn[k] EXCEPT !.link = "up"]), "connect"))
     \/ Fails(k, [conn[k] EXCEPT !.link = "down"])

Reading(k) == Turn /\ conn[k].reading /\ conn[k].link = "up"

\* ant_conn_read_cb: data, the end of the stream or an error.
ReadData(k) == Reading(k) /\ Becomes(k, emit(conn[k], "data"))
ReadEnd(k) ==
  /\ Reading(k)
  /\ \E d \in Handler(emit([conn[k] EXCEPT !.read_eof = TRUE, !.reading = FALSE], "end")) :
       Becomes(k, IF s.allow_half_open THEN d ELSE ant_conn_shutdown(d))
ReadError(k) == Reading(k) /\ Fails(k, conn[k])

\* ant_conn_timeout_cb with net_socket_on_timeout, whenever the idle timer that
\* setTimeout() and the traffic restart goes off.
Timeout(k) ==
  /\ Turn /\ Live(k) /\ conn[k].timer = "open"
  /\ Becomes(k, emit(conn[k], "timeout"))

\* ant_conn_write_cb_impl; ant_conn_shutdown_cb, after the writes.
WriteDone(k) ==
  /\ Turn /\ conn[k].writes = 1 /\ conn[k].link = "up" /\ conn[k].stream = "open"
  /\ Becomes(k, [conn[k] EXCEPT !.writes = 0])
ShutdownDone(k) ==
  /\ Turn /\ conn[k].shut = "pending" /\ conn[k].link = "up"
  /\ conn[k].writes = 0 /\ conn[k].stream = "open"
  /\ Becomes(k, ant_conn_close([conn[k] EXCEPT !.shut = "done"]))

\* ant_conn_close_cb.  The stream's pending requests are called back before.
TimerClosed(k) ==
  /\ Turn /\ conn[k].timer = "closing"
  /\ CountDown(k, [conn[k] EXCEPT !.timer = "closed"])
StreamClosed(k) ==
  /\ Turn /\ conn[k].stream = "closing"
  /\ LET c == conn[k]
         cancelled == [c EXCEPT
           !.stream = "closed", !.writes = 0,
           !.shut = IF @ = "pending" THEN "done" ELSE @,
           !.link = IF @ = "resolving" THEN @ ELSE "down",
           !.hadError = @ \/ c.link = "connecting"] IN
     CountDown(k, IF c.link = "connecting" THEN emit(cancelled, "error") ELSE cancelled)

Next ==
  \/ Listen \/ ServerClose \/ ListenerClosed
  \/ \E k \in Conn : \/ Connect(k) \/ End(k) \/ Write(k) \/ Pause(k) \/ Resume(k)
                     \/ \E b \in BOOLEAN : Destroy(k, b)
                     \/ ConnectErrorJob(k) \/ Accept(k) \/ Resolved(k) \/ Connected(k)
                     \/ ReadData(k) \/ ReadEnd(k) \/ ReadError(k) \/ Timeout(k)
                     \/ WriteDone(k) \/ ShutdownDone(k) \/ TimerClosed(k) \/ StreamClosed(k)

Spec == Init /\ [][Next]_vars
\* The loop runs: a closed handle and a request are called back.  No peer has to
\* connect, send or close, and the program has to do nothing.
Fairness ==
  /\ WF_vars(ListenerClosed)
  /\ \A k \in Conn : /\ WF_vars(ConnectErrorJob(k)) /\ WF_vars(Resolved(k))
                     /\ WF_vars(TimerClosed(k)) /\ WF_vars(StreamClosed(k))
FairSpec == Spec /\ Fairness
-----------------------------------------------------------------------------
\* A connection's memory outlives everything that refers to it: while it closes,
\* close_handles counts exactly the callbacks still due, and once it is freed
\* none is due, no list holds it and its socket is gone (ant_conn_close,
\* ant_conn_close_cb and ant_conn_resolved_cb).
FreedWhenQuiet ==
  \A k \in Conn :
    LET c == conn[k]
        due == (IF c.timer = "closing" THEN {"timer"} ELSE {})
               \cup (IF c.stream = "closing" THEN {"stream"} ELSE {})
               \cup (IF c.link = "resolving" THEN {"resolver"} ELSE {}) IN
    /\ c.mem = "live" /\ c.closing => c.close_handles = Cardinality(due) /\ due # {}
    /\ c.mem = "freed" => /\ due = {} /\ c.timer = "closed" /\ c.stream = "closed"
                          /\ c.writes = 0 /\ c.shut # "pending" /\ ~c.job
                          /\ k \notin s.connections /\ c.socket # "live"
    /\ c.socket = "live" => c.mem = "live"

\* A server emits 'close' once for each time it listened, and only when its
\* listener is closed and every socket it accepted has been closed: a server
\* that does not listen has none (net_server_maybe_finish_close).
ServerClosesLast ==
  /\ s.closes = s.listens - (IF s.listening THEN 1 ELSE 0)
  /\ ~s.listening => /\ s.sockets = {} /\ s.listener \in {"none", "closed"}
                     /\ \A k \in Conn : conn[k].server => conn[k].socket = "freed"

\* A socket emits 'close' at most once and nothing after it, and the flag it
\* passes tells whether it emitted 'error' before (net_server_on_conn_close).
CloseTellsError ==
  \A k \in Conn : conn[k].said # "late"

\* A connection that is closing is not freed yet, or a closing server whose
\* sockets are all closing has not emitted 'close'.
Waiting ==
  \/ \E k \in Conn : conn[k].closing /\ conn[k].mem = "live"
  \/ s.closing /\ \A k \in s.sockets : conn[k].closing
=============================================================================
