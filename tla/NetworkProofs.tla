---------------------------- MODULE NetworkProofs ----------------------------
(***************************************************************************)
(* The lifetime of connections, sockets and servers, for any set of         *)
(* connections.  The argument: each operation of connection.c and net.c     *)
(* keeps a predicate of its own connection's record, and the server's lists *)
(* change only where a connection is accepted or its last callback arrives. *)
(***************************************************************************)
EXTENDS Network, FiniteSetTheorems, TLAPS

Handles == {"open", "closing", "closed"}
Conns == [mem : {"none", "live", "freed"}, timer : Handles, stream : Handles,
          link : {"idle", "resolving", "connecting", "up", "down"},
          shut : {"no", "pending", "done"}, writes : {0, 1}, closing : BOOLEAN,
          close_handles : 0..3, reading : BOOLEAN, read_paused : BOOLEAN,
          read_eof : BOOLEAN, socket : {"none", "live", "freed"}, server : BOOLEAN,
          hadError : BOOLEAN, job : BOOLEAN,
          said : {"nothing", "error", "close", "close error"}]
Servers == [connections : SUBSET Conn, sockets : SUBSET Conn,
            listener : {"none", "open", "closing", "closed"}, listening : BOOLEAN,
            closing : BOOLEAN, closes : Nat, listens : Nat, allow_half_open : BOOLEAN]

\* The callbacks due to a connection.
One(b) == IF b THEN 1 ELSE 0
Count(c) == One(c.timer = "closing") + One(c.stream = "closing") + One(c.link = "resolving")

\* The handles and requests of a connection, by the state of its memory.
Held(c) ==
  /\ c.mem = "none" => c = NoConn
  /\ c.mem = "live" /\ ~c.closing => c.timer = "open" /\ c.stream = "open" /\ c.socket = "live"
  /\ c.mem = "live" /\ c.closing => /\ c.timer # "open" /\ c.stream # "open" /\ ~c.reading
                                    /\ c.close_handles = Count(c) /\ Count(c) > 0
  /\ c.mem = "freed" => /\ c.timer = "closed" /\ c.stream = "closed" /\ ~c.closing
                        /\ c.link # "resolving" /\ ~c.job /\ ~c.reading
  /\ c.stream = "closed" => c.writes = 0 /\ c.shut # "pending" /\ c.link # "connecting"

\* What a socket said, by its own state.
Told(c) ==
  /\ c.socket = "live" => c.mem = "live" /\ c.said \in {"nothing", "error"}
  /\ c.socket = "none" => c.said = "nothing" /\ ~c.server
  /\ c.socket = "freed" => c.said \in {"close", "close error"}
  /\ c.link = "connecting" \/ c.reading \/ c.job => c.socket = "live"
Flagged(c) ==
  c.socket = "live" => IF c.job THEN c.hadError ELSE c.hadError <=> c.said = "error"

Good(c) == c \in Conns /\ Held(c) /\ Told(c) /\ Flagged(c)

\* The server's lists and the connections.
Lists ==
  /\ \A k \in s.connections : conn[k].mem = "live"
  /\ \A k \in Conn : k \in s.sockets <=> conn[k].server /\ conn[k].socket = "live"

\* A server that does not listen has closed everything.
Serves(t) ==
  /\ t.closing => t.listening /\ t.listener \in {"closing", "closed"}
  /\ t.closing /\ t.listener = "closed" => t.sockets # {}
  /\ t.listening /\ ~t.closing => t.listener = "open"
  /\ t.listening => t.closes + 1 = t.listens
  /\ ~t.listening => t.closes = t.listens /\ t.listener \in {"none", "closed"} /\ t.sockets = {}

Inv ==
  /\ conn \in [Conn -> Conns] /\ \A k \in Conn : Good(conn[k])
  /\ s \in Servers /\ Serves(s) /\ Lists
-----------------------------------------------------------------------------
\* The operations of one connection.
Same(c, d) == d.mem = c.mem /\ d.socket = c.socket /\ d.server = c.server

LEMMA CloseGood ==
  ASSUME NEW c, Good(c), c.mem = "live"
  PROVE  /\ Good(ant_conn_close(c)) /\ Same(c, ant_conn_close(c)) /\ ant_conn_close(c).closing
<1> DEFINE d == ant_conn_close(c)
<1>1. CASE c.closing
  BY <1>1 DEF ant_conn_close, Same
<1>2. CASE ~c.closing
  <2> DEFINE n == IF c.link = "resolving" THEN 3 ELSE 2
  <2>1. d = [c EXCEPT !.closing = TRUE, !.timer = "closing", !.stream = "closing",
                      !.reading = FALSE, !.close_handles = n]
    BY <1>2 DEF ant_conn_close
  <2>2. n \in 0..3
    OBVIOUS
  <2> HIDE DEF n, d
  <2>3. d \in Conns
    BY <2>1, <2>2, Zenon DEF Good, Conns, Handles
  <2>4. /\ d.closing = TRUE /\ d.timer = "closing" /\ d.stream = "closing" /\ d.reading = FALSE
        /\ d.close_handles = n /\ d.mem = c.mem /\ d.link = c.link /\ d.socket = c.socket
        /\ d.server = c.server
    BY <2>1, Zenon DEF Good, Conns
  <2>5. Count(d) = n /\ n > 0
    BY <2>4 DEF Count, One, n
  <2>6. Held(d)
    BY <2>4, <2>5 DEF Held
  <2>7. Told(d) /\ Flagged(d)
    BY <2>1, Zenon DEF Good, Told, Flagged, Conns
  <2> QED
    BY <2>3, <2>4, <2>6, <2>7 DEF Good, Same, d
<1> QED
  BY <1>1, <1>2 DEF Good, Conns

LEMMA ShutdownGood ==
  ASSUME NEW c, Good(c), c.mem = "live"
  PROVE  Good(ant_conn_shutdown(c)) /\ Same(c, ant_conn_shutdown(c))
<1> DEFINE d == ant_conn_shutdown(c)
<1>1. CASE c.closing
  BY <1>1 DEF ant_conn_shutdown, Same
<1>2. CASE ~c.closing /\ c.link \in {"connecting", "up"} /\ c.shut = "no"
  <2>1. d = [c EXCEPT !.shut = "pending"]
    BY <1>2 DEF ant_conn_shutdown
  <2>2. d \in Conns /\ Same(c, d)
    BY <2>1 DEF Good, Conns, Same
  <2>3. Held(d)
    BY <1>2, <2>1 DEF Good, Held, Conns, Count, One
  <2>4. Told(d) /\ Flagged(d)
    BY <2>1 DEF Good, Told, Flagged, Conns
  <2> QED
    BY <2>2, <2>3, <2>4 DEF Good
<1>3. CASE ~c.closing /\ ~(c.link \in {"connecting", "up"} /\ c.shut = "no")
  BY <1>3, CloseGood DEF ant_conn_shutdown
<1> QED
  BY <1>1, <1>2, <1>3 DEF Good, Conns

LEMMA StartGood ==
  ASSUME NEW c, Good(c), c.socket = "live"
  PROVE  Good(ant_conn_start(c)) /\ Same(c, ant_conn_start(c))
<1> DEFINE d == ant_conn_start(c)
<1>1. CASE c.closing
  BY <1>1 DEF ant_conn_start, Same
<1>2. CASE ~c.closing
  <2>1. d = [c EXCEPT !.read_paused = FALSE, !.reading = TRUE]
    BY <1>2 DEF ant_conn_start
  <2>2. d \in Conns /\ Same(c, d)
    BY <2>1 DEF Good, Conns, Same
  <2>3. Held(d)
    BY <1>2, <2>1, ZenonT(30) DEF Good, Held, Told, Conns, Count, One
  <2>4. Told(d) /\ Flagged(d)
    BY <2>1, ZenonT(30) DEF Good, Told, Flagged, Conns
  <2> QED
    BY <2>2, <2>3, <2>4 DEF Good
<1> QED
  BY <1>1, <1>2 DEF Good, Conns

LEMMA HandlerGood ==
  ASSUME NEW c, Good(c), c.mem = "live", NEW d \in Handler(c)
  PROVE  Good(d) /\ Same(c, d)
BY CloseGood, ShutdownGood DEF Handler, Same

\* An event that is neither 'error' nor 'close'.
LEMMA EmitGood ==
  ASSUME NEW c, Good(c), c.socket = "live",
         NEW event \in {"connect", "data", "end", "timeout"}
  PROVE  emit(c, event) = c
BY DEF Good, Told, Conns, emit

LEMMA FailGood ==
  ASSUME NEW c \in Conns, Held(c), Told(c), c.socket = "live", NEW d \in Fail(c)
  PROVE  Good(d) /\ Same(c, d)
<1> DEFINE e == emit([c EXCEPT !.hadError = TRUE], "error")
<1>1. e = [c EXCEPT !.hadError = TRUE, !.said = "error"]
  BY DEF emit, Told, Conns
<1> HIDE DEF e
<1>2. e \in Conns /\ Same(c, e)
  BY <1>1 DEF Conns, Same
<1>3. Held(e)
  BY <1>1 DEF Held, Told, Conns, Count, One
<1>4. Told(e) /\ Flagged(e)
  BY <1>1 DEF Told, Flagged, Conns
<1>5. Good(e) /\ e.mem = "live"
  BY <1>2, <1>3, <1>4 DEF Good, Told, Same
<1>6. PICK h \in Handler(e) : d = ant_conn_close(h)
  BY DEF Fail, e
<1>7. Good(h) /\ Same(e, h)
  BY <1>5, <1>6, HandlerGood
<1> QED
  BY <1>2, <1>5, <1>6, <1>7, CloseGood DEF Same
-----------------------------------------------------------------------------
\* A step of one connection that leaves the server's lists right.
LEMMA BecomesInv ==
  ASSUME Inv, NEW k \in Conn, NEW d, Good(d), Same(conn[k], d), Becomes(k, d)
  PROVE  Inv'
<1>1. s' = s /\ conn' \in [Conn -> Conns] /\ conn'[k] = d
      /\ \A j \in Conn \ {k} : conn'[j] = conn[j]
  BY DEF Inv, Becomes, Good
<1>2. \A j \in Conn : Good(conn'[j]) /\ Same(conn[j], conn'[j])
  BY <1>1, Zenon DEF Inv, Same
<1>3. Lists'
  <2>1. s \in Servers
    BY DEF Inv
  <2>2. s.connections \subseteq Conn
    BY <2>1 DEF Servers
  <2> QED
    BY <1>1, <1>2, <2>2, Zenon DEF Inv, Lists, Same
<1> QED
  BY <1>1, <1>2, <1>3, Zenon DEF Inv

\* The server when its listener or one of its sockets has closed.
LEMMA FinishServes ==
  ASSUME NEW t \in Servers,
         t.closing => t.listening /\ t.listener \in {"closing", "closed"},
         t.listening /\ ~t.closing => t.listener = "open",
         t.listening => t.closes + 1 = t.listens,
         ~t.listening => t.closes = t.listens /\ t.listener \in {"none", "closed"} /\ t.sockets = {}
  PROVE  LET u == net_server_maybe_finish_close(t) IN
         /\ u \in Servers /\ Serves(u) /\ u.sockets = t.sockets
         /\ u.connections = t.connections
<1> DEFINE u == net_server_maybe_finish_close(t)
<1>1. CASE t.closing /\ t.listener = "closed" /\ t.sockets = {}
  <2> DEFINE n == t.closes + 1
  <2>1. u = [t EXCEPT !.closing = FALSE, !.listening = FALSE, !.closes = n]
    BY <1>1 DEF net_server_maybe_finish_close
  <2>2. n \in Nat /\ n = t.listens
    BY <1>1 DEF Servers
  <2> HIDE DEF n, u
  <2>3. u \in Servers
    BY <2>1, <2>2, Zenon DEF Servers
  <2>4. /\ u.closing = FALSE /\ u.listening = FALSE /\ u.closes = n /\ u.listens = t.listens
        /\ u.listener = t.listener /\ u.sockets = t.sockets /\ u.connections = t.connections
    BY <2>1, Zenon DEF Servers
  <2>5. Serves(u)
    BY <1>1, <2>2, <2>4, Zenon DEF Serves
  <2> QED
    BY <2>3, <2>4, <2>5 DEF u
<1>2. CASE ~(t.closing /\ t.listener = "closed" /\ t.sockets = {})
  <2>1. u = t
    BY <1>2 DEF net_server_maybe_finish_close
  <2>2. Serves(t)
    BY <1>2, Zenon DEF Serves
  <2> QED
    BY <2>1, <2>2
<1> QED
  BY <1>1, <1>2

\* A callback that close_handles counts has arrived; c is the connection without it.
Counted(c) ==
  /\ c \in Conns /\ Told(c) /\ Flagged(c) /\ ~c.job
  /\ c.mem = "live" /\ c.closing /\ c.timer # "open" /\ c.stream # "open" /\ ~c.reading
  /\ c.close_handles = Count(c) + 1
  /\ c.stream = "closed" => c.writes = 0 /\ c.shut # "pending" /\ c.link # "connecting"

\* The memory's own fields are cleared.
LEMMA ClearedConn ==
  ASSUME NEW c \in Conns
  PROVE  [c EXCEPT !.close_handles = 0, !.read_paused = FALSE, !.read_eof = FALSE,
                   !.hadError = FALSE] \in Conns
<1> DEFINE e == [c EXCEPT !.close_handles = 0]
           f == [e EXCEPT !.read_paused = FALSE, !.read_eof = FALSE]
           g == [f EXCEPT !.hadError = FALSE]
<1>1. 0 \in 0..3
  OBVIOUS
<1>2. e \in Conns
  BY <1>1, Zenon DEF Conns
<1>3. f \in Conns
  <2> HIDE DEF e
  <2> QED
    BY <1>2, Zenon DEF Conns
<1>4. g \in Conns
  <2> HIDE DEF f
  <2> QED
    BY <1>3, Zenon DEF Conns
<1> QED
  BY <1>4

LEMMA FinishGood ==
  ASSUME NEW c, Counted(c), Count(c) = 0,
         NEW d, d = [SocketClosed(c) EXCEPT !.mem = "freed", !.closing = FALSE,
                       !.close_handles = 0, !.read_paused = FALSE, !.read_eof = FALSE,
                       !.hadError = FALSE]
  PROVE  Good(d) /\ d.socket # "live" /\ d.server = c.server
<1> DEFINE e == SocketClosed(c)
<1>0. c \in Conns /\ c.timer = "closed" /\ c.stream = "closed" /\ c.link # "resolving"
  <2>1. c \in Conns /\ c.timer \in Handles /\ c.stream \in Handles
    BY Zenon DEF Counted, Conns
  <2> QED
    BY <2>1 DEF Counted, Handles, Count, One
<1>1. CASE c.socket = "live"
  <2>1. \E x \in {"close", "close error"} : e = [c EXCEPT !.said = x, !.socket = "freed"]
    <3>1. c.said \in {"nothing", "error"} /\ (c.hadError <=> c.said = "error")
      BY <1>1, Zenon DEF Counted, Told, Flagged
    <3>2. CASE c.hadError
      BY <1>1, <3>1, <3>2 DEF SocketClosed, emit
    <3>3. CASE ~c.hadError
      BY <1>1, <3>1, <3>3 DEF SocketClosed, emit
    <3> QED
      BY <3>2, <3>3
  <2>2. PICK x \in {"close", "close error"} : e = [c EXCEPT !.said = x, !.socket = "freed"]
    BY <2>1
  <2> HIDE DEF e
  <2>3. d = [c EXCEPT !.said = x, !.socket = "freed", !.mem = "freed", !.closing = FALSE,
               !.close_handles = 0, !.read_paused = FALSE, !.read_eof = FALSE, !.hadError = FALSE]
    BY <2>2 DEF e
  <2>4. /\ d.said = x /\ d.socket = "freed" /\ d.mem = "freed" /\ d.closing = FALSE
        /\ d.timer = c.timer /\ d.stream = c.stream /\ d.link = c.link /\ d.job = c.job
        /\ d.reading = c.reading /\ d.writes = c.writes /\ d.shut = c.shut /\ d.server = c.server
    <3>1. d.said = x /\ d.socket = "freed" /\ d.mem = "freed" /\ d.closing = FALSE
      BY <1>0, <2>3, Zenon DEF Conns
    <3>2. d.timer = c.timer /\ d.stream = c.stream /\ d.link = c.link /\ d.job = c.job
      BY <1>0, <2>3, Zenon DEF Conns
    <3>3. d.reading = c.reading /\ d.writes = c.writes /\ d.shut = c.shut /\ d.server = c.server
      BY <1>0, <2>3, Zenon DEF Conns
    <3> QED
      BY <3>1, <3>2, <3>3, Zenon
  <2>5. d \in Conns
    <3>1. x \in {"nothing", "error", "close", "close error"}
      BY <2>2
    <3> DEFINE f == [c EXCEPT !.said = x, !.socket = "freed", !.mem = "freed", !.closing = FALSE]
    <3>2. e \in Conns
      BY <1>0, <2>2, <3>1, ZenonT(30) DEF Conns
    <3>4. f = [e EXCEPT !.mem = "freed", !.closing = FALSE]
      BY <2>2
    <3>5. f \in Conns
      <4> HIDE DEF f
      <4> QED
        BY <3>2, <3>4, ZenonT(30) DEF Conns
    <3>3. d = [f EXCEPT !.close_handles = 0, !.read_paused = FALSE, !.read_eof = FALSE,
                        !.hadError = FALSE]
      BY <2>3
    <3> HIDE DEF f
    <3> QED
      BY <3>3, <3>5, ClearedConn, Zenon
  <2>6. Held(d)
    BY <1>0, <2>4, Zenon DEF Held, Counted
  <2>7. Told(d)
    <3>1. ~c.job /\ ~c.reading /\ c.link # "connecting"
      BY <1>0, Zenon DEF Counted
    <3> QED
      BY <1>0, <2>2, <2>4, <3>1, Zenon DEF Told
  <2>8. Flagged(d)
    BY <2>4, Zenon DEF Flagged
  <2> QED
    BY <2>4, <2>5, <2>6, <2>7, <2>8, Zenon DEF Good
<1>2. CASE c.socket # "live"
  <2>1. d = [c EXCEPT !.mem = "freed", !.closing = FALSE,
               !.close_handles = 0, !.read_paused = FALSE, !.read_eof = FALSE, !.hadError = FALSE]
    BY <1>2 DEF SocketClosed
  <2>2. /\ d.said = c.said /\ d.socket = c.socket /\ d.mem = "freed" /\ d.closing = FALSE
        /\ d.timer = c.timer /\ d.stream = c.stream /\ d.link = c.link /\ d.job = c.job
        /\ d.reading = c.reading /\ d.writes = c.writes /\ d.shut = c.shut /\ d.server = c.server
    BY <1>0, <2>1, ZenonT(30) DEF Conns
  <2>3. d \in Conns
    <3> DEFINE f == [c EXCEPT !.mem = "freed", !.closing = FALSE]
    <3>1. f \in Conns
      BY <1>0, ZenonT(30) DEF Conns
    <3>2. d = [f EXCEPT !.close_handles = 0, !.read_paused = FALSE, !.read_eof = FALSE,
                        !.hadError = FALSE]
      BY <2>1
    <3> HIDE DEF f
    <3> QED
      BY <3>1, <3>2, ClearedConn, ZenonT(30)
  <2>4. Held(d)
    BY <1>0, <2>2, Zenon DEF Held, Counted
  <2>5. Told(d) /\ Flagged(d)
    BY <1>0, <1>2, <2>2, Zenon DEF Told, Flagged, Counted
  <2> QED
    BY <1>2, <2>2, <2>3, <2>4, <2>5 DEF Good
<1> QED
  BY <1>1, <1>2

\* The server when a connection is gone.
LEMMA LeftServes ==
  ASSUME s \in Servers, Serves(s), NEW k \in Conn, NEW c,
         k \in s.sockets <=> c.server /\ c.socket = "live"
  PROVE  LET t == net_server_on_conn_close(s, k, c) IN
         /\ t \in Servers /\ Serves(t) /\ t.sockets = s.sockets \ {k}
         /\ t.connections = s.connections
<1> DEFINE u == [s EXCEPT !.sockets = @ \ {k}]
<1>1. CASE c.socket = "live" /\ c.server
  <2>1. u \in Servers
    BY DEF Servers
  <2>2. /\ u.sockets = s.sockets \ {k} /\ u.connections = s.connections
        /\ u.closing = s.closing /\ u.listening = s.listening /\ u.listener = s.listener
        /\ u.closes = s.closes /\ u.listens = s.listens
    BY Zenon DEF Servers
  <2> HIDE DEF u
  <2>3. ~u.listening => u.sockets = {}
    BY <1>1, <2>2 DEF Serves
  <2>4. LET v == net_server_maybe_finish_close(u) IN
        v \in Servers /\ Serves(v) /\ v.sockets = u.sockets /\ v.connections = u.connections
    BY <2>1, <2>2, <2>3, FinishServes, Zenon DEF Serves
  <2>5. net_server_on_conn_close(s, k, c) = net_server_maybe_finish_close(u)
    BY <1>1 DEF net_server_on_conn_close, u
  <2> QED
    BY <2>2, <2>4, <2>5
<1>2. CASE ~(c.socket = "live" /\ c.server)
  <2>1. s.sockets = s.sockets \ {k}
    BY <1>2
  <2>2. u = s
    BY <2>1 DEF Servers
  <2>3. net_server_on_conn_close(s, k, c) = s
    BY <1>2, <2>2 DEF net_server_on_conn_close
  <2> QED
    BY <2>1, <2>3
<1> QED
  BY <1>1, <1>2

LEMMA FinishInv ==
  ASSUME Inv, NEW k \in Conn, NEW c, Counted(c), Count(c) = 0, Same(conn[k], c),
         ant_conn_finish_close(k, c)
  PROVE  Inv'
<1> DEFINE d == [SocketClosed(c) EXCEPT !.mem = "freed", !.closing = FALSE,
                   !.close_handles = 0, !.read_paused = FALSE, !.read_eof = FALSE,
                   !.hadError = FALSE]
           t == net_server_on_conn_close(s, k, c)
<1>1. conn' = [conn EXCEPT ![k] = d] /\ s' = [t EXCEPT !.connections = @ \ {k}]
  BY DEF ant_conn_finish_close
<1>2. Good(d) /\ d.socket # "live" /\ d.server = c.server
  BY FinishGood, Zenon
<1>3. k \in s.sockets <=> c.server /\ c.socket = "live"
  BY Zenon DEF Inv, Lists, Same
<1>4. t \in Servers /\ Serves(t) /\ t.sockets = s.sockets \ {k} /\ t.connections = s.connections
  BY <1>3, LeftServes DEF Inv
<1> HIDE DEF d, t
<1>5. /\ conn' \in [Conn -> Conns] /\ conn'[k] = d
      /\ \A j \in Conn \ {k} : conn'[j] = conn[j]
  BY <1>1, <1>2 DEF Inv, Good
<1>6. s' \in Servers
  BY <1>1, <1>4 DEF Servers
<1>7. /\ s'.sockets = s.sockets \ {k} /\ s'.connections = s.connections \ {k}
      /\ s'.closing = t.closing /\ s'.listening = t.listening /\ s'.listener = t.listener
      /\ s'.closes = t.closes /\ s'.listens = t.listens
  BY <1>1, <1>4, Zenon DEF Servers
<1>8. Serves(s')
  BY <1>4, <1>7, Zenon DEF Serves
<1>9. \A j \in Conn : Good(conn'[j])
  BY <1>2, <1>5, Zenon DEF Inv
<1>10. s.connections \subseteq Conn
  BY DEF Inv, Servers
<1>11. Lists'
  <2>1. \A j \in s'.connections : conn'[j].mem = "live"
    BY <1>5, <1>7, <1>10 DEF Inv, Lists
  <2>2. ASSUME NEW j \in Conn
        PROVE  j \in s'.sockets <=> conn'[j].server /\ conn'[j].socket = "live"
    BY <1>2, <1>5, <1>7, <2>2, Zenon DEF Inv, Lists
  <2> QED
    BY <2>1, <2>2 DEF Lists
<1> QED
  BY <1>5, <1>6, <1>8, <1>9, <1>11, Zenon DEF Inv

LEMMA CountDownInv ==
  ASSUME Inv, NEW k \in Conn, NEW c, Counted(c), Same(conn[k], c), CountDown(k, c)
  PROVE  Inv'
<1>0. c.close_handles \in 0..3 /\ Count(c) \in 0..3 /\ c.close_handles = Count(c) + 1
  <2>1. c.close_handles \in 0..3 /\ c.close_handles = Count(c) + 1
    BY Zenon DEF Counted, Conns
  <2>2. Count(c) \in 0..3
    BY DEF Count, One
  <2> QED
    BY <2>1, <2>2
<1>1. CASE c.close_handles > 1
  <2> DEFINE n == c.close_handles - 1
             d == [c EXCEPT !.close_handles = n]
  <2>1. Becomes(k, d)
    BY <1>1 DEF CountDown
  <2>2. n \in 0..3 /\ n = Count(c) /\ n > 0
    BY <1>0, <1>1
  <2> HIDE DEF n
  <2>3. d \in Conns
    BY <2>2 DEF Counted, Conns
  <2>4. /\ d.close_handles = n /\ d.mem = c.mem /\ d.timer = c.timer /\ d.stream = c.stream
        /\ d.link = c.link /\ d.closing = c.closing /\ d.reading = c.reading
        /\ d.writes = c.writes /\ d.shut = c.shut
    BY Zenon DEF Counted, Conns
  <2>5. /\ d.socket = c.socket /\ d.server = c.server /\ d.said = c.said /\ d.job = c.job
        /\ d.hadError = c.hadError
    BY Zenon DEF Counted, Conns
  <2> HIDE DEF d
  <2>6. Count(d) = Count(c)
    BY <2>4 DEF Count
  <2>7. Held(d)
    BY <2>2, <2>4, <2>6 DEF Counted, Held
  <2>8. Told(d) /\ Flagged(d)
    BY <2>4, <2>5, Zenon DEF Counted, Told, Flagged
  <2>9. Same(conn[k], d)
    BY <2>4, <2>5, Zenon DEF Same
  <2> QED
    BY <2>1, <2>3, <2>7, <2>8, <2>9, BecomesInv DEF Good
<1>2. CASE ~(c.close_handles > 1)
  <2>1. Count(c) = 0
    BY <1>0, <1>2
  <2> QED
    BY <1>2, <2>1, FinishInv DEF CountDown
<1> QED
  BY <1>1, <1>2
-----------------------------------------------------------------------------
\* What a live socket and a connection that waits for a callback have.
LEMMA LiveFacts ==
  ASSUME NEW c, Good(c), c.socket = "live"
  PROVE  c.mem = "live" /\ (~c.closing => c.timer = "open" /\ c.stream = "open")
BY Zenon DEF Good, Told, Held

LEMMA OpenFacts ==
  ASSUME NEW c, Good(c), c # NoConn, c.stream = "open"
  PROVE  c.mem = "live" /\ ~c.closing /\ c.socket = "live"
<1>1. c.mem \in {"none", "live", "freed"}
  BY DEF Good, Conns
<1> QED
  BY <1>1 DEF Good, Held

LEMMA ClosingFacts ==
  ASSUME NEW c, Good(c), c.timer = "closing" \/ c.stream = "closing"
  PROVE  c.mem = "live" /\ c.closing
<1>1. c.mem \in {"none", "live", "freed"}
  BY DEF Good, Conns
<1>2. c # NoConn
  BY DEF NoConn
<1> QED
  BY <1>1, <1>2 DEF Good, Held

\* The fields of a connection that its handles do not depend on.
LEMMA WriteGood ==
  ASSUME NEW c, Good(c), c.socket = "live", ~c.closing,
         NEW d, d = [c EXCEPT !.writes = 1]
  PROVE  Good(d) /\ Same(c, d)
<1>1. d \in Conns /\ Same(c, d)
  BY DEF Good, Conns, Same
<1>2. Held(d)
  BY LiveFacts DEF Good, Held, Conns, Count, One
<1>3. Told(d) /\ Flagged(d)
  BY DEF Good, Told, Flagged, Conns
<1> QED
  BY <1>1, <1>2, <1>3 DEF Good

LEMMA PauseGood ==
  ASSUME NEW c, Good(c), c.socket = "live", ~c.closing, NEW p \in BOOLEAN,
         NEW d, d = [c EXCEPT !.read_paused = p, !.reading = ~p]
  PROVE  Good(d) /\ Same(c, d)
<1>1. d \in Conns /\ Same(c, d)
  BY DEF Good, Conns, Same
<1>2. Held(d)
  BY LiveFacts DEF Good, Held, Conns, Count, One
<1>3. Told(d) /\ Flagged(d)
  BY DEF Good, Told, Flagged, Conns
<1> QED
  BY <1>1, <1>2, <1>3 DEF Good

LEMMA EofGood ==
  ASSUME NEW c, Good(c), c.socket = "live", ~c.closing,
         NEW d, d = [c EXCEPT !.read_eof = TRUE, !.reading = FALSE]
  PROVE  Good(d) /\ Same(c, d)
<1>1. d \in Conns /\ Same(c, d)
  BY DEF Good, Conns, Same
<1>2. Held(d)
  BY LiveFacts DEF Good, Held, Conns, Count, One
<1>3. Told(d) /\ Flagged(d)
  BY DEF Good, Told, Flagged, Conns
<1> QED
  BY <1>1, <1>2, <1>3 DEF Good

LEMMA DoneGood ==
  ASSUME NEW c, Good(c), c.socket = "live", ~c.closing,
         NEW d, \/ d = [c EXCEPT !.writes = 0]
                \/ d = [c EXCEPT !.shut = "done"]
  PROVE  Good(d) /\ Same(c, d)
<1>1. d \in Conns /\ Same(c, d)
  BY DEF Good, Conns, Same
<1>2. Held(d)
  BY LiveFacts, ZenonT(30) DEF Good, Held, Conns, Count, One
<1>3. Told(d) /\ Flagged(d)
  BY DEF Good, Told, Flagged, Conns
<1> QED
  BY <1>1, <1>2, <1>3 DEF Good

LEMMA LinkGood ==
  ASSUME NEW c, Good(c), c.socket = "live", ~c.closing, NEW link \in {"connecting", "up", "down"},
         NEW d, d = [c EXCEPT !.link = link]
  PROVE  Good(d) /\ Same(c, d)
<1>1. d \in Conns /\ Same(c, d)
  BY DEF Good, Conns, Same
<1>2. Held(d)
  BY LiveFacts DEF Good, Held, Conns, Count, One
<1>3. Told(d) /\ Flagged(d)
  BY DEF Good, Told, Flagged, Conns
<1> QED
  BY <1>1, <1>2, <1>3 DEF Good

\* A connect that failed at once, and its microtask.
LEMMA JobDone ==
  ASSUME NEW c, Good(c), c.job, NEW d, d = [c EXCEPT !.job = FALSE]
  PROVE  d \in Conns /\ Held(d) /\ Told(d) /\ Same(c, d) /\ c.socket = "live"
<1>0. c.socket = "live"
  BY Zenon DEF Good, Told
<1>1. d \in Conns /\ Same(c, d)
  BY DEF Good, Conns, Same
<1>2. Held(d)
  BY <1>0, LiveFacts DEF Good, Held, Conns, Count, One
<1>3. Told(d)
  BY DEF Good, Told, Conns
<1> QED
  BY <1>0, <1>1, <1>2, <1>3
-----------------------------------------------------------------------------
\* The callbacks that close_handles counts.
LEMMA TimerCounted ==
  ASSUME NEW c, Good(c), ~c.job, c.timer = "closing", NEW d, d = [c EXCEPT !.timer = "closed"]
  PROVE  Counted(d) /\ Same(c, d)
<1>1. d \in Conns /\ Same(c, d)
  BY DEF Good, Conns, Handles, Same
<1>2. c.mem = "live" /\ c.closing
  BY ClosingFacts
<1>3. /\ d.mem = c.mem /\ d.closing = c.closing /\ d.stream = c.stream /\ d.reading = c.reading
      /\ d.timer = "closed" /\ d.close_handles = c.close_handles /\ d.link = c.link
      /\ d.writes = c.writes /\ d.shut = c.shut /\ d.job = c.job
  BY Zenon DEF Good, Conns
<1>4. c.close_handles = Count(d) + 1
  BY <1>2, <1>3 DEF Good, Held, Count, One
<1>5. Told(d) /\ Flagged(d)
  BY DEF Good, Told, Flagged, Conns
<1> QED
  BY <1>1, <1>2, <1>3, <1>4, <1>5, Zenon DEF Counted, Good, Held

LEMMA ResolverCounted ==
  ASSUME NEW c, Good(c), ~c.job, c.mem = "live", c.closing, c.link = "resolving",
         NEW d, d = [c EXCEPT !.link = "down"]
  PROVE  Counted(d) /\ Same(c, d)
<1>1. d \in Conns /\ Same(c, d)
  BY DEF Good, Conns, Same
<1>3. /\ d.mem = c.mem /\ d.closing = c.closing /\ d.stream = c.stream /\ d.reading = c.reading
      /\ d.timer = c.timer /\ d.close_handles = c.close_handles /\ d.link = "down"
      /\ d.writes = c.writes /\ d.shut = c.shut /\ d.job = c.job
  BY Zenon DEF Good, Conns
<1>4. c.close_handles = Count(d) + 1
  BY <1>3 DEF Good, Held, Count, One
<1>5. Told(d) /\ Flagged(d)
  BY DEF Good, Told, Flagged, Conns
<1> QED
  BY <1>1, <1>3, <1>4, <1>5, Zenon DEF Counted, Good, Held

Cancelled(c) ==
  [c EXCEPT !.stream = "closed", !.writes = 0,
            !.shut = IF @ = "pending" THEN "done" ELSE @,
            !.link = IF @ = "resolving" THEN @ ELSE "down",
            !.hadError = @ \/ c.link = "connecting"]
LEMMA CancelledFields ==
  ASSUME NEW c \in Conns
  PROVE  LET e == Cancelled(c) IN
         /\ e \in Conns
         /\ e.mem = c.mem /\ e.closing = c.closing /\ e.timer = c.timer /\ e.reading = c.reading
         /\ e.close_handles = c.close_handles /\ e.said = c.said /\ e.socket = c.socket
         /\ e.server = c.server /\ e.job = c.job /\ e.stream = "closed" /\ e.writes = 0
         /\ e.shut \in {"no", "done"} /\ e.link = (IF c.link = "resolving" THEN c.link ELSE "down")
         /\ e.hadError = (c.hadError \/ c.link = "connecting")
<1> DEFINE e == Cancelled(c)
           a == IF c.shut = "pending" THEN "done" ELSE c.shut
           b == IF c.link = "resolving" THEN c.link ELSE "down"
           h == c.hadError \/ c.link = "connecting"
           f == [c EXCEPT !.stream = "closed", !.writes = 0]
           g == [f EXCEPT !.shut = a, !.link = b]
<1>1. a \in {"no", "done"} /\ b \in {"resolving", "down"} /\ h \in BOOLEAN
  BY DEF Conns
<1>2. e = [g EXCEPT !.hadError = h]
  BY DEF Conns, Cancelled
<1>3. f \in Conns
  BY DEF Conns, Handles
<1>4. g \in Conns
  <2> HIDE DEF f, a, b
  <2> QED
    BY <1>1, <1>3, ZenonT(30) DEF Conns
<1>5. e \in Conns
  <2> HIDE DEF g, h, e
  <2> QED
    BY <1>1, <1>2, <1>4 DEF Conns
<1>6. /\ e.mem = c.mem /\ e.closing = c.closing /\ e.timer = c.timer /\ e.reading = c.reading
      /\ e.close_handles = c.close_handles /\ e.said = c.said /\ e.socket = c.socket
      /\ e.server = c.server /\ e.job = c.job
  BY Zenon DEF Conns, Cancelled
<1>7. /\ e.stream = "closed" /\ e.writes = 0 /\ e.shut = a /\ e.link = b /\ e.hadError = h
  BY DEF Conns, Cancelled
<1> QED
  BY <1>1, <1>5, <1>6, <1>7

LEMMA ErrorFields ==
  ASSUME NEW e \in Conns, e.said \in {"nothing", "error"}
  PROVE  LET d == emit(e, "error") IN
         /\ d \in Conns /\ d.said = "error"
         /\ d.mem = e.mem /\ d.closing = e.closing /\ d.timer = e.timer /\ d.reading = e.reading
         /\ d.close_handles = e.close_handles /\ d.socket = e.socket
         /\ d.server = e.server /\ d.job = e.job /\ d.stream = e.stream /\ d.writes = e.writes
         /\ d.shut = e.shut /\ d.link = e.link /\ d.hadError = e.hadError
<1> DEFINE d == emit(e, "error")
<1>1. d = [e EXCEPT !.said = "error"]
  BY DEF emit
<1> HIDE DEF d
<1>2. d \in Conns
  BY <1>1 DEF Conns
<1>3. /\ d.said = "error" /\ d.mem = e.mem /\ d.closing = e.closing /\ d.timer = e.timer
      /\ d.reading = e.reading /\ d.close_handles = e.close_handles /\ d.socket = e.socket
  BY <1>1, Zenon DEF Conns
<1>4. /\ d.server = e.server /\ d.job = e.job /\ d.stream = e.stream /\ d.writes = e.writes
      /\ d.shut = e.shut /\ d.link = e.link /\ d.hadError = e.hadError
  BY <1>1, Zenon DEF Conns
<1> QED
  BY <1>2, <1>3, <1>4, Zenon DEF d

LEMMA StreamCounted ==
  ASSUME NEW c, Good(c), ~c.job, c.stream = "closing", NEW d,
         d = IF c.link = "connecting" THEN emit(Cancelled(c), "error") ELSE Cancelled(c)
  PROVE  Counted(d) /\ Same(c, d)
<1> DEFINE x == IF c.link = "connecting" THEN "error" ELSE c.said
           h == c.hadError \/ c.link = "connecting"
<1>1. c \in Conns /\ c.hadError \in BOOLEAN
  BY DEF Good, Conns
<1>2. c.mem = "live" /\ c.closing
  BY ClosingFacts
<1>3. c.link = "connecting" => c.socket = "live" /\ c.said \in {"nothing", "error"}
  BY Zenon DEF Good, Told
<1>4. c.close_handles = Count(c) /\ c.timer # "open" /\ ~c.reading
  BY <1>2, Zenon DEF Good, Held
<1>5. /\ d \in Conns /\ d.said = x
      /\ d.mem = c.mem /\ d.closing = c.closing /\ d.timer = c.timer /\ d.reading = c.reading
      /\ d.close_handles = c.close_handles /\ d.socket = c.socket
      /\ d.server = c.server /\ d.job = c.job
      /\ d.stream = "closed" /\ d.writes = 0 /\ d.shut \in {"no", "done"}
      /\ d.link = (IF c.link = "resolving" THEN c.link ELSE "down")
      /\ d.hadError = h
  <2>1. CASE c.link = "connecting"
    BY <1>1, <1>3, <2>1, CancelledFields, ErrorFields
  <2>2. CASE c.link # "connecting"
    BY <1>1, <2>2, CancelledFields
  <2> QED
    BY <2>1, <2>2
<1>6. Same(c, d)
  BY <1>5, Zenon DEF Same
<1>7. c.close_handles = Count(d) + 1
  BY <1>4, <1>5 DEF Count, One
<1>8. d.link \in {"resolving", "down"}
  BY <1>5
<1>9. Told(d)
  <2>1. /\ c.socket = "live" => c.mem = "live" /\ c.said \in {"nothing", "error"}
        /\ c.socket = "none" => c.said = "nothing" /\ ~c.server
        /\ c.socket = "freed" => c.said \in {"close", "close error"}
        /\ c.socket # "live" => x = c.said
    BY <1>3, Zenon DEF Good, Told
  <2>2. c.socket = "live" => x \in {"nothing", "error"}
    BY <2>1
  <2> HIDE DEF x, h
  <2> QED
    BY <1>4, <1>5, <1>8, <2>1, <2>2, Zenon DEF Told
<1>10. Flagged(d)
  <2>1. c.socket = "live" => (c.hadError <=> c.said = "error")
    BY Zenon DEF Good, Flagged
  <2>2. c.socket = "live" => (h <=> x = "error")
    BY <2>1
  <2> HIDE DEF x, h
  <2> QED
    BY <1>5, <2>2, Zenon DEF Flagged
<1>11. d.shut # "pending" /\ d.link # "connecting"
  BY <1>5, <1>8
<1> HIDE DEF x, h
<1> QED
  BY <1>2, <1>4, <1>5, <1>6, <1>7, <1>9, <1>10, <1>11, Zenon DEF Counted
-----------------------------------------------------------------------------
\* A connection comes into being.
LEMMA BirthInv ==
  ASSUME Inv, NEW k \in Conn, conn[k].mem = "none", NEW d, Good(d), d.mem = "live",
         conn' = [conn EXCEPT ![k] = d], s' \in Servers, Serves(s'),
         s'.connections \subseteq s.connections \cup {k},
         s'.sockets = s.sockets \cup (IF d.server /\ d.socket = "live" THEN {k} ELSE {})
  PROVE  Inv'
<1>1. /\ conn' \in [Conn -> Conns] /\ conn'[k] = d
      /\ \A j \in Conn \ {k} : conn'[j] = conn[j]
  BY DEF Inv, Good
<1>2. \A j \in Conn : Good(conn'[j])
  BY <1>1, Zenon DEF Inv
<1>3. s.connections \subseteq Conn
  BY DEF Inv, Servers
<1>4. k \notin s.sockets
  <2>1. conn[k] = NoConn
    BY DEF Inv, Good, Held
  <2> QED
    BY <2>1 DEF Inv, Lists, NoConn
<1>5. Lists'
  <2>1. \A j \in s'.connections : conn'[j].mem = "live"
    BY <1>1, <1>3 DEF Inv, Lists
  <2>2. ASSUME NEW j \in Conn
        PROVE  j \in s'.sockets <=> conn'[j].server /\ conn'[j].socket = "live"
    <3>1. CASE j = k
      BY <1>1, <1>4, <3>1
    <3>2. CASE j # k
      <4>1. j \in s'.sockets <=> j \in s.sockets
        BY <3>2
      <4> QED
        BY <1>1, <3>2, <4>1, Zenon DEF Inv, Lists
    <3> QED
      BY <3>1, <3>2
  <2> QED
    BY <2>1, <2>2 DEF Lists
<1> QED
  BY <1>1, <1>2, <1>5, Zenon DEF Inv

LEMMA NoConnType == NoConn \in Conns
BY DEF NoConn, Conns, Handles

LEMMA NewSocket ==
  ASSUME NEW link \in {"connecting", "resolving", "idle"}, NEW b \in BOOLEAN, b <=> link = "idle",
         NEW d, d = [NoConn EXCEPT !.mem = "live", !.socket = "live", !.link = link,
                                   !.job = b, !.hadError = b]
  PROVE  Good(d) /\ d.mem = "live" /\ d.server = FALSE
<1> DEFINE f == [NoConn EXCEPT !.mem = "live", !.socket = "live", !.link = link]
<1>1. f \in Conns
  BY NoConnType DEF Conns
<1>2. d \in Conns
  <2>1. d = [f EXCEPT !.job = b, !.hadError = b]
    OBVIOUS
  <2> HIDE DEF f
  <2> QED
    BY <1>1, <2>1 DEF Conns
<1>3. /\ d.mem = "live" /\ d.socket = "live" /\ d.link = link /\ d.job = b /\ d.hadError = b
      /\ d.timer = "open" /\ d.stream = "open" /\ d.closing = FALSE /\ d.reading = FALSE
      /\ d.server = FALSE /\ d.said = "nothing"
  BY Zenon DEF NoConn
<1>4. Held(d) /\ Told(d)
  BY <1>3 DEF Held, Told
<1>5. Flagged(d)
  BY <1>3 DEF Flagged
<1> QED
  BY <1>2, <1>3, <1>4, <1>5 DEF Good

LEMMA NewAccepted ==
  ASSUME NEW d, d = [[NoConn EXCEPT !.mem = "live", !.link = "up"]
                       EXCEPT !.socket = "live", !.server = TRUE]
  PROVE  Good(d) /\ d.mem = "live" /\ d.socket = "live" /\ d.server = TRUE
<1> DEFINE f == [NoConn EXCEPT !.mem = "live", !.link = "up"]
<1>1. f \in Conns
  BY NoConnType DEF Conns
<1>2. d \in Conns
  <2>1. d = [f EXCEPT !.socket = "live", !.server = TRUE]
    OBVIOUS
  <2> HIDE DEF f
  <2> QED
    BY <1>1, <2>1 DEF Conns
<1>3. /\ d.mem = "live" /\ d.socket = "live" /\ d.link = "up" /\ d.job = FALSE
      /\ d.hadError = FALSE /\ d.timer = "open" /\ d.stream = "open" /\ d.closing = FALSE
      /\ d.reading = FALSE /\ d.server = TRUE /\ d.said = "nothing"
  BY Zenon DEF NoConn
<1>4. Held(d) /\ Told(d)
  BY <1>3 DEF Held, Told
<1>5. Flagged(d)
  BY <1>3 DEF Flagged
<1> QED
  BY <1>2, <1>3, <1>4, <1>5 DEF Good

LEMMA NewConn ==
  ASSUME NEW link \in {"idle", "up"}, NEW f, f = [NoConn EXCEPT !.mem = "live", !.link = link]
  PROVE  /\ f \in Conns /\ f.mem = "live" /\ f.socket = "none" /\ f.link \in {"idle", "up"}
         /\ f.job = FALSE /\ f.closing = FALSE /\ f.server = FALSE /\ f.said = "nothing"
         /\ f.writes = 0 /\ f.shut = "no"
<1>1. f \in Conns
  BY NoConnType DEF Conns
<1>2. /\ f.mem = "live" /\ f.socket = "none" /\ f.link = link /\ f.job = FALSE
      /\ f.closing = FALSE /\ f.server = FALSE /\ f.said = "nothing"
      /\ f.writes = 0 /\ f.shut = "no"
  BY Zenon DEF NoConn
<1> QED
  BY <1>1, <1>2, Zenon

LEMMA RefusedFields ==
  ASSUME NEW f \in Conns, f.closing = FALSE, f.link \in {"idle", "up"},
         NEW d, d = ant_conn_close(f)
  PROVE  /\ d \in Conns /\ d.closing = TRUE /\ d.timer = "closing" /\ d.stream = "closing"
         /\ d.reading = FALSE /\ d.close_handles = 2 /\ d.mem = f.mem /\ d.socket = f.socket
         /\ d.link = f.link /\ d.job = f.job /\ d.server = f.server /\ d.said = f.said
<1>1. d = [f EXCEPT !.closing = TRUE, !.timer = "closing", !.stream = "closing",
                    !.reading = FALSE, !.close_handles = 2]
  BY DEF ant_conn_close
<1> DEFINE g == [f EXCEPT !.closing = TRUE, !.timer = "closing", !.stream = "closing"]
<1>2. g \in Conns
  BY DEF Conns, Handles
<1>3. d = [g EXCEPT !.reading = FALSE, !.close_handles = 2]
  BY <1>1
<1>4. d \in Conns
  <2> HIDE DEF g
  <2>1. 2 \in 0..3
    OBVIOUS
  <2> QED
    BY <1>2, <1>3, <2>1, Zenon DEF Conns
<1>5. /\ d.closing = TRUE /\ d.timer = "closing" /\ d.stream = "closing" /\ d.reading = FALSE
      /\ d.close_handles = 2 /\ d.mem = f.mem /\ d.socket = f.socket /\ d.link = f.link
      /\ d.job = f.job /\ d.server = f.server /\ d.said = f.said
  BY <1>1, Zenon DEF Conns
<1> QED
  BY <1>4, <1>5, Zenon

LEMMA NewRefused ==
  ASSUME NEW link \in {"idle", "up"}, NEW d,
         d = ant_conn_close([NoConn EXCEPT !.mem = "live", !.link = link])
  PROVE  Good(d) /\ d.mem = "live" /\ d.server = FALSE
<1> DEFINE f == [NoConn EXCEPT !.mem = "live", !.link = link]
<1>1. /\ f \in Conns /\ f.mem = "live" /\ f.socket = "none" /\ f.link \in {"idle", "up"}
      /\ f.job = FALSE /\ f.closing = FALSE /\ f.server = FALSE /\ f.said = "nothing"
  BY NewConn, Zenon
<1>2. d = ant_conn_close(f)
  OBVIOUS
<1> HIDE DEF f
<1>3. /\ d \in Conns /\ d.closing = TRUE /\ d.timer = "closing" /\ d.stream = "closing"
      /\ d.reading = FALSE /\ d.close_handles = 2 /\ d.mem = f.mem /\ d.socket = f.socket
      /\ d.link = f.link /\ d.job = f.job /\ d.server = f.server /\ d.said = f.said
  BY <1>1, <1>2, RefusedFields, Zenon
<1>4. Count(d) = 2
  BY <1>1, <1>3 DEF Count, One
<1>5. Held(d)
  BY <1>1, <1>3, <1>4 DEF Held
<1>6. Told(d)
  BY <1>1, <1>3 DEF Told
<1>7. Flagged(d)
  BY <1>1, <1>3 DEF Flagged
<1> QED
  BY <1>1, <1>3, <1>5, <1>6, <1>7, Zenon DEF Good

LEMMA ConnectInv ==
  ASSUME Inv, NEW k \in Conn, Connect(k)
  PROVE  Inv'
<1>1. PICK link \in {"connecting", "resolving", "idle"} :
        Becomes(k, [conn[k] EXCEPT !.mem = "live", !.socket = "live", !.link = link,
                                   !.job = (link = "idle"), !.hadError = (link = "idle")])
  BY DEF Connect
<1> DEFINE d == [conn[k] EXCEPT !.mem = "live", !.socket = "live", !.link = link,
                                !.job = (link = "idle"), !.hadError = (link = "idle")]
<1>2. conn[k].mem = "none" /\ conn[k] = NoConn
  BY DEF Connect, Inv, Good, Held
<1>3. Good(d) /\ d.mem = "live" /\ d.server = FALSE
  BY <1>2, NewSocket, Zenon
<1>4. conn' = [conn EXCEPT ![k] = d] /\ s' = s
  BY <1>1 DEF Becomes
<1> HIDE DEF d
<1>5. s' \in Servers /\ Serves(s')
  BY <1>4 DEF Inv
<1> QED
  BY <1>2, <1>3, <1>4, <1>5, BirthInv

\* The server with an accepted connection on its lists.
LEMMA ListedServes ==
  ASSUME s \in Servers, Serves(s), s.listener = "open", NEW k \in Conn, NEW t,
         t = [s EXCEPT !.connections = @ \cup {k}]
  PROVE  /\ t \in Servers /\ Serves(t) /\ t.connections = s.connections \cup {k}
         /\ t.sockets = s.sockets /\ t.listening /\ ~t.closing /\ t.listener = "open"
<1>1. t \in Servers
  BY DEF Servers
<1>2. /\ t.closing = s.closing /\ t.listening = s.listening /\ t.listener = s.listener
      /\ t.closes = s.closes /\ t.listens = s.listens /\ t.sockets = s.sockets
      /\ t.connections = s.connections \cup {k}
  BY Zenon DEF Servers
<1>3. s.listening /\ ~s.closing
  BY DEF Serves
<1> QED
  BY <1>1, <1>2, <1>3, Zenon DEF Serves

LEMMA SocketServes ==
  ASSUME NEW t \in Servers, Serves(t), t.listening, ~t.closing, NEW k \in Conn, NEW u,
         u = [t EXCEPT !.sockets = @ \cup {k}]
  PROVE  /\ u \in Servers /\ Serves(u) /\ u.connections = t.connections
         /\ u.sockets = t.sockets \cup {k}
<1>1. u \in Servers
  BY DEF Servers
<1>2. /\ u.closing = t.closing /\ u.listening = t.listening /\ u.listener = t.listener
      /\ u.closes = t.closes /\ u.listens = t.listens /\ u.connections = t.connections
      /\ u.sockets = t.sockets \cup {k}
  BY Zenon DEF Servers
<1> QED
  BY <1>1, <1>2, Zenon DEF Serves

LEMMA AcceptInv ==
  ASSUME Inv, NEW k \in Conn, Accept(k)
  PROVE  Inv'
<1> DEFINE born == [conn[k] EXCEPT !.mem = "live", !.link = "up"]
           made == [born EXCEPT !.socket = "live", !.server = TRUE]
           listed == [s EXCEPT !.connections = @ \cup {k}]
<1>1. conn[k].mem = "none" /\ conn[k] = NoConn /\ s.listener = "open"
  BY DEF Accept, Inv, Good, Held
<1>2. /\ listed \in Servers /\ Serves(listed) /\ listed.connections = s.connections \cup {k}
      /\ listed.sockets = s.sockets /\ listed.listening /\ ~listed.closing
  BY <1>1, ListedServes, Zenon DEF Inv
<1>3. CASE Becomes(k, ant_conn_close([born EXCEPT !.link = "idle"]))
  <2> DEFINE d == ant_conn_close([born EXCEPT !.link = "idle"])
  <2>1. [born EXCEPT !.link = "idle"] = [NoConn EXCEPT !.mem = "live", !.link = "idle"]
    BY <1>1 DEF NoConn
  <2>2. Good(d) /\ d.mem = "live" /\ d.server = FALSE
    BY <2>1, NewRefused
  <2>3. conn' = [conn EXCEPT ![k] = d] /\ s' = s
    BY <1>3 DEF Becomes
  <2> HIDE DEF d
  <2> QED
    BY <1>1, <2>2, <2>3, BirthInv DEF Inv
<1>4. CASE conn' = [conn EXCEPT ![k] = ant_conn_close(born)] /\ s' = listed
  <2> DEFINE d == ant_conn_close(born)
  <2>1. Good(d) /\ d.mem = "live" /\ d.server = FALSE
    BY <1>1, NewRefused
  <2> HIDE DEF d, listed
  <2> QED
    BY <1>1, <1>2, <1>4, <2>1, BirthInv DEF d
<1>5. ASSUME NEW d \in Handler(made), conn' = [conn EXCEPT ![k] = ant_conn_start(d)],
             s' = [listed EXCEPT !.sockets = @ \cup {k}]
      PROVE  Inv'
  <2>1. Good(made) /\ made.mem = "live" /\ made.socket = "live" /\ made.server = TRUE
    BY <1>1, NewAccepted
  <2> HIDE DEF made, listed
  <2>2. Good(d) /\ Same(made, d)
    BY <1>5, <2>1, HandlerGood
  <2> DEFINE e == ant_conn_start(d)
  <2>3. Good(e) /\ Same(d, e)
    BY <2>1, <2>2, StartGood DEF Same
  <2>4. e.mem = "live" /\ e.socket = "live" /\ e.server = TRUE
    BY <2>1, <2>2, <2>3, Zenon DEF Same
  <2>5. /\ s' \in Servers /\ Serves(s') /\ s'.connections = s.connections \cup {k}
        /\ s'.sockets = s.sockets \cup {k}
    BY <1>2, <1>5, SocketServes
  <2> HIDE DEF e
  <2> QED
    BY <1>1, <1>5, <2>3, <2>4, <2>5, BirthInv DEF e
<1> QED
  BY <1>3, <1>4, <1>5, Zenon DEF Accept
-----------------------------------------------------------------------------
\* The server's own steps.
LEMMA ServerInv ==
  ASSUME Inv, UNCHANGED conn, s' \in Servers, Serves(s'), s'.connections \subseteq s.connections,
         s'.sockets = s.sockets
  PROVE  Inv'
BY DEF Inv, Lists

LEMMA ListenInv ==
  ASSUME Inv, Listen
  PROVE  Inv'
<1>1. s \in Servers /\ Serves(s) /\ ~s.listening /\ UNCHANGED conn
  BY DEF Inv, Listen
<1>2. ~s.closing /\ s.closes = s.listens /\ s.sockets = {}
  BY <1>1, Zenon DEF Serves
<1>3. ASSUME s' = [s EXCEPT !.listener = "open", !.connections = {}, !.listening = TRUE,
                            !.closing = FALSE, !.listens = @ + 1]
      PROVE  Inv'
  <2> DEFINE n == s.listens + 1
  <2>1. s' = [s EXCEPT !.listener = "open", !.connections = {}, !.listening = TRUE,
                       !.closing = FALSE, !.listens = n]
    BY <1>3
  <2>2. n \in Nat /\ s.closes + 1 = n
    BY <1>1, <1>2 DEF Servers
  <2> HIDE DEF n
  <2>3. s' \in Servers
    BY <1>1, <2>1, <2>2, Zenon DEF Servers
  <2>4. /\ s'.listener = "open" /\ s'.connections = {} /\ s'.listening = TRUE /\ s'.closing = FALSE
        /\ s'.listens = n /\ s'.closes = s.closes /\ s'.sockets = s.sockets
    BY <1>1, <2>1, Zenon DEF Servers
  <2>5. Serves(s')
    BY <2>2, <2>4 DEF Serves
  <2> QED
    BY <1>1, <2>3, <2>4, <2>5, ServerInv
<1>4. ASSUME s' = [s EXCEPT !.listener = "none", !.connections = {}]
      PROVE  Inv'
  <2>1. s' \in Servers
    BY <1>1, <1>4 DEF Servers
  <2>2. /\ s'.listener = "none" /\ s'.connections = {} /\ s'.listening = s.listening
        /\ s'.closing = s.closing /\ s'.listens = s.listens /\ s'.closes = s.closes
        /\ s'.sockets = s.sockets
    BY <1>1, <1>4, Zenon DEF Servers
  <2>3. Serves(s')
    BY <1>1, <1>2, <2>2, Zenon DEF Serves
  <2> QED
    BY <1>1, <2>1, <2>2, <2>3, ServerInv
<1> QED
  BY <1>3, <1>4, Zenon DEF Listen

LEMMA ServerCloseInv ==
  ASSUME Inv, ServerClose
  PROVE  Inv'
<1> DEFINE l == IF s.listener = "open" THEN "closing" ELSE s.listener
           t == [s EXCEPT !.closing = TRUE, !.listener = l]
<1>1. s \in Servers /\ Serves(s) /\ UNCHANGED conn /\ s' = net_server_maybe_finish_close(t)
  BY DEF Inv, ServerClose
<1>2. s.listening /\ l \in {"closing", "closed"}
  BY <1>1 DEF ServerClose, Serves
<1> HIDE DEF l
<1>3. t \in Servers
  BY <1>1, <1>2 DEF Servers
<1>4. /\ t.closing = TRUE /\ t.listener = l /\ t.listening = s.listening /\ t.closes = s.closes
      /\ t.listens = s.listens /\ t.sockets = s.sockets /\ t.connections = s.connections
  BY <1>1, Zenon DEF Servers
<1> HIDE DEF t
<1>5. /\ s' \in Servers /\ Serves(s') /\ s'.sockets = t.sockets
      /\ s'.connections = t.connections
  <2>1. t.listening /\ t.closes + 1 = t.listens /\ t.listener \in {"closing", "closed"}
    BY <1>1, <1>2, <1>4, Zenon DEF Serves
  <2> QED
    BY <1>1, <1>3, <1>4, <2>1, FinishServes, Zenon
<1> QED
  BY <1>1, <1>4, <1>5, ServerInv

LEMMA ListenerClosedInv ==
  ASSUME Inv, ListenerClosed
  PROVE  Inv'
<1> DEFINE t == [s EXCEPT !.listener = "closed"]
<1>1. /\ s \in Servers /\ Serves(s) /\ UNCHANGED conn /\ s' = net_server_maybe_finish_close(t)
      /\ s.listener = "closing"
  BY DEF Inv, ListenerClosed
<1>2. s.listening /\ s.closing
  BY <1>1 DEF Serves
<1>3. t \in Servers
  BY <1>1 DEF Servers
<1>4. /\ t.closing = s.closing /\ t.listener = "closed" /\ t.listening = s.listening
      /\ t.closes = s.closes /\ t.listens = s.listens /\ t.sockets = s.sockets
      /\ t.connections = s.connections
  BY <1>1, Zenon DEF Servers
<1> HIDE DEF t
<1>5. /\ s' \in Servers /\ Serves(s') /\ s'.sockets = t.sockets
      /\ s'.connections = t.connections
  <2>1. t.listening /\ t.closing /\ t.closes + 1 = t.listens
    BY <1>1, <1>2, <1>4, Zenon DEF Serves
  <2> QED
    BY <1>1, <1>3, <1>4, <2>1, FinishServes, Zenon
<1> QED
  BY <1>1, <1>4, <1>5, ServerInv
-----------------------------------------------------------------------------
\* The program's calls and the loop's callbacks.
LEMMA FailsInv ==
  ASSUME Inv, NEW k \in Conn, NEW c \in Conns, Held(c), Told(c), c.socket = "live",
         Same(conn[k], c), Fails(k, c)
  PROVE  Inv'
<1>1. PICK d \in Fail(c) : Becomes(k, d)
  BY DEF Fails
<1>2. Good(d) /\ Same(c, d)
  BY <1>1, FailGood
<1>3. Same(conn[k], d)
  BY <1>2, Zenon DEF Same
<1> QED
  BY <1>1, <1>2, <1>3, BecomesInv

LEMMA CallInv ==
  ASSUME Inv, NEW k \in Conn,
         \/ End(k) \/ Write(k) \/ Pause(k) \/ Resume(k) \/ \E b \in BOOLEAN : Destroy(k, b)
  PROVE  Inv'
<1> DEFINE c == conn[k]
<1>1. Good(c) /\ c.socket = "live" /\ c.mem = "live"
  <2>1. Good(c) /\ c.socket = "live"
    BY Zenon DEF Inv, End, Write, Pause, Resume, Destroy, Live
  <2> QED
    BY <2>1, LiveFacts
<1> HIDE DEF c
<1>2. CASE End(k)
  BY <1>1, <1>2, ShutdownGood, BecomesInv DEF End, c
<1>3. CASE Write(k)
  BY <1>1, <1>3, WriteGood, BecomesInv DEF Write, c
<1>4. CASE Pause(k)
  <2> DEFINE d == [c EXCEPT !.read_paused = TRUE, !.reading = ~TRUE]
  <2>1. Becomes(k, d) /\ ~c.closing
    BY <1>4 DEF Pause, c
  <2>2. Good(d) /\ Same(c, d)
    BY <1>1, <2>1, PauseGood, Zenon
  <2> QED
    BY <2>1, <2>2, BecomesInv DEF c
<1>5. CASE Resume(k)
  <2> DEFINE d == [c EXCEPT !.read_paused = FALSE, !.reading = ~FALSE]
  <2>1. Becomes(k, d) /\ ~c.closing
    BY <1>5 DEF Resume, c
  <2>2. Good(d) /\ Same(c, d)
    BY <1>1, <2>1, PauseGood, Zenon
  <2> QED
    BY <2>1, <2>2, BecomesInv DEF c
<1>6. ASSUME NEW b \in BOOLEAN, Destroy(k, b)
      PROVE  Inv'
  <2>1. CASE b
    BY <1>1, <1>6, <2>1, FailsInv, Zenon DEF Destroy, Good, Same, c
  <2>2. CASE ~b
    BY <1>1, <1>6, <2>2, CloseGood, BecomesInv DEF Destroy, c
  <2> QED
    BY <2>1, <2>2
<1> QED
  BY <1>2, <1>3, <1>4, <1>5, <1>6

LEMMA JobInv ==
  ASSUME Inv, NEW k \in Conn, ConnectErrorJob(k)
  PROVE  Inv'
<1> DEFINE c == conn[k]
           d == [c EXCEPT !.job = FALSE]
<1>1. Good(c) /\ c.job /\ Fails(k, d)
  BY DEF Inv, ConnectErrorJob
<1>2. d \in Conns /\ Held(d) /\ Told(d) /\ Same(c, d) /\ c.socket = "live"
  BY <1>1, JobDone
<1> HIDE DEF d
<1> QED
  BY <1>1, <1>2, FailsInv DEF Same

LEMMA ResolvedInv ==
  ASSUME Inv, NEW k \in Conn, Resolved(k)
  PROVE  Inv'
<1> DEFINE c == conn[k]
           d == [c EXCEPT !.link = "down"]
           e == [c EXCEPT !.link = "connecting"]
<1>1. Good(c) /\ ~c.job /\ c.mem = "live" /\ c.link = "resolving"
  BY DEF Inv, Resolved, Turn
<1>2. CASE c.closing
  <2>1. CountDown(k, d)
    BY <1>2 DEF Resolved
  <2>2. Counted(d) /\ Same(c, d)
    BY <1>1, <1>2, ResolverCounted
  <2> HIDE DEF d
  <2> QED
    BY <2>1, <2>2, CountDownInv
<1>3. CASE ~c.closing
  <2>1. c.socket = "live"
    BY <1>1, <1>3 DEF Good, Held
  <2>2. Becomes(k, e) \/ Fails(k, d)
    BY <1>3 DEF Resolved
  <2>3. Good(d) /\ Same(c, d) /\ Good(e) /\ Same(c, e)
    BY <1>1, <1>3, <2>1, LinkGood
  <2> HIDE DEF d, e
  <2>4. CASE Becomes(k, e)
    BY <2>3, <2>4, BecomesInv
  <2>5. CASE Fails(k, d)
    BY <2>1, <2>3, <2>5, FailsInv, Zenon DEF Good, Same
  <2> QED
    BY <2>2, <2>4, <2>5
<1> QED
  BY <1>2, <1>3

LEMMA ConnectedInv ==
  ASSUME Inv, NEW k \in Conn, Connected(k)
  PROVE  Inv'
<1> DEFINE c == conn[k]
           d == [c EXCEPT !.link = "down"]
           u == [c EXCEPT !.link = "up"]
<1>1. /\ Good(c) /\ c.link = "connecting" /\ c.stream = "open"
      /\ Becomes(k, emit(ant_conn_start(u), "connect")) \/ Fails(k, d)
  BY DEF Inv, Connected
<1>2. c # NoConn
  BY <1>1 DEF NoConn
<1>3. c.socket = "live" /\ ~c.closing
  BY <1>1, <1>2, OpenFacts
<1>4. Good(d) /\ Same(c, d) /\ Good(u) /\ Same(c, u)
  BY <1>1, <1>3, LinkGood
<1> HIDE DEF c, d, u
<1>5. CASE Becomes(k, emit(ant_conn_start(u), "connect"))
  <2> DEFINE v == ant_conn_start(u)
  <2>1. Good(v) /\ Same(u, v)
    BY <1>3, <1>4, StartGood DEF Same
  <2>2. v.socket = "live"
    BY <1>3, <1>4, <2>1, Zenon DEF Same
  <2>3. emit(v, "connect") = v
    BY <2>1, <2>2, EmitGood
  <2>4. Same(c, v)
    BY <1>4, <2>1, Zenon DEF Same
  <2> HIDE DEF v
  <2> QED
    BY <1>5, <2>1, <2>3, <2>4, BecomesInv DEF c, v
<1>6. CASE Fails(k, d)
  BY <1>3, <1>4, <1>6, FailsInv, Zenon DEF Good, Same, c
<1> QED
  BY <1>1, <1>5, <1>6

LEMMA ReadInv ==
  ASSUME Inv, NEW k \in Conn, ReadData(k) \/ ReadEnd(k) \/ ReadError(k)
  PROVE  Inv'
<1> DEFINE c == conn[k]
<1>1. Good(c) /\ c.reading
  BY Zenon DEF Inv, ReadData, ReadEnd, ReadError, Reading
<1>2. c.socket = "live" /\ ~c.closing
  BY <1>1, Zenon DEF Good, Told, Held
<1> HIDE DEF c
<1>3. CASE ReadData(k)
  <2>1. emit(c, "data") = c
    BY <1>1, <1>2, EmitGood
  <2>2. Becomes(k, c)
    BY <1>3, <2>1 DEF ReadData, c
  <2> QED
    BY <1>1, <2>2, BecomesInv DEF Same, c
<1>4. CASE ReadEnd(k)
  <2> DEFINE e == [c EXCEPT !.read_eof = TRUE, !.reading = FALSE]
  <2>1. PICK d \in Handler(emit(e, "end")) :
          Becomes(k, IF s.allow_half_open THEN d ELSE ant_conn_shutdown(d))
    BY <1>4 DEF ReadEnd, c
  <2>2. Good(e) /\ Same(c, e)
    BY <1>1, <1>2, EofGood, Zenon
  <2> HIDE DEF e
  <2>3. e.socket = "live" /\ e.mem = "live"
    BY <1>2, <2>2, LiveFacts DEF Same
  <2>4. emit(e, "end") = e
    BY <2>2, <2>3, EmitGood
  <2>5. Good(d) /\ Same(e, d)
    BY <2>1, <2>2, <2>3, <2>4, HandlerGood
  <2>6. d.mem = "live"
    BY <2>3, <2>5, Zenon DEF Same
  <2>7. Good(ant_conn_shutdown(d)) /\ Same(d, ant_conn_shutdown(d))
    BY <2>5, <2>6, ShutdownGood
  <2>8. Same(c, d) /\ Same(c, ant_conn_shutdown(d))
    BY <2>2, <2>5, <2>7, Zenon DEF Same
  <2>9. Becomes(k, d) \/ Becomes(k, ant_conn_shutdown(d))
    BY <2>1
  <2> QED
    BY <2>5, <2>7, <2>8, <2>9, BecomesInv DEF c
<1>5. CASE ReadError(k)
  BY <1>1, <1>2, <1>5, FailsInv, Zenon DEF ReadError, Good, Same, c
<1> QED
  BY <1>3, <1>4, <1>5

LEMMA RequestInv ==
  ASSUME Inv, NEW k \in Conn, Timeout(k) \/ WriteDone(k) \/ ShutdownDone(k)
  PROVE  Inv'
<1> DEFINE c == conn[k]
<1>1. Good(c)
  BY DEF Inv
<1>2. CASE Timeout(k)
  <2>1. emit(c, "timeout") = c
    BY <1>1, <1>2, EmitGood DEF Timeout, Live
  <2>2. Becomes(k, c)
    BY <1>2, <2>1 DEF Timeout
  <2> HIDE DEF c
  <2> QED
    BY <1>1, <2>2, BecomesInv DEF Same, c
<1>3. CASE WriteDone(k)
  <2> DEFINE d == [c EXCEPT !.writes = 0]
  <2>1. c.writes = 1 /\ c.stream = "open" /\ Becomes(k, d)
    BY <1>3 DEF WriteDone
  <2>2. c # NoConn
    BY <2>1 DEF NoConn
  <2>3. c.socket = "live" /\ ~c.closing
    BY <1>1, <2>1, <2>2, OpenFacts
  <2>4. Good(d) /\ Same(c, d)
    BY <1>1, <2>3, DoneGood
  <2> HIDE DEF d
  <2> QED
    BY <2>1, <2>4, BecomesInv
<1>4. CASE ShutdownDone(k)
  <2> DEFINE d == [c EXCEPT !.shut = "done"]
  <2>1. c.shut = "pending" /\ c.stream = "open" /\ Becomes(k, ant_conn_close(d))
    BY <1>4 DEF ShutdownDone
  <2>2. c # NoConn
    BY <2>1 DEF NoConn
  <2>3. c.socket = "live" /\ ~c.closing /\ c.mem = "live"
    BY <1>1, <2>1, <2>2, OpenFacts
  <2>4. Good(d) /\ Same(c, d)
    BY <1>1, <2>3, DoneGood
  <2> HIDE DEF c, d
  <2>5. Good(ant_conn_close(d)) /\ Same(d, ant_conn_close(d))
    BY <2>3, <2>4, CloseGood DEF Same
  <2>6. Same(c, ant_conn_close(d))
    BY <2>4, <2>5, Zenon DEF Same
  <2> QED
    BY <2>1, <2>5, <2>6, BecomesInv DEF c
<1> QED
  BY <1>2, <1>3, <1>4

LEMMA ClosedInv ==
  ASSUME Inv, NEW k \in Conn, TimerClosed(k) \/ StreamClosed(k)
  PROVE  Inv'
<1> DEFINE c == conn[k]
<1>1. Good(c) /\ ~c.job
  BY Zenon DEF Inv, TimerClosed, StreamClosed, Turn
<1>2. CASE TimerClosed(k)
  <2> DEFINE d == [c EXCEPT !.timer = "closed"]
  <2>1. c.timer = "closing" /\ CountDown(k, d)
    BY <1>2 DEF TimerClosed
  <2>2. Counted(d) /\ Same(c, d)
    BY <1>1, <2>1, TimerCounted
  <2> HIDE DEF d
  <2> QED
    BY <2>1, <2>2, CountDownInv
<1>3. CASE StreamClosed(k)
  <2> DEFINE d == IF c.link = "connecting" THEN emit(Cancelled(c), "error") ELSE Cancelled(c)
  <2>1. c.stream = "closing" /\ CountDown(k, d)
    BY <1>3, Zenon DEF StreamClosed, Cancelled
  <2>2. Counted(d) /\ Same(c, d)
    BY <1>1, <2>1, StreamCounted
  <2> HIDE DEF d
  <2> QED
    BY <2>1, <2>2, CountDownInv
<1> QED
  BY <1>2, <1>3

\* Every connection of every reachable state is whole, and the server's lists name
\* the right ones.
LEMMA InitInv ==
  ASSUME Init
  PROVE  Inv
<1>1. conn \in [Conn -> Conns] /\ \A k \in Conn : conn[k] = NoConn
  BY NoConnType DEF Init
<1>2. Held(NoConn)
  BY DEF Held, NoConn
<1>3. Told(NoConn) /\ Flagged(NoConn)
  BY DEF Told, Flagged, NoConn
<1>4. s \in Servers
  BY DEF Init, Servers
<1>5. Serves(s) /\ s.connections = {} /\ s.sockets = {}
  BY DEF Init, Serves
<1>6. Lists
  BY <1>1, <1>5 DEF Lists, NoConn
<1> QED
  BY <1>1, <1>2, <1>3, <1>4, <1>5, <1>6, NoConnType DEF Inv, Good

LEMMA InvStep ==
  ASSUME Inv, [Next]_vars
  PROVE  Inv'
<1>1. CASE UNCHANGED vars
  BY <1>1 DEF vars, Inv, Lists
<1>2. CASE Next
  BY <1>2, ListenInv, ServerCloseInv, ListenerClosedInv, ConnectInv, CallInv, JobInv, AcceptInv,
     ResolvedInv, ConnectedInv, ReadInv, RequestInv, ClosedInv, Zenon DEF Next
<1> QED
  BY <1>1, <1>2

\* The callbacks due, as a number.
LEMMA DueCount ==
  ASSUME NEW c
  PROVE  LET due == (IF c.timer = "closing" THEN {"timer"} ELSE {})
                    \cup (IF c.stream = "closing" THEN {"stream"} ELSE {})
                    \cup (IF c.link = "resolving" THEN {"resolver"} ELSE {}) IN
         Cardinality(due) = Count(c) /\ (due # {} <=> Count(c) > 0)
<1> DEFINE A == IF c.timer = "closing" THEN {"timer"} ELSE {}
           B == IF c.stream = "closing" THEN {"stream"} ELSE {}
           C == IF c.link = "resolving" THEN {"resolver"} ELSE {}
<1>1. IsFiniteSet(A) /\ Cardinality(A) = One(c.timer = "closing")
  <2>1. CASE c.timer = "closing"
    BY <2>1, FS_Singleton, Zenon DEF One
  <2>2. CASE c.timer # "closing"
    BY <2>2, FS_EmptySet, Zenon DEF One
  <2> QED
    BY <2>1, <2>2
<1>2. IsFiniteSet(A \cup B) /\ Cardinality(A \cup B) = One(c.timer = "closing") + One(c.stream = "closing")
  <2>1. CASE c.stream = "closing"
    <3>1. A \cup B = A \cup {"stream"} /\ "stream" \notin A
      BY <2>1
    <3> HIDE DEF A, B
    <3>2. IsFiniteSet(A \cup B) /\ Cardinality(A \cup B) = Cardinality(A) + 1
      BY <1>1, <3>1, FS_AddElement, Zenon
    <3> QED
      BY <1>1, <2>1, <3>2 DEF One
  <2>2. CASE c.stream # "closing"
    <3>1. A \cup B = A
      BY <2>2
    <3> HIDE DEF A, B
    <3> QED
      BY <1>1, <2>2, <3>1 DEF One
  <2> QED
    BY <2>1, <2>2
<1>3. Cardinality((A \cup B) \cup C) = Count(c)
  <2> DEFINE D == A \cup B
  <2>1. CASE c.link = "resolving"
    <3>1. D \cup C = D \cup {"resolver"} /\ "resolver" \notin D
      BY <2>1
    <3> HIDE DEF A, B, C, D
    <3>2. Cardinality(D \cup C) = Cardinality(D) + 1
      BY <1>2, <3>1, FS_AddElement, Zenon DEF D
    <3> QED
      BY <1>2, <2>1, <3>2 DEF Count, One, D
  <2>2. CASE c.link # "resolving"
    <3>1. D \cup C = D
      BY <2>2
    <3> HIDE DEF A, B, C, D
    <3> QED
      BY <1>2, <2>2, <3>1 DEF Count, One, D
  <2> QED
    BY <2>1, <2>2
<1>4. (A \cup B) \cup C # {} <=> Count(c) > 0
  BY DEF Count, One
<1> QED
  BY <1>3, <1>4

LEMMA InvQuiet ==
  ASSUME Inv
  PROVE  FreedWhenQuiet
<1> SUFFICES ASSUME NEW k \in Conn
             PROVE  LET c == conn[k]
                        due == (IF c.timer = "closing" THEN {"timer"} ELSE {})
                               \cup (IF c.stream = "closing" THEN {"stream"} ELSE {})
                               \cup (IF c.link = "resolving" THEN {"resolver"} ELSE {}) IN
                    /\ c.mem = "live" /\ c.closing => c.close_handles = Cardinality(due) /\ due # {}
                    /\ c.mem = "freed" => /\ due = {} /\ c.timer = "closed" /\ c.stream = "closed"
                                          /\ c.writes = 0 /\ c.shut # "pending" /\ ~c.job
                                          /\ k \notin s.connections /\ c.socket # "live"
                    /\ c.socket = "live" => c.mem = "live"
  BY DEF FreedWhenQuiet
<1> DEFINE c == conn[k]
           due == (IF c.timer = "closing" THEN {"timer"} ELSE {})
                  \cup (IF c.stream = "closing" THEN {"stream"} ELSE {})
                  \cup (IF c.link = "resolving" THEN {"resolver"} ELSE {})
<1>1. Good(c) /\ (k \in s.connections => c.mem = "live")
  BY DEF Inv, Lists
<1>2. Cardinality(due) = Count(c) /\ (due # {} <=> Count(c) > 0)
  BY DueCount
<1>3. c.timer = "closed" /\ c.stream = "closed" /\ c.link # "resolving" => due = {}
  OBVIOUS
<1> HIDE DEF c, due
<1>4. c.mem = "live" /\ c.closing => c.close_handles = Cardinality(due) /\ due # {}
  BY <1>1, <1>2, Zenon DEF Good, Held
<1>5. c.mem = "freed" => /\ due = {} /\ c.timer = "closed" /\ c.stream = "closed"
                         /\ c.writes = 0 /\ c.shut # "pending" /\ ~c.job
  BY <1>1, <1>3, Zenon DEF Good, Held
<1>6. c.socket = "live" => c.mem = "live"
  BY <1>1, Zenon DEF Good, Told
<1>7. c.mem = "freed" => k \notin s.connections /\ c.socket # "live"
  BY <1>1, <1>6
<1> QED
  BY <1>4, <1>5, <1>6, <1>7, Zenon DEF c, due

LEMMA InvServer ==
  ASSUME Inv
  PROVE  ServerClosesLast
<1>1. s \in Servers /\ Serves(s) /\ Lists
  BY DEF Inv
<1>2. s.closes \in Nat /\ s.listens \in Nat /\ s.listening \in BOOLEAN
  BY <1>1 DEF Servers
<1>3. s.closes = s.listens - (IF s.listening THEN 1 ELSE 0)
  BY <1>1, <1>2 DEF Serves
<1>4. \A k \in Conn : conn[k].socket \in {"none", "live", "freed"} /\ (conn[k].socket = "none" => ~conn[k].server)
  BY Zenon DEF Inv, Good, Conns, Told
<1>5. ~s.listening => \A k \in Conn : conn[k].server => conn[k].socket = "freed"
  BY <1>1, <1>4 DEF Serves, Lists
<1> QED
  BY <1>1, <1>3, <1>5 DEF ServerClosesLast, Serves

LEMMA InvTold ==
  ASSUME Inv
  PROVE  CloseTellsError
BY DEF Inv, Good, Conns, CloseTellsError

\* For any connections and any bounds: a connection's memory outlives what refers to it,
\* a server emits 'close' last, and a socket tells its errors (connection.c, net.c).
THEOREM ConnectionsCloseInOrder == Spec => [](FreedWhenQuiet /\ ServerClosesLast /\ CloseTellsError)
<1>1. Init => Inv
  BY InitInv
<1>2. Inv /\ [Next]_vars => Inv'
  BY InvStep
<1>3. Inv => FreedWhenQuiet /\ ServerClosesLast /\ CloseTellsError
  BY InvQuiet, InvServer, InvTold
<1> QED
  BY <1>1, <1>2, <1>3, PTL DEF Spec
=============================================================================
