--------------------------- MODULE NetHandlesProofs ---------------------------
(***************************************************************************)
(* What NetworkProofs proves of connections and servers, for the behaviours *)
(* of MCLoopHandles: a step of a part is a step of its component, and the   *)
(* part never changes.                                                      *)
(***************************************************************************)
EXTENDS MCLoopHandles, TLAPS

NP == INSTANCE NetworkProofs WITH MaxConnects <- 0
KP == INSTANCE NetworkProofs WITH Conn <- ClientConn, MaxConnects <- 1, MaxListens <- 0

NetInv ==
  /\ part = "net server" => NP!Inv
  /\ part = "net client" => KP!Inv

LEMMA PartIsFixed == [Next]_vars => part' = part
BY DEF Next, vars, RestOfFunction, RestOfClient, RestOfService, RestOfAtomics, RestOfNet

LEMMA PartSteps ==
  ASSUME [Next]_vars
  PROVE  /\ part = "net server" => [N!Next]_(N!vars)
         /\ part = "net client" => [K!Next]_(K!vars)
<1>1. CASE UNCHANGED vars
  BY <1>1 DEF vars, net, N!vars, K!vars
<1>2. CASE Next
  BY <1>2 DEF Next
<1> QED
  BY <1>1, <1>2

LEMMA ServerStep ==
  [N!Next]_(N!vars) <=> [NP!Next]_(NP!vars)
BY DEF N!Next, N!vars, N!NoConn, N!Becomes, N!emit, N!net_server_maybe_finish_close,
   N!SocketClosed, N!net_server_on_conn_close, N!ant_conn_finish_close, N!CountDown,
   N!ant_conn_close, N!ant_conn_start, N!ant_conn_shutdown, N!Handler, N!Fail, N!Fails,
   N!Live, N!Listen, N!ServerClose, N!Connect, N!Destroy, N!End, N!Write, N!Pause,
   N!Resume, N!Turn, N!ConnectErrorJob, N!Accept, N!ListenerClosed, N!Resolved,
   N!Connected, N!Reading, N!ReadData, N!ReadEnd, N!ReadError, N!Timeout, N!WriteDone,
   N!ShutdownDone, N!TimerClosed, N!StreamClosed, N!Cardinality, N!IsFiniteSet, NP!Next,
   NP!vars, NP!NoConn, NP!Becomes, NP!emit, NP!net_server_maybe_finish_close,
   NP!SocketClosed, NP!net_server_on_conn_close, NP!ant_conn_finish_close, NP!CountDown,
   NP!ant_conn_close, NP!ant_conn_start, NP!ant_conn_shutdown, NP!Handler, NP!Fail,
   NP!Fails, NP!Live, NP!Listen, NP!ServerClose, NP!Connect, NP!Destroy, NP!End,
   NP!Write, NP!Pause, NP!Resume, NP!Turn, NP!ConnectErrorJob, NP!Accept,
   NP!ListenerClosed, NP!Resolved, NP!Connected, NP!Reading, NP!ReadData, NP!ReadEnd,
   NP!ReadError, NP!Timeout, NP!WriteDone, NP!ShutdownDone, NP!TimerClosed,
   NP!StreamClosed, NP!Cardinality, NP!IsFiniteSet

LEMMA SocketStep ==
  [K!Next]_(K!vars) <=> [KP!Next]_(KP!vars)
BY DEF K!Next, K!vars, K!NoConn, K!Becomes, K!emit, K!net_server_maybe_finish_close,
   K!SocketClosed, K!net_server_on_conn_close, K!ant_conn_finish_close, K!CountDown,
   K!ant_conn_close, K!ant_conn_start, K!ant_conn_shutdown, K!Handler, K!Fail, K!Fails,
   K!Live, K!Listen, K!ServerClose, K!Connect, K!Destroy, K!End, K!Write, K!Pause,
   K!Resume, K!Turn, K!ConnectErrorJob, K!Accept, K!ListenerClosed, K!Resolved,
   K!Connected, K!Reading, K!ReadData, K!ReadEnd, K!ReadError, K!Timeout, K!WriteDone,
   K!ShutdownDone, K!TimerClosed, K!StreamClosed, K!Cardinality, K!IsFiniteSet, KP!Next,
   KP!vars, KP!NoConn, KP!Becomes, KP!emit, KP!net_server_maybe_finish_close,
   KP!SocketClosed, KP!net_server_on_conn_close, KP!ant_conn_finish_close, KP!CountDown,
   KP!ant_conn_close, KP!ant_conn_start, KP!ant_conn_shutdown, KP!Handler, KP!Fail,
   KP!Fails, KP!Live, KP!Listen, KP!ServerClose, KP!Connect, KP!Destroy, KP!End,
   KP!Write, KP!Pause, KP!Resume, KP!Turn, KP!ConnectErrorJob, KP!Accept,
   KP!ListenerClosed, KP!Resolved, KP!Connected, KP!Reading, KP!ReadData, KP!ReadEnd,
   KP!ReadError, KP!Timeout, KP!WriteDone, KP!ShutdownDone, KP!TimerClosed,
   KP!StreamClosed, KP!Cardinality, KP!IsFiniteSet

LEMMA NetAlways == Spec => []NetInv
<1>1. Init => NetInv
  <2>1. /\ Init /\ part = "net server" => N!Init
        /\ Init /\ part = "net client" => K!Init
    BY DEF Init
  <2>2. (N!Init <=> NP!Init) /\ (K!Init <=> KP!Init)
    BY DEF N!Init, N!NoConn, NP!Init, NP!NoConn, K!Init, K!NoConn, KP!Init, KP!NoConn
  <2> QED
    BY <2>1, <2>2, NP!InitInv, KP!InitInv DEF NetInv
<1>2. NetInv /\ [Next]_vars => NetInv'
  BY PartIsFixed, PartSteps, ServerStep, SocketStep, NP!InvStep, KP!InvStep DEF NetInv
<1> QED
  BY <1>1, <1>2, PTL DEF Spec

\* A connection's memory outlives every callback libuv owes it, every list that holds it
\* and its socket, for any number of connections (ant_conn_close, ant_conn_resolved_cb).
THEOREM ConnectionsAreFreedLast == Spec => []FreedWhenQuiet
<1>1. NetInv => FreedWhenQuiet
  <2>1. (N!FreedWhenQuiet <=> NP!FreedWhenQuiet) /\ (K!FreedWhenQuiet <=> KP!FreedWhenQuiet)
    BY DEF N!FreedWhenQuiet, NP!FreedWhenQuiet, K!FreedWhenQuiet, KP!FreedWhenQuiet,
           N!Cardinality, NP!Cardinality, K!Cardinality, KP!Cardinality,
           N!IsFiniteSet, NP!IsFiniteSet, K!IsFiniteSet, KP!IsFiniteSet
  <2> QED
    BY <2>1, NP!InvQuiet, KP!InvQuiet DEF NetInv, FreedWhenQuiet
<1> QED
  BY <1>1, NetAlways, PTL

\* A server emits 'close' once for each time it listened, when its listener and every
\* socket it accepted are closed (net_server_maybe_finish_close).
THEOREM ServersCloseLast == Spec => []ServerClosesLast
<1>1. NetInv => ServerClosesLast
  <2>1. N!ServerClosesLast <=> NP!ServerClosesLast
    BY DEF N!ServerClosesLast, NP!ServerClosesLast
  <2> QED
    BY <2>1, NP!InvServer DEF NetInv, ServerClosesLast
<1> QED
  BY <1>1, NetAlways, PTL

\* A socket emits 'close' once and last, with a flag that tells whether it emitted
\* 'error' (net_server_on_conn_close).
THEOREM SocketsTellErrors == Spec => []CloseTellsError
<1>1. NetInv => CloseTellsError
  <2>1. (N!CloseTellsError <=> NP!CloseTellsError) /\ (K!CloseTellsError <=> KP!CloseTellsError)
    BY DEF N!CloseTellsError, NP!CloseTellsError, K!CloseTellsError, KP!CloseTellsError
  <2> QED
    BY <2>1, NP!InvTold, KP!InvTold DEF NetInv, CloseTellsError
<1> QED
  BY <1>1, NetAlways, PTL
=============================================================================
