----------------------------- MODULE MCLoopHandles -----------------------------
(***************************************************************************)
(* The components that own libuv handles and answer through their           *)
(* callbacks, for the model checker: ThreadsafeFunction, RpcClient,         *)
(* RpcServer, AtomicsWaiters and Network, the last as a server that accepts *)
(* and as a client that connects.  A behaviour is one of any of them, told  *)
(* by `part'; a variable that is not the part's own keeps the value Unused, *)
(* and variables of the same name are one.                                  *)
(***************************************************************************)
EXTENDS Naturals, Sequences, FiniteSets

CONSTANTS
  Unused,
  Thread, MaxQueue, MaxCalls,           \* ThreadsafeFunction
  MaxOps,                               \* RpcClient
  Incoming,                             \* RpcServer
  Waiter, Address, None, MaxNotify,     \* AtomicsWaiters
  Conn, ClientConn, MaxConnections, MaxListens

\* A server gets finitely many calls and a program makes finitely many waiters.
ASSUME FinitelyMany == IsFiniteSet(Incoming) /\ IsFiniteSet(Waiter)

VARIABLES
  part,
  thread_count, aborted, handle, holders, sending, made,
  kind, hand, status, done, worker, closed, connected, close_after_drain,
  stage, answers, completed, refs, pending, route, route_refs, server,
  waiters, address, settle_state, sent, open, pending_handles, memory, notified,
  calls, promise, queue, closing, signalled, loop, conn, s

function == <<thread_count, aborted, handle, holders, sending, made>>
client  == <<kind, hand, status, done, worker, closed, connected, close_after_drain>>
service == <<stage, answers, completed, refs, pending, route, route_refs, server>>
atomics == <<waiters, address, settle_state, sent, open, pending_handles, memory,
             notified, calls>>
shared  == <<promise, queue, closing, signalled, loop>>
net     == <<conn, s>>
vars    == <<part, function, client, service, atomics, shared, net>>

F == INSTANCE ThreadsafeFunction
C == INSTANCE RpcClient
S == INSTANCE RpcServer
A == INSTANCE AtomicsWaiters
N == INSTANCE Network WITH MaxConnects <- 0
K == INSTANCE Network WITH Conn <- ClientConn, MaxConnects <- 1, MaxListens <- 0

NoFunction ==
  /\ thread_count = Unused /\ aborted = Unused /\ handle = Unused
  /\ holders = Unused /\ sending = Unused /\ made = Unused
NoClient ==
  /\ kind = Unused /\ hand = Unused /\ status = Unused
  /\ done = Unused /\ worker = Unused /\ closed = Unused /\ connected = Unused
  /\ close_after_drain = Unused
NoService ==
  /\ stage = Unused /\ answers = Unused /\ completed = Unused /\ refs = Unused
  /\ pending = Unused /\ route = Unused /\ route_refs = Unused /\ server = Unused
NoAtomics ==
  /\ waiters = Unused /\ address = Unused /\ settle_state = Unused /\ sent = Unused
  /\ open = Unused /\ pending_handles = Unused /\ memory = Unused /\ notified = Unused
  /\ calls = Unused
NoShared ==
  /\ promise = Unused /\ queue = Unused /\ closing = Unused /\ signalled = Unused
  /\ loop = Unused
NoNet == conn = Unused /\ s = Unused

Init ==
  \/ /\ part = "function" /\ F!Init /\ NoClient /\ NoService /\ NoAtomics
     /\ promise = Unused /\ NoNet
  \/ /\ part = "client" /\ C!Init /\ NoFunction /\ NoService /\ NoAtomics
     /\ NoNet
  \/ /\ part = "service" /\ S!Init /\ NoFunction /\ NoClient /\ NoAtomics
     /\ queue = Unused /\ closing = Unused /\ NoNet
  \/ /\ part = "atomics" /\ A!Init /\ NoFunction /\ NoClient /\ NoService
     /\ queue = Unused /\ signalled = Unused /\ loop = Unused /\ NoNet
  \/ /\ part = "net server" /\ N!Init /\ NoFunction /\ NoClient /\ NoService
     /\ NoAtomics /\ NoShared
  \/ /\ part = "net client" /\ K!Init /\ NoFunction /\ NoClient /\ NoService
     /\ NoAtomics /\ NoShared

RestOfFunction == UNCHANGED <<part, client, service, atomics, promise, net>>
RestOfClient  == UNCHANGED <<part, function, service, atomics, net>>
RestOfService == UNCHANGED <<part, function, client, atomics, queue, closing, net>>
RestOfAtomics == UNCHANGED <<part, function, client, service, queue, signalled, loop, net>>
RestOfNet     == UNCHANGED <<part, function, client, service, atomics, shared>>

Next ==
  \/ part = "function" /\ F!Next /\ RestOfFunction
  \/ part = "client" /\ C!Next /\ RestOfClient
  \/ part = "service" /\ S!Next /\ RestOfService
  \/ part = "atomics" /\ A!Next /\ RestOfAtomics
  \/ part = "net server" /\ N!Next /\ RestOfNet
  \/ part = "net client" /\ K!Next /\ RestOfNet

\* The fairness of each specification, for its own behaviours: threads that are
\* not blocked and the loop run on.
Fairness ==
  /\ \A t \in Thread : WF_vars(part = "function" /\ F!Send(t) /\ RestOfFunction)
  /\ WF_vars(part = "function" /\ (F!Wake \/ F!Take \/ F!Called \/ F!Drained)
             /\ RestOfFunction)
  /\ WF_vars(part = "function" /\ F!CloseCb /\ RestOfFunction)
  /\ WF_vars(part = "client" /\ C!Take /\ RestOfClient)
  /\ WF_vars(part = "client" /\ C!Work /\ RestOfClient)
  /\ WF_vars(part = "client" /\ C!Send /\ RestOfClient)
  /\ WF_vars(part = "client" /\ (C!Wake \/ C!Settle \/ C!Drained \/ C!Join) /\ RestOfClient)
  /\ \A c \in Incoming : /\ WF_vars(part = "service" /\ S!Checked(c) /\ RestOfService)
                         /\ WF_vars(part = "service" /\ S!Queue(c) /\ RestOfService)
  /\ WF_vars(part = "service" /\ (S!Wake \/ S!Run \/ S!Drained) /\ RestOfService)
  /\ WF_vars(part = "service" /\ S!Closed /\ RestOfService)
  /\ \A e \in Waiter :
       /\ WF_vars(part = "atomics" /\ A!async_waiter_timeout_cb(e) /\ RestOfAtomics)
       /\ WF_vars(part = "atomics" /\ A!async_waiter_async_cb(e) /\ RestOfAtomics)
       /\ \A h \in {"async", "timer"} :
            WF_vars(part = "atomics" /\ A!async_waiter_close_cb(e, h) /\ RestOfAtomics)
  /\ WF_vars(part = "net server" /\ N!ListenerClosed /\ RestOfNet)
  /\ \A k \in Conn : /\ WF_vars(part = "net server" /\ N!TimerClosed(k) /\ RestOfNet)
                     /\ WF_vars(part = "net server" /\ N!StreamClosed(k) /\ RestOfNet)
  /\ \A k \in ClientConn :
       /\ WF_vars(part = "net client" /\ K!ConnectErrorJob(k) /\ RestOfNet)
       /\ WF_vars(part = "net client" /\ K!Resolved(k) /\ RestOfNet)
       /\ WF_vars(part = "net client" /\ K!TimerClosed(k) /\ RestOfNet)
       /\ WF_vars(part = "net client" /\ K!StreamClosed(k) /\ RestOfNet)

Spec == Init /\ [][Next]_vars /\ Fairness
-----------------------------------------------------------------------------
\* A thread-safe function as the channel a user sees, an unused one otherwise.
Of(value, unused) == IF part = "function" THEN value ELSE unused
Channel == INSTANCE CallChannel WITH
  waiting <- Of(queue, <<>>), made <- Of(made, <<>>), phase <- Of(F!Phase, "open")

\* A thread-safe function is a bounded queue that can be closed: the calls are
\* made once each and in the order in which they were accepted, none is accepted
\* when it is full or closed, it is finalised once, after the last call, and an
\* accepted call and a closed queue are never left waiting (napi_tsfn_async_cb,
\* napi_tsfn_maybe_finish, napi_call_threadsafe_function).
ImplementsCallChannel == Channel!Spec

\* Promises of an RpcClient are settled in the order of the calls and none is
\* dropped, also when rpc_client_close_impl throws its lists away.
NoOperationLost == part = "client" => C!NoOperationLost

\* A call to an RpcServer is answered at most once, and its task is freed exactly
\* when it was answered and no callback refers to it (rpc_complete_task,
\* rpc_task_release).
AnsweredOnceThenFreed == part = "service" => S!AnsweredOnceThenFreed

\* What Atomics.notify returned is the number of waiters settled with "ok": a
\* notify and a timeout never both settle one (async_waiter_timeout_cb).
NotifyCountExact == part = "atomics" => A!NotifyCountExact

\* A waiter's memory is freed when its last handle has closed and not before, and
\* by then it is off the list and its promise settled
\* (async_waiter_release_handle).
FreedAfterHandles == part = "atomics" => A!FreedAfterHandles

\* A connection's memory outlives every callback that libuv still owes it, every
\* list that holds it and its socket (ant_conn_close, ant_conn_resolved_cb).
FreedWhenQuiet ==
  /\ part = "net server" => N!FreedWhenQuiet
  /\ part = "net client" => K!FreedWhenQuiet

\* A server emits 'close' once for each time it listened, when its listener and
\* every socket it accepted are closed (net_server_maybe_finish_close).
ServerClosesLast == part = "net server" => N!ServerClosesLast

\* A socket emits 'close' once and last, with a flag that tells whether it
\* emitted 'error' (net_server_on_conn_close).
CloseTellsError ==
  /\ part = "net server" => N!CloseTellsError
  /\ part = "net client" => K!CloseTellsError

Waiting ==
  CASE part = "function"   -> FALSE
    [] part = "client"     -> C!Waiting
    [] part = "service"    -> S!CallWaiting
    [] part = "atomics"    -> A!Waiting
    [] part = "net server" -> N!Waiting
    [] part = "net client" -> K!Waiting

\* Nobody waits for ever: an operation of an RpcClient, a call queued at an open
\* RpcServer, a waiter that has a timeout or was notified, a connection and a
\* server that close (rpc_client_async_cb, rpc_server_async_cb,
\* async_waiter_async_cb, ant_conn_close_cb).
HandlesAnswer == Waiting ~> ~Waiting
=============================================================================
