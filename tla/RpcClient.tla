------------------------------- MODULE RpcClient -------------------------------
(***************************************************************************)
(* RpcClient (src/modules/rpc.c): JavaScript enqueues connect, call, ping   *)
(* and close operations, each with a promise; a worker thread takes them in *)
(* turn, waits for the network and puts them on a second list; the loop's   *)
(* thread settles their promises and, after a close operation, joins the    *)
(* worker and discards what is left of both lists.                          *)
(*                                                                         *)
(* Both lists are under one mutex, so a locked section is one step.  The    *)
(* wirecall library and libuv are external: a network operation ends with   *)
(* either outcome, sends before a callback coalesce.                        *)
(***************************************************************************)
EXTENDS Naturals, Sequences

CONSTANT MaxOps   \* bound on the operations accepted

VARIABLES
  kind,       \* the kind of each accepted operation, in order of acceptance
  promise,    \* and its promise: "pending", "ok" or "err"
  queue,      \* client->head .. tail
  hand,       \* the operation the worker has, 0 for none
  status,     \* how it, and those on the done list, ended
  done,       \* done_head .. done_tail
  worker,     \* "lock" (about to lock the mutex), "wait" (on the condition),
              \* "work", "send" (after queue_done's unlock) or "exit"
  closing,
  closed,
  connected,  \* client->client: the connection exists
  signalled,  \* uv_async
  loop,       \* the loop's thread: "idle", "drain" or "join"
  close_after_drain

vars == <<kind, promise, queue, hand, status, done, worker, closing, closed,
          connected, signalled, loop, close_after_drain>>

Kinds == {"connect", "call", "ping", "close"}

\* rpc_client_ctor.
Init ==
  /\ kind = <<>> /\ promise = <<>> /\ status = <<>>
  /\ queue = <<>> /\ done = <<>> /\ hand = 0
  /\ worker = "lock" /\ loop = "idle"
  /\ closing = FALSE /\ closed = FALSE /\ connected = FALSE
  /\ signalled = FALSE /\ close_after_drain = FALSE

\* pthread_cond_signal.
Signalled == IF worker = "wait" THEN "lock" ELSE worker
-----------------------------------------------------------------------------
\* Mutant: the operation is queued after the worker was told to end.
EnqueueLate(k) ==
  /\ loop = "idle" /\ Len(kind) < MaxOps
  /\ kind' = Append(kind, k)
  /\ promise' = Append(promise, "pending")
  /\ status' = Append(status, "none")
  /\ queue' = Append(queue, Len(kind) + 1)
  /\ closing' = (closing \/ k = "close")
  /\ worker' = Signalled
  /\ UNCHANGED <<hand, done, closed, connected, signalled, loop, close_after_drain>>

\* Mutant: the worker is not woken.
EnqueueSilently(k) ==
  /\ loop = "idle" /\ Len(kind) < MaxOps
  /\ ~closing /\ ~closed
  /\ kind' = Append(kind, k)
  /\ promise' = Append(promise, "pending")
  /\ status' = Append(status, "none")
  /\ queue' = Append(queue, Len(kind) + 1)
  /\ closing' = (k = "close")
  /\ UNCHANGED <<hand, done, worker, closed, connected, signalled, loop,
                 close_after_drain>>

\* rpc_client_connect, _call and _ping through rpc_client_enqueue, and
\* rpc_client_close, which also sets closing.  A client that is closing or
\* closed answers at once and queues nothing.
Enqueue(k) ==
  /\ loop = "idle" /\ Len(kind) < MaxOps
  /\ ~closing /\ ~closed
  /\ kind' = Append(kind, k)
  /\ promise' = Append(promise, "pending")
  /\ status' = Append(status, "none")
  /\ queue' = Append(queue, Len(kind) + 1)
  /\ closing' = (k = "close")
  /\ worker' = Signalled
  /\ UNCHANGED <<hand, done, closed, connected, signalled, loop, close_after_drain>>
-----------------------------------------------------------------------------
\* rpc_client_worker_main: the section under the mutex.
Take ==
  /\ worker = "lock"
  /\ \/ /\ queue # <<>>
        /\ hand' = Head(queue) /\ queue' = Tail(queue)
        /\ worker' = "work"
     \/ /\ queue = <<>>
        /\ worker' = IF closing THEN "exit" ELSE "wait"
        /\ UNCHANGED <<queue, hand>>
  /\ UNCHANGED <<kind, promise, status, done, closing, closed, connected,
                 signalled, loop, close_after_drain>>

\* The operation itself.  A connect that fails in set_integrity has connected.
Ends(k, s, c) ==
  CASE k = "connect" -> \/ connected /\ s = "ok" /\ c = TRUE
                        \/ ~connected /\ (s = "ok" => c = TRUE)
    [] k = "close"   -> s = "ok" /\ c = FALSE
    [] OTHER         -> (s = "ok" => connected) /\ c = connected

\* ... and rpc_client_queue_done's section under the mutex.
Work ==
  /\ worker = "work"
  /\ \E s \in {"ok", "err"}, c \in BOOLEAN :
       /\ Ends(kind[hand], s, c)
       /\ status' = [status EXCEPT ![hand] = s]
       /\ connected' = c
  /\ done' = Append(done, hand) /\ hand' = 0
  /\ worker' = "send"
  /\ UNCHANGED <<kind, promise, queue, closing, closed, signalled, loop,
                 close_after_drain>>

Send ==
  /\ worker = "send"
  /\ signalled' = ~closed /\ worker' = "lock"
  /\ UNCHANGED <<kind, promise, queue, hand, status, done, closing, closed,
                 connected, loop, close_after_drain>>
-----------------------------------------------------------------------------
Wake ==
  /\ loop = "idle" /\ signalled /\ ~closed
  /\ signalled' = FALSE /\ loop' = "drain" /\ close_after_drain' = FALSE
  /\ UNCHANGED <<kind, promise, queue, hand, status, done, worker, closing,
                 closed, connected>>

\* rpc_client_async_cb: one turn of its loop.
Settle ==
  /\ loop = "drain" /\ done # <<>>
  /\ LET op == Head(done) IN
     /\ promise' = [promise EXCEPT ![op] = status[op]]
     /\ close_after_drain' = (close_after_drain \/ kind[op] = "close")
  /\ done' = Tail(done)
  /\ UNCHANGED <<kind, queue, hand, status, worker, closing, closed, connected,
                 signalled, loop>>

\* The list is empty: rpc_client_close_impl signals and joins the worker ...
Drained ==
  /\ loop = "drain" /\ done = <<>>
  /\ loop' = IF close_after_drain THEN "join" ELSE "idle"
  /\ worker' = IF close_after_drain THEN Signalled ELSE worker
  /\ UNCHANGED <<kind, promise, queue, hand, status, done, closing, closed,
                 connected, signalled, close_after_drain>>

\* ... and then frees what is left on the lists.
Join ==
  /\ loop = "join" /\ worker = "exit"
  /\ queue' = <<>> /\ done' = <<>>
  /\ connected' = FALSE /\ closed' = TRUE /\ closing' = FALSE
  /\ loop' = "idle"
  /\ UNCHANGED <<kind, promise, hand, status, worker, signalled, close_after_drain>>

Next ==
  \/ \E k \in Kinds : Enqueue(k)
  \/ Take \/ Work \/ Send
  \/ Wake \/ Settle \/ Drained \/ Join

Spec == Init /\ [][Next]_vars
\* Both threads run and a network operation ends; nobody has to enqueue.
Fairness ==
  /\ WF_vars(Take) /\ WF_vars(Work) /\ WF_vars(Send)
  /\ WF_vars(Wake \/ Settle \/ Drained \/ Join)
FairSpec == Spec /\ Fairness
-----------------------------------------------------------------------------

\* Promises are settled in the order of the calls, and none is dropped: the
\* operations without an answer are those on the two lists and with the worker,
\* also when rpc_client_close_impl throws the lists away.
Unanswered == done \o (IF hand = 0 THEN <<>> ELSE <<hand>>) \o queue
NoOperationLost ==
  LET answered == Len(promise) - Len(Unanswered) IN
  /\ \A j \in DOMAIN Unanswered : Unanswered[j] = answered + j
  /\ \A i \in DOMAIN promise : promise[i] = "pending" <=> i > answered

\* A promise that was handed out is not settled yet.
Waiting == \E i \in DOMAIN promise : promise[i] = "pending"
=============================================================================
