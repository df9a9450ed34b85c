------------------------------- MODULE RpcServer -------------------------------
(***************************************************************************)
(* RpcServer (src/modules/rpc.c): the network threads of the wirecall       *)
(* library hand each incoming call to a task on the pending list; the       *)
(* loop's thread moves it to the list of running tasks, calls the route's   *)
(* handler and answers the call, at once or when the handler's promise is   *)
(* settled; close() fails everything that is waiting, stops the threads and *)
(* closes the handle.  A task and a route are counted references.           *)
(*                                                                         *)
(* wirecall and libuv are external.  Removing a route calls its finaliser   *)
(* when no thread is inside rpc_deferred_handler with it.  close() is called *)
(* outside of handlers.                                                     *)
(***************************************************************************)
EXTENDS Naturals, Sequences, FiniteSets

CONSTANT Incoming   \* incoming calls of one route

VARIABLES
  stage,      \* of a call: "idle", "checked" (rpc_deferred_handler saw an open
              \* server), "cleared" (rpc_server_queue_task too), "queued" (on
              \* the pending list), "send", "linked" (on the task list),
              \* "awaiting" (linked, its handler's promise unsettled) or "off"
  answers,    \* answers given to the call
  completed,  \* task->completed
  refs,       \* task->refs
  promise,    \* handlers' promises still unsettled
  pending,    \* pending_head .. pending_tail
  route,      \* "live", "removed" or "freed"
  route_refs,
  signalled,
  loop,       \* "idle" or "drain" (rpc_server_async_cb)
  server      \* "open", "closing" (close waits for the threads) or "closed"

vars == <<stage, answers, completed, refs, promise, pending, route, route_refs,
          signalled, loop, server>>

Init ==
  /\ stage = [c \in Incoming |-> "idle"]
  /\ answers = [c \in Incoming |-> 0]
  /\ completed = [c \in Incoming |-> FALSE]
  /\ refs = [c \in Incoming |-> 0]
  /\ promise = {} /\ pending = <<>>
  /\ route = "live" /\ route_refs = 1
  /\ signalled = FALSE /\ loop = "idle" /\ server = "open"

\* rpc_route_release, n times.
ReleaseRoute(n) ==
  /\ route_refs' = route_refs - n
  /\ route' = IF route_refs = n /\ n > 0 THEN "freed" ELSE route
KeepRoute == UNCHANGED <<route, route_refs>>

\* rpc_complete_task of the calls of C that are not completed: the answer, the
\* unlinking and one reference, and `more' extra releases of each of C.
Complete(C, more) ==
  LET fresh == {c \in C : ~completed[c]}
      drop == [c \in Incoming |-> (IF c \in C THEN more ELSE 0)
                                  + (IF c \in fresh THEN 1 ELSE 0)]
      gone == {c \in C : refs[c] > 0 /\ refs[c] <= drop[c]} IN
  /\ answers' = [c \in Incoming |-> IF c \in fresh THEN answers[c] + 1 ELSE answers[c]]
  /\ completed' = [c \in Incoming |-> completed[c] \/ c \in C]
  /\ refs' = [c \in Incoming |-> refs[c] - drop[c]]
  /\ stage' = [c \in Incoming |-> IF c \in fresh THEN "off" ELSE stage[c]]
  /\ ReleaseRoute(Cardinality(gone))
-----------------------------------------------------------------------------
\* rpc_deferred_handler, on a network thread: its own test, the reference to the
\* route and the task ...
Deferred(c) ==
  /\ stage[c] = "idle" /\ route = "live" /\ server # "closed"
  /\ IF server = "open"
     THEN /\ stage' = [stage EXCEPT ![c] = "checked"]
          /\ refs' = [refs EXCEPT ![c] = 1]
          /\ route_refs' = route_refs + 1
          /\ UNCHANGED answers
     ELSE /\ stage' = [stage EXCEPT ![c] = "off"]
          /\ answers' = [answers EXCEPT ![c] = @ + 1]
          /\ UNCHANGED <<refs, route_refs>>
  /\ UNCHANGED <<completed, promise, pending, route, signalled, loop, server>>

\* ... rpc_server_queue_task's test, which holds no lock ...
Checked(c) ==
  /\ stage[c] = "checked"
  /\ IF server = "open"
     THEN /\ stage' = [stage EXCEPT ![c] = "cleared"]
          /\ UNCHANGED <<answers, refs>> /\ KeepRoute
     ELSE /\ stage' = [stage EXCEPT ![c] = "off"]
          /\ answers' = [answers EXCEPT ![c] = @ + 1]
          /\ refs' = [refs EXCEPT ![c] = 0]
          /\ ReleaseRoute(1)
  /\ UNCHANGED <<completed, promise, pending, signalled, loop, server>>

\* ... the append under the mutex, and the wake-up.
Queue(c) ==
  /\ stage[c] = "cleared"
  /\ stage' = [stage EXCEPT ![c] = "queued"]
  /\ pending' = Append(pending, c)
  /\ signalled' = (server # "closed")
  /\ UNCHANGED <<answers, completed, refs, promise, route, route_refs, loop, server>>
-----------------------------------------------------------------------------
Wake ==
  /\ loop = "idle" /\ signalled /\ server = "open"
  /\ signalled' = FALSE /\ loop' = "drain"
  /\ UNCHANGED <<stage, answers, completed, refs, promise, pending, route,
                 route_refs, server>>

\* Mutant: the promise's callbacks get no reference of their own.
RunUncounted ==
  /\ loop = "drain" /\ pending # <<>>
  /\ LET c == Head(pending) IN
     \/ Complete({c}, 0) /\ UNCHANGED promise
     \/ /\ route = "live"
        /\ promise' = promise \cup {c}
        /\ stage' = [stage EXCEPT ![c] = "awaiting"]
        /\ UNCHANGED <<refs, answers, completed>> /\ KeepRoute
  /\ pending' = Tail(pending)
  /\ UNCHANGED <<signalled, loop, server>>

\* rpc_server_async_cb: one task, linked and run by rpc_run_task.  The handler
\* returns or throws, or its result is awaited; a removed route fails the call.
Run ==
  /\ loop = "drain" /\ pending # <<>>
  /\ LET c == Head(pending) IN
     \/ Complete({c}, 0) /\ UNCHANGED promise
     \/ /\ route = "live"
        /\ promise' = promise \cup {c}
        /\ stage' = [stage EXCEPT ![c] = "awaiting"]
        /\ refs' = [refs EXCEPT ![c] = @ + 1]
        /\ UNCHANGED <<answers, completed>> /\ KeepRoute
  /\ pending' = Tail(pending)
  /\ UNCHANGED <<signalled, loop, server>>

Drained ==
  /\ loop = "drain" /\ pending = <<>>
  /\ loop' = "idle"
  /\ UNCHANGED <<stage, answers, completed, refs, promise, pending, route,
                 route_refs, signalled, server>>

\* rpc_task_promise_resolve and rpc_task_promise_reject.
Settle(c) ==
  /\ c \in promise /\ loop = "idle" /\ server # "closing"
  /\ Complete({c}, 1)
  /\ promise' = promise \ {c}
  /\ UNCHANGED <<pending, signalled, loop, server>>

\* rpc_server_unregister; rpc_route_finalizer.
Unregister ==
  /\ route = "live" /\ server # "closed" /\ loop = "idle"
  /\ \A c \in Incoming : stage[c] \notin {"checked", "cleared"}
  /\ route_refs' = route_refs - 1
  /\ route' = IF route_refs = 1 THEN "freed" ELSE "removed"
  /\ UNCHANGED <<stage, answers, completed, refs, promise, pending, signalled,
                 loop, server>>

\* rpc_server_close_impl: every linked and pending task fails ...
Waiting == {c \in Incoming : stage[c] \in {"queued", "awaiting"}}
Close ==
  /\ server = "open" /\ loop = "idle"
  /\ server' = "closing"
  /\ Complete(Waiting, 0)
  /\ pending' = <<>>
  /\ UNCHANGED <<promise, signalled, loop>>

\* ... the threads are joined, the library drops the routes and the handle closes.
Closed ==
  /\ server = "closing"
  /\ \A c \in Incoming : stage[c] \notin {"checked", "cleared"}
  /\ server' = "closed"
  /\ IF route = "live"
     THEN /\ route_refs' = route_refs - 1
          /\ route' = IF route_refs = 1 THEN "freed" ELSE "removed"
     ELSE KeepRoute
  /\ UNCHANGED <<stage, answers, completed, refs, promise, pending, signalled, loop>>

Next ==
  \/ \E c \in Incoming : Deferred(c) \/ Checked(c) \/ Queue(c) \/ Settle(c)
  \/ Wake \/ Run \/ Drained
  \/ Unregister \/ Close \/ Closed

Spec == Init /\ [][Next]_vars
\* All threads run; a handler's promise need not be settled, nor the server closed.
Fairness ==
  /\ \A c \in Incoming : WF_vars(Checked(c)) /\ WF_vars(Queue(c))
  /\ WF_vars(Wake \/ Run \/ Drained) /\ WF_vars(Closed)
FairSpec == Spec /\ Fairness
-----------------------------------------------------------------------------

\* A call is answered at most once, and its task is freed exactly when it was
\* answered and no callback of the handler's promise refers to it; the route
\* outlives the tasks that run it.
AnsweredOnceThenFreed ==
  \A c \in Incoming :
    /\ answers[c] <= 1
    /\ c \in promise => refs[c] > 0 /\ route # "freed"
    /\ refs[c] = (IF stage[c] \in {"checked", "cleared", "queued", "awaiting"} THEN 1 ELSE 0)
                 + (IF c \in promise THEN 1 ELSE 0)

\* A call on the pending list of a server that is not being closed.  (One that
\* slips into the list of a closing server is dropped with its connection.)
CallWaiting == server = "open" /\ \E c \in Incoming : stage[c] = "queued"
=============================================================================
