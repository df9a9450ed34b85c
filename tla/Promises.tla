------------------------------- MODULE Promises -------------------------------
(***************************************************************************)
(* Promises and the job queue that runs their reactions: js_resolve_promise,*)
(* js_reject_promise, then, the resolving functions, adoption of promises  *)
(* and of other thenables (src/ant.c), next ticks and microtasks           *)
(* (src/modules/timer.c) and the tracking of unhandled rejections.         *)
(*                                                                         *)
(* The reactions of one promise are a sequence here: HandlerList shows that *)
(* its storage behaves as one.  User code is a sequence of at most MaxOps   *)
(* calls into the runtime, made by the script, by the callbacks of jobs and *)
(* by the unhandledrejection listener.                                     *)
(***************************************************************************)
EXTENDS Naturals, Sequences, FiniteSets

CONSTANTS
  MaxPromises,  \* bound on the number of promises
  MaxPairs,     \* bound on the number of pairs of resolving functions
  MaxOps,       \* bound on the calls user code makes
  Vals,         \* values that are not thenable
  Thenable,     \* an object with a callable "then" that is not a promise
  Broken,       \* an object whose "then" getter throws
  Reason        \* the reason of every rejection

Promise == 1..MaxPromises
None == 0

VARIABLES
  pd,                  \* ant_promise_state_t of each promise; native: made and
                       \* settled by a C module, without resolving functions
  pairs,               \* resolving functions: promise and SLOT_SETTLED
  microtasks,          \* timer_state.microtasks, with the batch taken from it
  next_ticks,
  pending_rejections,  \* js->pending_rejections
  fatal_error,         \* js->fatal_error
  pc,                  \* what is running
  job,                 \* locals of the running job
  draining,            \* js->microtasks_draining and who asked for the drain
  phase,               \* the inner loop of the drain: "ticks" or "microtasks"
  ops,                 \* calls made by user code so far
  follows              \* the promise each promise was resolved with, or None

vars == <<pd, pairs, microtasks, next_ticks, pending_rejections, fatal_error,
          pc, job, draining, phase, ops, follows>>

\* The part of the isolate that settling a promise may change.
Heap == [pd |-> pd, microtasks |-> microtasks, rejections |-> pending_rejections,
         follows |-> follows]

HeapBecomes(h) ==
  /\ pd' = h.pd
  /\ microtasks' = h.microtasks
  /\ pending_rejections' = h.rejections
  /\ follows' = h.follows

Free == {p \in Promise : pd[p].state = "none"}
Exists(p) == p \in Promise \ Free
Fresh == CHOOSE p \in Free : \A q \in Free : p <= q
-----------------------------------------------------------------------------
NewPromise(parent) ==
  [state |-> "pending", value |-> None, handlers |-> <<>>,
   trigger_queued |-> FALSE, has_rejection_handler |-> FALSE,
   unhandled_reported |-> FALSE, trigger_parent |-> parent, native |-> FALSE]

Trigger(p) == [kind |-> "trigger", promise |-> p, thenable |-> None]
ThenableJob(p, x) == [kind |-> "thenable", promise |-> p, thenable |-> x]
\* A queueMicrotask callback, or the resumption of a coroutine (MT_AWAIT_RESUME).
Callback == [kind |-> "callback", promise |-> None, thenable |-> None]

queue_promise_trigger(h, p) ==
  IF h.pd[p].trigger_queued THEN h
  ELSE [h EXCEPT !.pd[p].trigger_queued = TRUE,
                 !.microtasks = Append(@, Trigger(p))]

js_reject_promise(h, p) ==
  IF h.pd[p].state # "pending" THEN h
  ELSE queue_promise_trigger(
         [h EXCEPT !.pd[p].state = "rejected",
                   !.pd[p].value = Reason,
                   !.pd[p].unhandled_reported = FALSE,
                   !.rejections = Append(@, p)], p)

\* x is a value, a promise, Thenable or Broken.
js_resolve_promise(h, p, x) ==
  CASE h.pd[p].state # "pending" -> h
    [] h.pd[p].state = "pending" /\ x \in {p, Broken} -> js_reject_promise(h, p)
    [] h.pd[p].state = "pending" /\ x \in (Promise \ {p}) \cup {Thenable} ->
         [h EXCEPT !.microtasks = Append(@, ThenableJob(p, x)),
                   !.follows[p] = IF x \in Promise THEN x ELSE @]
    [] h.pd[p].state = "pending" /\ x \in Vals ->
         LET g == [h EXCEPT !.pd[p].state = "fulfilled", !.pd[p].value = x]
         IN IF h.pd[p].handlers = <<>> THEN g ELSE queue_promise_trigger(g, p)

\* p and the promises it was derived from by then().
Chain(h, p) ==
  LET chain[q \in 0..MaxPromises] ==
        IF q = None THEN {} ELSE {q} \cup chain[h.pd[q].trigger_parent]
  IN chain[p]

js_mark_promise_rejection_handled_chain(h, p) ==
  [h EXCEPT !.pd = [q \in Promise |->
     IF q \in Chain(h, p)
     THEN [h.pd[q] EXCEPT !.has_rejection_handler = TRUE,
                          !.unhandled_reported = FALSE]
     ELSE h.pd[q]]]

\* A reaction of p: next is the derived promise, or None for an await.
Handler(ful, rej, next) == [onFulfilled |-> ful, onRejected |-> rej, next |-> next]

\* Mutant: a promise that is settled already is not queued.
AddHandlerNoTrigger(h, p, handler, handles) ==
  LET g == [h EXCEPT !.pd[p].handlers = Append(@, handler)]
  IN IF handles THEN js_mark_promise_rejection_handled_chain(g, p) ELSE g

AddHandler(h, p, handler, handles) ==
  LET g == [h EXCEPT !.pd[p].handlers = Append(@, handler)]
      m == IF handles THEN js_mark_promise_rejection_handled_chain(g, p) ELSE g
  IN IF h.pd[p].state = "pending" THEN m ELSE queue_promise_trigger(m, p)
-----------------------------------------------------------------------------
NoJob == [kind |-> "none", promise |-> None, batch |-> <<>>, next |-> None,
          pair |-> None]

Init ==
  /\ pd = [p \in Promise |-> [NewPromise(None) EXCEPT !.state = "none"]]
  /\ pairs = <<>>
  /\ microtasks = <<>> /\ next_ticks = 0
  /\ pending_rejections = <<>>
  /\ fatal_error \in BOOLEAN
  /\ pc = "script"
  /\ job = NoJob
  /\ draining = "no" /\ phase = "ticks"
  /\ ops = 0
  /\ follows = [p \in Promise |-> None]

HasPendingMicrotasks == microtasks # <<>> \/ next_ticks > 0
-----------------------------------------------------------------------------
(* Calls made by user code.                                                *)

UserCode ==
  /\ pc \in {"script", "callback", "report"}
  /\ ops < MaxOps
  /\ ops' = ops + 1

NativeCode ==
  /\ pc = "native"
  /\ ops < MaxOps
  /\ ops' = ops + 1

\* Thenable jobs, queued or run, each make a pair.
PairsNeeded ==
  Len(pairs) +
  Cardinality({k \in DOMAIN microtasks : microtasks[k].thenable = Thenable})

\* What a promise may be resolved with: fresh pairs are kept within the bound.
Resolutions ==
  Vals \cup (Promise \ Free) \cup {Broken}
       \cup {t \in {Thenable} : PairsNeeded < MaxPairs}

\* new Promise(...) and Promise.withResolvers().
builtin_Promise ==
  /\ UserCode
  /\ Free # {} /\ PairsNeeded < MaxPairs
  /\ pd' = [pd EXCEPT ![Fresh] = NewPromise(None)]
  /\ pairs' = Append(pairs, [promise |-> Fresh, settled |-> FALSE])
  /\ UNCHANGED <<microtasks, next_ticks, pending_rejections, fatal_error, pc,
                 job, draining, phase, follows>>

\* A C module makes a promise for an operation of its own ...
js_mkpromise ==
  /\ UserCode
  /\ Free # {}
  /\ pd' = [pd EXCEPT ![Fresh] = [NewPromise(None) EXCEPT !.native = TRUE]]
  /\ UNCHANGED <<pairs, microtasks, next_ticks, pending_rejections, fatal_error,
                 pc, job, draining, phase, follows>>

\* ... and settles it, perhaps from several of its callbacks.
NativeSettle(p) ==
  /\ UserCode \/ NativeCode
  /\ pd[p].native
  /\ \/ HeapBecomes(js_reject_promise(Heap, p))
     \/ \E x \in Vals : HeapBecomes(js_resolve_promise(Heap, p, x))
  /\ UNCHANGED <<pairs, next_ticks, fatal_error, pc, job, draining, phase>>

\* Mutant: the resolving functions do not remember that they were called.
Reusable(k) == TRUE

\* The test of SLOT_SETTLED, shared by the two functions of a pair.
NotSettled(k) == ~pairs[k].settled

builtin_resolve_internal(k, x) ==
  /\ NotSettled(k)
  /\ pairs' = [pairs EXCEPT ![k].settled = TRUE]
  /\ HeapBecomes(js_resolve_promise(Heap, pairs[k].promise, x))

builtin_reject_internal(k) ==
  /\ NotSettled(k)
  /\ pairs' = [pairs EXCEPT ![k].settled = TRUE]
  /\ HeapBecomes(js_reject_promise(Heap, pairs[k].promise))

CallResolve(k, x) ==
  /\ UserCode
  /\ builtin_resolve_internal(k, x)
  /\ UNCHANGED <<next_ticks, fatal_error, pc, job, draining, phase>>

CallReject(k) ==
  /\ UserCode
  /\ builtin_reject_internal(k)
  /\ UNCHANGED <<next_ticks, fatal_error, pc, job, draining, phase>>

builtin_promise_then(p, ful, rej) ==
  /\ UserCode
  /\ Free # {}
  /\ HeapBecomes(
       AddHandler([Heap EXCEPT !.pd[Fresh] = NewPromise(p)], p,
                  Handler(ful, rej, Fresh), rej))
  /\ UNCHANGED <<pairs, next_ticks, fatal_error, pc, job, draining, phase>>

js_promise_await_coroutine(p) ==
  /\ UserCode
  /\ HeapBecomes(AddHandler(Heap, p, Handler(TRUE, TRUE, None), TRUE))
  /\ UNCHANGED <<pairs, next_ticks, fatal_error, pc, job, draining, phase>>

queue_microtask ==
  /\ UserCode
  /\ microtasks' = Append(microtasks, Callback)
  /\ UNCHANGED <<pd, pairs, next_ticks, pending_rejections, fatal_error, pc,
                 job, draining, phase, follows>>

queue_next_tick ==
  /\ UserCode
  /\ next_ticks' = next_ticks + 1
  /\ UNCHANGED <<pd, pairs, microtasks, pending_rejections, fatal_error, pc,
                 job, draining, phase, follows>>
-----------------------------------------------------------------------------
(* The script and the drain.                                               *)

heap == <<pd, pairs, microtasks, next_ticks, pending_rejections, fatal_error,
          follows>>

\* The event loop calls into JavaScript.
StartScript ==
  /\ pc = "idle"
  /\ ops < MaxOps
  /\ pc' = "script"
  /\ UNCHANGED <<heap, job, draining, phase, ops>>

\* The outermost call returns: sv_vm_maybe_checkpoint_microtasks.
EndScript ==
  /\ pc = "script"
  /\ IF HasPendingMicrotasks
     THEN pc' = "drain" /\ draining' = "checkpoint" /\ phase' = "ticks"
     ELSE pc' = "idle" /\ UNCHANGED <<draining, phase>>
  /\ UNCHANGED <<heap, job, ops>>

\* A handle of the event loop completes: the C callback may settle promises.
StartNative ==
  /\ pc = "idle"
  /\ ops < MaxOps
  /\ pc' = "native"
  /\ UNCHANGED <<heap, job, draining, phase, ops>>

\* The callbacks of rpc.c, atomics.c and sandbox.c drain after they settled, and
\* leave the rejections for later; the calls from generator.c and sugar.c are
\* made by a job, so that the queue is being drained and nothing happens.
js_maybe_drain_microtasks_after_async_settle ==
  /\ pc = "native"
  /\ HasPendingMicrotasks
  /\ pc' = "drain"
  /\ draining' = "settle" /\ phase' = "ticks"
  /\ UNCHANGED <<heap, job, ops>>

NativeReturns ==
  /\ pc = "native"
  /\ pc' = "idle"
  /\ UNCHANGED <<heap, job, draining, phase, ops>>

\* js_poll_events, called by the event loop whether or not jobs are queued.
PollEvents ==
  /\ pc = "idle"
  /\ HasPendingMicrotasks \/ pending_rejections # <<>>
  /\ pc' = "drain"
  /\ draining' = "checkpoint" /\ phase' = "ticks"
  /\ UNCHANGED <<heap, job, ops>>

\* All the ticks there are, then all the microtasks, and so on until none is left.
TakeNextTick ==
  /\ pc = "drain"
  /\ next_ticks > 0
  /\ phase = "ticks" \/ microtasks = <<>>
  /\ phase' = "ticks"
  /\ next_ticks' = next_ticks - 1
  /\ pc' = "callback"
  /\ job' = [NoJob EXCEPT !.kind = "callback"]
  /\ UNCHANGED <<pd, pairs, microtasks, pending_rejections, fatal_error,
                 draining, ops, follows>>

\* js_process_promise_handlers takes over the reactions present at its start.
ProcessTrigger(p) ==
  /\ pd' = [pd EXCEPT ![p].trigger_queued = FALSE, ![p].handlers = <<>>]
  /\ job' = [NoJob EXCEPT !.kind = "reaction", !.promise = p,
                          !.batch = pd[p].handlers]
  /\ pc' = "handlers"
  /\ microtasks' = Tail(microtasks)
  /\ UNCHANGED <<pairs, pending_rejections, follows>>

\* A native promise is adopted by a reaction without callbacks; another thenable
\* has its then() called with a new pair of resolving functions.
js_process_promise_thenable_job(p, x) ==
  LET h == [Heap EXCEPT !.microtasks = Tail(@)]
  IN IF x \in Promise
     THEN /\ HeapBecomes(AddHandler(h, x, Handler(FALSE, FALSE, p), TRUE))
          /\ UNCHANGED <<pairs, pc, job>>
     ELSE /\ HeapBecomes(h)
          /\ pairs' = Append(pairs, [promise |-> p, settled |-> FALSE])
          /\ pc' = "callback"
          /\ job' = [NoJob EXCEPT !.kind = "then", !.pair = Len(pairs) + 1]

RunCallback ==
  /\ pc' = "callback"
  /\ job' = [NoJob EXCEPT !.kind = "callback"]
  /\ microtasks' = Tail(microtasks)
  /\ UNCHANGED <<pd, pairs, pending_rejections, follows>>

process_microtask_entry ==
  /\ pc = "drain"
  /\ microtasks # <<>>
  /\ phase = "microtasks" \/ next_ticks = 0
  /\ phase' = "microtasks"
  /\ LET entry == Head(microtasks)
     IN \/ entry.kind = "trigger" /\ ProcessTrigger(entry.promise)
        \/ /\ entry.kind = "thenable"
           /\ js_process_promise_thenable_job(entry.promise, entry.thenable)
        \/ entry.kind = "callback" /\ RunCallback
  /\ UNCHANGED <<next_ticks, fatal_error, draining, ops>>

\* The loop of js_process_promise_handlers.
RunHandler ==
  /\ pc = "handlers"
  /\ job.batch # <<>>
  /\ LET h == Head(job.batch)
         p == job.promise
         callable == IF pd[p].state = "fulfilled" THEN h.onFulfilled
                     ELSE h.onRejected
     IN /\ job' = [job EXCEPT !.batch = Tail(@), !.next = h.next]
        /\ IF callable
           THEN pc' = "callback" /\ HeapBecomes(Heap)
           ELSE /\ HeapBecomes(IF pd[p].state = "fulfilled"
                               THEN js_resolve_promise(Heap, h.next, pd[p].value)
                               ELSE js_reject_promise(Heap, h.next))
                /\ UNCHANGED pc
  /\ UNCHANGED <<pairs, next_ticks, fatal_error, draining, phase, ops>>

EndBatch ==
  /\ pc = "handlers"
  /\ job.batch = <<>>
  /\ pc' = "drain"
  /\ job' = NoJob
  /\ UNCHANGED <<heap, draining, phase, ops>>

\* The callback of a reaction returns x: it settles the derived promise, if any.
ReactionReturns(x) ==
  /\ pc = "callback" /\ job.kind = "reaction"
  /\ IF job.next = None THEN HeapBecomes(Heap)
     ELSE HeapBecomes(js_resolve_promise(Heap, job.next, x))
  /\ pc' = "handlers"
  /\ job' = [job EXCEPT !.next = None]
  /\ UNCHANGED <<pairs, next_ticks, fatal_error, draining, phase, ops>>

ReactionThrows ==
  /\ pc = "callback" /\ job.kind = "reaction" /\ job.next # None
  /\ HeapBecomes(js_reject_promise(Heap, job.next))
  /\ pc' = "handlers"
  /\ job' = [job EXCEPT !.next = None]
  /\ UNCHANGED <<pairs, next_ticks, fatal_error, draining, phase, ops>>

\* A tick, a microtask or the then() of a thenable returns; only an exception
\* of the latter matters to a promise, and it goes through the pair.
CallbackReturns ==
  /\ pc = "callback" /\ job.kind \in {"callback", "then"}
  /\ pc' = "drain"
  /\ job' = NoJob
  /\ UNCHANGED <<heap, draining, phase, ops>>

ThenThrows ==
  /\ pc = "callback" /\ job.kind = "then"
  /\ builtin_reject_internal(job.pair)
  /\ pc' = "drain"
  /\ job' = NoJob
  /\ UNCHANGED <<next_ticks, fatal_error, draining, phase, ops>>

FinishDrain ==
  /\ pc = "drain"
  /\ ~HasPendingMicrotasks
  /\ IF draining = "checkpoint"
     THEN pc' = "check" /\ UNCHANGED draining
     ELSE pc' = "native" /\ draining' = "no"
  /\ UNCHANGED <<heap, job, phase, ops>>
-----------------------------------------------------------------------------
(* js_check_unhandled_rejections.                                          *)

ParentHandles(p) ==
  /\ pd[p].trigger_parent # None
  /\ pd[pd[p].trigger_parent].has_rejection_handler

Skipped(p) ==
  \/ pd[p].has_rejection_handler
  \/ pd[p].unhandled_reported
  \/ ParentHandles(p)

CheckRejection ==
  /\ pc = "check"
  /\ pending_rejections # <<>>
  /\ IF Skipped(Head(pending_rejections))
     THEN /\ pending_rejections' = Tail(pending_rejections)
          /\ UNCHANGED pc
     ELSE /\ pc' = IF fatal_error THEN "exit" ELSE "report"
          /\ UNCHANGED pending_rejections
  /\ UNCHANGED <<pd, pairs, microtasks, next_ticks, fatal_error, job, draining,
                 phase, ops, follows>>

\* Mutant: the length of the list is read once, before the listeners run.
DropRest(list) == <<>>

\* The entry is done with; the loop goes on with those behind it.
Reported(list) == Tail(list)

\* The listener, or the message, is done.
ReportReturns ==
  /\ pc = "report"
  /\ pd' = [pd EXCEPT ![Head(pending_rejections)].unhandled_reported = TRUE]
  /\ pending_rejections' = Reported(pending_rejections)
  /\ pc' = "check"
  /\ UNCHANGED <<pairs, microtasks, next_ticks, fatal_error, job, draining,
                 phase, ops, follows>>

FinishCheck ==
  /\ pc = "check"
  /\ pending_rejections = <<>>
  /\ pc' = "idle"
  /\ draining' = "no"
  /\ UNCHANGED <<heap, job, phase, ops>>
-----------------------------------------------------------------------------
UserCalls ==
  \/ builtin_Promise
  \/ \E k \in DOMAIN pairs :
       CallReject(k) \/ \E x \in Resolutions : CallResolve(k, x)
  \/ \E p \in Promise \ Free :
       \/ \E ful, rej \in BOOLEAN : builtin_promise_then(p, ful, rej)
       \/ js_promise_await_coroutine(p)
       \/ NativeSettle(p)
  \/ js_mkpromise
  \/ queue_microtask
  \/ queue_next_tick

ReactionEnds == ReactionThrows \/ \E x \in Resolutions : ReactionReturns(x)

Next ==
  \/ UserCalls
  \/ StartScript \/ EndScript \/ PollEvents
  \/ StartNative \/ js_maybe_drain_microtasks_after_async_settle \/ NativeReturns
  \/ TakeNextTick \/ process_microtask_entry \/ FinishDrain
  \/ RunHandler \/ EndBatch
  \/ ReactionEnds \/ CallbackReturns \/ ThenThrows
  \/ CheckRejection \/ ReportReturns \/ FinishCheck

\* The event loop polls in each of its turns, the drain loops on and every piece
\* of user code returns.
RuntimeStep ==
  \/ EndScript \/ NativeReturns \/ PollEvents
  \/ TakeNextTick \/ process_microtask_entry \/ FinishDrain
  \/ RunHandler \/ EndBatch \/ ReactionEnds \/ CallbackReturns
  \/ CheckRejection \/ ReportReturns \/ FinishCheck

Fairness == WF_vars(RuntimeStep) /\ SF_vars(PollEvents)

Spec == Init /\ [][Next]_vars /\ Fairness
-----------------------------------------------------------------------------
Settled(p) == pd[p].state \in {"fulfilled", "rejected"}

\* A promise resolved with another promise has that one's outcome and no other:
\* not what its resolving functions are called with afterwards.
OutcomeIsAdopted ==
  \A p \in Promise : follows[p] # None /\ Settled(p) =>
    /\ pd[follows[p]].state = pd[p].state
    /\ pd[follows[p]].value = pd[p].value

\* ... and it does settle once the other one has: again and again a time comes when
\* no promise is behind the one it follows (a settled promise stays settled).
AdoptionCompletes ==
  []<>(pc = "exit" \/ \A p \in Promise :
         follows[p] # None /\ Settled(follows[p]) => Settled(p))

\* No rejection is forgotten: one without a handler is reported, waits to be,
\* or has a parent whose handler js_check_unhandled_rejections relies on.
RejectionsAccounted ==
  \A p \in Promise : pd[p].state = "rejected" =>
    \/ Skipped(p)
    \/ \E k \in DOMAIN pending_rejections : pending_rejections[k] = p

\* A rejected promise that no one attached anything to has been reported when
\* the event loop is idle with nothing left to do
\* (docs/exec-plans/active/microtask-checkpoint-timing.md: "unhandled-rejection
\* reporting still fires for genuinely unhandled rejections").
UnattachedIsReported ==
  pc = "idle" /\ ~HasPendingMicrotasks /\ pending_rejections = <<>> =>
    \A p \in Promise :
      pd[p].state = "rejected" /\ ~pd[p].has_rejection_handler =>
        pd[p].unhandled_reported
=============================================================================
