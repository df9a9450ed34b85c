----------------------------- MODULE Coroutines -----------------------------
(***************************************************************************)
(* The lifetime of coroutine_t: the activation of an async function, of    *)
(* top-level await or of a generator (src/sugar.c, src/silver/ops/async.h, *)
(* src/modules/generator.c).  It is freed by hand, when its reference      *)
(* count drops to zero, although C frames, promise reactions, queued jobs, *)
(* the generator object and the list of active coroutines point to it.     *)
(*                                                                         *)
(* A coroutine is resumed by the reaction of the promise it awaits, by the *)
(* job queued for a value that is not a promise, or by next() of its       *)
(* generator; the C functions that run it are frames of "stack".           *)
(***************************************************************************)
EXTENDS Integers, Sequences, FiniteSets, SequencesExt

CONSTANTS
  Coro,       \* coroutines that may be made
  Promise,    \* promises that may be awaited
  None,       \* a null pointer or undefined
  GenAwaits,  \* what generators await: subset of {"promise", "primitive"}
  MaxOps      \* bound on the calls and awaits of user code

VARIABLES
  co,        \* coroutine_t of each coroutine
  handlers,  \* the coroutines in the reactions of each promise (await_coro)
  jobs,      \* MT_AWAIT_RESUME jobs queued for each coroutine
  gen,       \* the generator object of a coroutine: generator_data_t
  active,    \* js->active_async_coro
  out,       \* evaluation.async_coro: coroutines the REPL or inspector refers to
  stack,     \* C frames that run coroutines, the last one on top
  ops        \* calls and awaits of user code so far

vars == <<co, handlers, jobs, gen, active, out, stack, ops>>

\* What retaining, releasing and linking coroutines may change.
Heap == [co |-> co, handlers |-> handlers, active |-> active]

HeapBecomes(h) ==
  /\ co' = h.co
  /\ handlers' = h.handlers
  /\ active' = h.active

Unused ==
  [phase |-> "unused", type |-> "async", refcount |-> 0, hold_bits |-> {},
   await_registered |-> FALSE, awaited_promise |-> None, act |-> "null",
   active_parent |-> None, active_prev |-> None, async_promise |-> FALSE]

NoGenerator == [coro |-> FALSE, state |-> "none", queue |-> 0, referenced |-> FALSE]

Init ==
  /\ co = [c \in Coro |-> Unused]
  /\ handlers = [p \in Promise |-> {}]
  /\ jobs = [c \in Coro |-> 0]
  /\ gen = [c \in Coro |-> NoGenerator]
  /\ active = None
  /\ out = {}
  /\ stack = <<>>
  /\ ops = 0

\* coro->act holds the frames of a body that awaits or yielded; it is null before
\* and empty while the body runs again.
Suspended(h, c) == h.co[c].act = "frames"
-----------------------------------------------------------------------------
(* Reference counting.                                                     *)

coroutine_retain(h, c) == [h EXCEPT !.co[c].refcount = @ + 1]

\* n releases in a row; the storage goes with the last reference.
ReleaseRefs(h, c, n) ==
  CASE h.co[c].refcount = 0 -> h
    [] h.co[c].refcount \in 1..n ->
         [h EXCEPT !.co[c] = [Unused EXCEPT !.phase = "freed"]]
    [] OTHER -> [h EXCEPT !.co[c].refcount = @ - n]

coroutine_release(h, c) == ReleaseRefs(h, c, 1)

coroutine_hold(h, c, bit) ==
  IF bit \in h.co[c].hold_bits THEN h
  ELSE coroutine_retain([h EXCEPT !.co[c].hold_bits = @ \cup {bit}], c)

coroutine_unhold(h, c, bit) ==
  IF bit \notin h.co[c].hold_bits THEN h
  ELSE coroutine_release([h EXCEPT !.co[c].hold_bits = @ \ {bit}], c)

\* Mutant: the reaction is left behind.
clear_keeps_handler(h, c) ==
  IF ~h.co[c].await_registered THEN h
  ELSE coroutine_unhold([h EXCEPT !.co[c].await_registered = FALSE,
                                  !.co[c].awaited_promise = None], c, "AWAIT")

coroutine_clear_await_registration(h, c) ==
  LET p == h.co[c].awaited_promise
      g == [h EXCEPT !.co[c].await_registered = FALSE,
                     !.co[c].awaited_promise = None]
  IN IF ~h.co[c].await_registered THEN h
     ELSE coroutine_unhold(
            IF p = None THEN g ELSE [g EXCEPT !.handlers[p] = @ \ {c}],
            c, "AWAIT")

\* The same as sv_async_link_activation.
coroutine_activate(h, c) ==
  LET up == h.active
      g  == [h EXCEPT !.co[c].active_parent = up, !.co[c].active_prev = None,
                      !.active = c]
      k  == IF up = None THEN g ELSE [g EXCEPT !.co[up].active_prev = c]
  IN coroutine_hold(k, c, "ACTIVE")

\* Mutant: the coroutine below is not made the active one again.
deactivate_keeps_active(h, c) ==
  coroutine_unhold([h EXCEPT !.co[c].active_parent = None,
                             !.co[c].active_prev = None], c, "ACTIVE")

coroutine_deactivate(h, c) ==
  LET up   == h.co[c].active_parent
      down == h.co[c].active_prev
      g == IF down # None THEN [h EXCEPT !.co[down].active_parent = up]
           ELSE IF h.active = c THEN [h EXCEPT !.active = up] ELSE h
      k == IF up = None THEN g ELSE [g EXCEPT !.co[up].active_prev = down]
  IN coroutine_unhold([k EXCEPT !.co[c].active_parent = None,
                                !.co[c].active_prev = None], c, "ACTIVE")
-----------------------------------------------------------------------------
(* Frames.  A frame owns refs references; its body runs until it awaits,   *)
(* yields or finishes, and "return" is the code behind the body.           *)

Frame(kind, c, refs) ==
  [kind |-> kind, coro |-> c, refs |-> refs, pc |-> "body", saved |-> None]

Top == Last(stack)
Return == stack' = Front(stack)
Goes(pc) == stack' = [stack EXCEPT ![Len(stack)].pc = pc]
Running == stack # <<>> /\ Top.pc = "body"

\* JavaScript runs: that of the frame on top, or a script or callback without one.
UserCode ==
  /\ stack = <<>> \/ Running
  /\ ops < MaxOps
  /\ ops' = ops + 1

New(type) == [Unused EXCEPT !.phase = "alive", !.type = type, !.refcount = 1]
-----------------------------------------------------------------------------
(* Async functions and top-level await.                                    *)

sv_start_async_closure(c) ==
  /\ UserCode
  /\ co[c].phase = "unused"
  /\ HeapBecomes(coroutine_activate([Heap EXCEPT !.co[c] = New("async")], c))
  /\ stack' = Append(stack, Frame("start", c, 1))
  /\ UNCHANGED <<jobs, gen, out>>

\* With async_coro_out, for a line of the REPL or of the inspector.
sv_start_tla(c) ==
  /\ UserCode
  /\ co[c].phase = "unused"
  /\ LET h == coroutine_retain([Heap EXCEPT !.co[c] = New("async")], c)
     IN HeapBecomes(coroutine_activate(h, c))
  /\ stack' = Append(stack, Frame("tla", c, 2))
  /\ UNCHANGED <<jobs, gen, out>>

\* Mutant: the coroutine is not retained for its job.
queue_without_retain(h, c) == h

\* The reference that queue_await_resume_job takes.
queue_await_resume_job(h, c) == coroutine_retain(h, c)

\* The await of a value that is no promise, by the coroutine that is active ...
AwaitPrimitive ==
  /\ UserCode /\ Running
  /\ co[Top.coro].type = "async" \/ "primitive" \in GenAwaits
  /\ LET h == [queue_await_resume_job(Heap, active) EXCEPT
                 !.co[active].awaited_promise = None,
                 !.co[active].await_registered = TRUE,
                 !.co[active].act = "frames"]
     IN HeapBecomes(coroutine_hold(h, active, "AWAIT"))
  /\ jobs' = [jobs EXCEPT ![active] = @ + 1]
  /\ Goes("return")
  /\ UNCHANGED <<gen, out>>

\* ... and of a promise, settled or not.
js_promise_await_coroutine(p) ==
  /\ UserCode /\ Running
  /\ co[Top.coro].type = "async" \/ "promise" \in GenAwaits
  /\ LET h == [Heap EXCEPT !.handlers[p] = @ \cup {active},
                           !.co[active].awaited_promise = p,
                           !.co[active].await_registered = TRUE,
                           !.co[active].act = "frames"]
     IN HeapBecomes(coroutine_hold(h, active, "AWAIT"))
  /\ Goes("return")
  /\ UNCHANGED <<jobs, gen, out>>

\* The body returns or throws.
BodyEnds ==
  /\ Running
  /\ Goes("return")
  /\ UNCHANGED <<co, handlers, jobs, gen, active, out, ops>>

StartReturns ==
  /\ stack # <<>> /\ Top.pc = "return" /\ Top.kind \in {"start", "tla"}
  /\ LET c    == Top.coro
         h    == coroutine_deactivate(Heap, c)
         kept == Top.kind = "tla" /\ Suspended(h, c)
     IN /\ HeapBecomes(ReleaseRefs(h, c, IF kept THEN 1 ELSE Top.refs))
        /\ out' = IF kept THEN out \cup {c} ELSE out
  /\ Return
  /\ UNCHANGED <<jobs, gen, ops>>

\* repl_evaluate and the inspector are done with the coroutine; the REPL cancels
\* it first when it was interrupted while it waited for it.
coroutine_cancel(h, c) == coroutine_clear_await_registration(h, c)

ReleaseOut(c) ==
  /\ c \in out
  /\ \/ HeapBecomes(coroutine_release(Heap, c))
     \/ stack = <<>> /\ HeapBecomes(coroutine_release(coroutine_cancel(Heap, c), c))
  /\ out' = out \ {c}
  /\ UNCHANGED <<jobs, gen, stack, ops>>
-----------------------------------------------------------------------------
(* Resumption by a job of the microtask queue.  Jobs do not nest, but the  *)
(* event loop may be entered again by a frame that is no job.              *)

CanRunJob ==
  /\ stack = <<>> \/ Running
  /\ \A k \in DOMAIN stack : stack[k].kind \notin {"reaction", "job"}

\* settle_and_resume_coroutine and resume_coroutine_if_suspended retain the
\* coroutine each; refs counts the reference of the job as well.
settle_and_resume_coroutine(h, c, kind, refs) ==
  LET g == coroutine_retain(coroutine_clear_await_registration(
             coroutine_retain(h, c), c), c)
  IN IF Suspended(g, c)
     THEN /\ HeapBecomes(coroutine_activate([g EXCEPT !.co[c].act = "empty"], c))
          /\ stack' = Append(stack, Frame(kind, c, refs))
     ELSE /\ HeapBecomes(ReleaseRefs(g, c, refs))
          /\ UNCHANGED stack

\* js_process_promise_handlers meets the reaction of a coroutine.
RunReaction(p, c) ==
  /\ CanRunJob
  /\ c \in handlers[p]
  /\ settle_and_resume_coroutine([Heap EXCEPT !.handlers[p] = @ \ {c}],
                                 c, "reaction", 2)
  /\ UNCHANGED <<jobs, gen, out, ops>>

\* process_microtask_entry of an MT_AWAIT_RESUME.
RunResumeJob(c) ==
  /\ CanRunJob
  /\ jobs[c] > 0
  /\ jobs' = [jobs EXCEPT ![c] = @ - 1]
  /\ IF co[c].await_registered THEN settle_and_resume_coroutine(Heap, c, "job", 3)
     ELSE HeapBecomes(coroutine_release(Heap, c)) /\ UNCHANGED stack
  /\ UNCHANGED <<gen, out, ops>>

\* The generator lets go of its coroutine (gen[c].coro becomes FALSE with it).
generator_clear_coro(h, c) == coroutine_unhold(h, c, "GENERATOR")

Cleared(g) == [g EXCEPT !.state = "completed", !.coro = FALSE]

\* Behind the body: a generator answers its request and goes on with its queue.
ResumeReturns ==
  /\ stack # <<>> /\ Top.pc = "return" /\ Top.kind \in {"reaction", "job"}
  /\ LET c       == Top.coro
         h       == coroutine_deactivate(Heap, c)
         request == gen[c].coro /\ h.co[c].async_promise
         answer  == [h EXCEPT !.co[c].async_promise = FALSE]
     IN \/ /\ request /\ ~Suspended(h, c)
           /\ HeapBecomes(generator_clear_coro(answer, c))
           /\ gen' = [gen EXCEPT ![c] = Cleared(@)]
           /\ Goes("queue")
        \/ /\ request /\ Suspended(h, c) /\ h.co[c].awaited_promise = None
           /\ HeapBecomes(answer)
           /\ gen' = [gen EXCEPT ![c].state = "yield"]
           /\ Goes("queue")
        \/ /\ request /\ Suspended(h, c) /\ h.co[c].awaited_promise # None
           /\ HeapBecomes(ReleaseRefs(h, c, Top.refs))
           /\ gen' = [gen EXCEPT ![c].state = "executing"]
           /\ Return
        \/ /\ ~request
           /\ HeapBecomes(ReleaseRefs(h, c, Top.refs))
           /\ UNCHANGED gen
           /\ Return
  /\ UNCHANGED <<jobs, out, ops>>
-----------------------------------------------------------------------------
(* Generators.                                                             *)

\* The reference made for the call is replaced by that of the generator.
sv_call_generator_closure_dispatch(c) ==
  /\ UserCode
  /\ co[c].phase = "unused"
  /\ LET h == coroutine_hold([Heap EXCEPT !.co[c] = New("generator")], c, "GENERATOR")
     IN HeapBecomes(coroutine_release(h, c))
  /\ gen' = [gen EXCEPT ![c] = [coro |-> TRUE, state |-> "start", queue |-> 0,
                                referenced |-> TRUE]]
  /\ UNCHANGED <<jobs, out, stack>>

\* The part of generator_resume_kind up to the body; an activation that is not
\* there ("generator activation lost") ends the generator.
RunBody(h, c) ==
  LET lost  == gen[c].state # "start" /\ ~Suspended(h, c)
      frame == [Frame("generator", c, 1) EXCEPT
                  !.saved = active, !.pc = IF lost THEN "return" ELSE "body"]
      g     == coroutine_activate(coroutine_retain(h, c), c)
  IN /\ HeapBecomes(IF Suspended(h, c) THEN [g EXCEPT !.co[c].act = "empty"] ELSE g)
     /\ stack' = Append(stack, frame)

\* The early returns: a body in its first run, or completed, has nothing to resume.
NoBody(c) == co[c].act = "null" /\ gen[c].state # "start"

generator_resume_kind(c, kind) ==
  /\ UserCode
  /\ gen[c].coro /\ gen[c].referenced
  /\ \/ /\ NoBody(c)
        /\ gen' = [gen EXCEPT ![c].state = "completed"]
        /\ HeapBecomes(Heap) /\ UNCHANGED stack
     \/ /\ ~NoBody(c) /\ gen[c].state = "executing"
        /\ gen' = [gen EXCEPT ![c].queue = @ + 1]
        /\ HeapBecomes(Heap) /\ UNCHANGED stack
     \/ /\ gen[c].state = "start" /\ kind \in {"throw", "return"}
        /\ gen' = [gen EXCEPT ![c] = Cleared(@)]
        /\ HeapBecomes(generator_clear_coro(Heap, c)) /\ UNCHANGED stack
     \/ /\ \/ gen[c].state = "start" /\ kind = "next"
           \/ ~NoBody(c) /\ gen[c].state = "yield"
        /\ gen' = [gen EXCEPT ![c].state = "executing"]
        /\ RunBody(Heap, c)
  /\ UNCHANGED <<jobs, out>>

\* generator_process_queue, from the frame that answered the request before.
HasQueued(c) == gen[c].state # "executing" /\ gen[c].queue > 0

ProcessQueued ==
  /\ stack # <<>> /\ Top.pc = "queue"
  /\ HasQueued(Top.coro)
  /\ LET c == Top.coro
         g == [gen[c] EXCEPT !.queue = @ - 1]
     IN IF g.coro /\ ~NoBody(c) /\ g.state = "yield"
        THEN /\ gen' = [gen EXCEPT ![c] = [g EXCEPT !.state = "executing"]]
             /\ RunBody([Heap EXCEPT !.co[c].async_promise = TRUE], c)
        ELSE /\ gen' = [gen EXCEPT ![c] = [g EXCEPT !.state = "completed"]]
             /\ HeapBecomes(IF g.coro THEN [Heap EXCEPT !.co[c].async_promise = TRUE]
                            ELSE Heap)
             /\ UNCHANGED stack
  /\ UNCHANGED <<jobs, out, ops>>

QueueDone ==
  /\ stack # <<>> /\ Top.pc = "queue"
  /\ ~HasQueued(Top.coro)
  /\ HeapBecomes(ReleaseRefs(Heap, Top.coro, Top.refs))
  /\ Return
  /\ UNCHANGED <<jobs, gen, out, ops>>

\* A body of a generator yields.
Yield ==
  /\ Running
  /\ co[Top.coro].type = "generator"
  /\ co' = [co EXCEPT ![Top.coro].act = "frames"]
  /\ Goes("return")
  /\ UNCHANGED <<handlers, jobs, gen, active, out, ops>>

\* The list of active coroutines is put back as it was.
Restore(h, c, saved) ==
  LET g == IF saved = None THEN h ELSE [h EXCEPT !.co[saved].active_prev = None]
  IN coroutine_unhold([g EXCEPT !.co[c].active_parent = None,
                                !.co[c].active_prev = None,
                                !.active = saved], c, "ACTIVE")

GeneratorReturns ==
  /\ stack # <<>> /\ Top.pc = "return" /\ Top.kind = "generator"
  /\ LET c == Top.coro
         h == Restore(Heap, c, Top.saved)
     IN \/ /\ ~Suspended(h, c)
           /\ HeapBecomes(coroutine_release(generator_clear_coro(h, c), c))
           /\ gen' = [gen EXCEPT ![c] = Cleared(@)]
        \/ /\ Suspended(h, c) /\ h.co[c].awaited_promise # None
           /\ HeapBecomes(coroutine_release(
                [h EXCEPT !.co[c].async_promise = TRUE], c))
           /\ gen' = [gen EXCEPT ![c].state = "executing"]
        \/ /\ Suspended(h, c) /\ h.co[c].awaited_promise = None
           /\ HeapBecomes(coroutine_release(h, c))
           /\ gen' = [gen EXCEPT ![c].state = "yield"]
  /\ Return
  /\ UNCHANGED <<jobs, out, ops>>

DropGenerator(c) ==
  /\ gen[c].referenced
  /\ gen' = [gen EXCEPT ![c].referenced = FALSE]
  /\ UNCHANGED <<co, handlers, jobs, active, out, stack, ops>>

\* What the collector reaches from js->active_async_coro.
ActiveList ==
  LET reach[n \in 0..Cardinality(Coro)] ==
        IF n = 0 THEN {active} \ {None}
        ELSE reach[n - 1] \cup ({co[c].active_parent : c \in reach[n - 1]} \ {None})
  IN reach[Cardinality(Coro)]

\* Mutant: the coroutine of a reaction is not marked.
MarkedNotByReactions(c) ==
  \/ gen[c].referenced
  \/ c \in ActiveList
  \/ jobs[c] > 0
  \/ \E k \in DOMAIN stack : stack[k].coro = c /\ stack[k].kind = "generator"
  \/ \E k \in DOMAIN stack : stack[k].coro = c /\ stack[k].pc = "queue"

\* A generator is marked by its users, through its coroutine, which has it as
\* owner_gen, and by the C frames that pin it.
Marked(c) ==
  \/ gen[c].referenced
  \/ c \in ActiveList
  \/ \E p \in Promise : c \in handlers[p]
  \/ jobs[c] > 0
  \/ \E k \in DOMAIN stack : stack[k].coro = c /\ stack[k].kind = "generator"
  \/ \E k \in DOMAIN stack : stack[k].coro = c /\ stack[k].pc = "queue"

generator_finalize(c) ==
  /\ gen[c].state # "none"
  /\ ~Marked(c)
  /\ HeapBecomes(IF gen[c].coro THEN generator_clear_coro(Heap, c) ELSE Heap)
  /\ gen' = [gen EXCEPT ![c] = NoGenerator]
  /\ UNCHANGED <<jobs, out, stack, ops>>
-----------------------------------------------------------------------------
UserCalls ==
  \/ \E c \in Coro :
       \/ sv_start_async_closure(c)
       \/ sv_start_tla(c)
       \/ sv_call_generator_closure_dispatch(c)
       \/ \E kind \in {"next", "throw", "return"} : generator_resume_kind(c, kind)
  \/ AwaitPrimitive
  \/ \E p \in Promise : js_promise_await_coroutine(p)

Next ==
  \/ UserCalls
  \/ BodyEnds \/ Yield
  \/ StartReturns \/ ResumeReturns \/ GeneratorReturns
  \/ ProcessQueued \/ QueueDone
  \/ \E c \in Coro :
       \/ RunResumeJob(c)
       \/ \E p \in Promise : RunReaction(p, c)
       \/ ReleaseOut(c)
       \/ DropGenerator(c) \/ generator_finalize(c)

Spec == Init /\ [][Next]_vars
-----------------------------------------------------------------------------

FrameRefs(c) ==
  FoldSeq(LAMBDA f, n : n + (IF f.coro = c THEN f.refs ELSE 0), 0, stack)

\* The reference count of a coroutine is the number of its holds, of the jobs
\* queued for it and of the references C frames and the REPL have: none is
\* forgotten, which would leak it, and none is released twice.  A freed coroutine
\* has a count of zero, so that nothing that counts still points to it; and each
\* hold bit stands for what it names, the registration of an await, the generator
\* or a frame (coroutine_hold, coroutine_unhold, coroutine_release).
RefcountExact ==
  \A c \in Coro :
    /\ co[c].refcount = Cardinality(co[c].hold_bits) + jobs[c] + FrameRefs(c)
                         + (IF c \in out THEN 1 ELSE 0)
    /\ co[c].phase = "alive" <=> co[c].refcount > 0
    /\ "AWAIT" \in co[c].hold_bits <=> co[c].await_registered
    /\ "GENERATOR" \in co[c].hold_bits <=> gen[c].coro
    /\ "ACTIVE" \in co[c].hold_bits <=>
         \E k \in DOMAIN stack : stack[k].coro = c /\ stack[k].pc # "queue"

\* A coroutine that awaits will be resumed: its reaction is in the promise it
\* awaits, or its job is in the queue; and no promise has a reaction of a
\* coroutine that does not await it.
AwaitIsAnswered ==
  \A c \in Coro :
    /\ co[c].await_registered =>
         \/ co[c].awaited_promise # None /\ c \in handlers[co[c].awaited_promise]
         \/ co[c].awaited_promise = None /\ jobs[c] > 0
    /\ \A p \in Promise : c \in handlers[p] => co[c].awaited_promise = p

\* The list of active coroutines, which the collector marks and await looks at,
\* is the list of the bodies on the stack, the innermost first.
ActiveIsStack ==
  LET live == SelectSeq(stack, LAMBDA f : f.pc # "queue")
  IN /\ active = IF live = <<>> THEN None ELSE Last(live).coro
     /\ \A k \in DOMAIN live : co[live[k].coro].active_parent =
          IF k = 1 THEN None ELSE live[k - 1].coro

\* A generator is not collected while its body runs or awaits, also when nobody
\* refers to it any more: it is the one that answers the requests.
GeneratorOutlivesBody ==
  \A c \in Coro :
    /\ co[c].type = "generator"
    /\ co[c].await_registered \/ "ACTIVE" \in co[c].hold_bits
    => gen[c].coro
=============================================================================
