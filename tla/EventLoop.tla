------------------------------- MODULE EventLoop -------------------------------
(***************************************************************************)
(* js_run_event_loop (src/reactor.c) with the queues it serves: microtasks,  *)
(* immediates (src/modules/timer.c), timers and other libuv handles, and    *)
(* the beforeExit event.  The C stack is explicit, for user code may enter  *)
(* the loop again: loading a module whose evaluation returns a promise      *)
(* calls js_run_event_loop (src/esm/loader.c, src/esm/commonjs.c).          *)
(*                                                                         *)
(* A frame is user code, a drain of the microtasks, process_immediates or   *)
(* the loop itself.  Timers and handles are numbers: Timers shows that the   *)
(* runtime counts them right.  Next ticks are counted with the microtasks.   *)
(***************************************************************************)
EXTENDS Naturals, Sequences, FiniteSets

CONSTANTS
  MaxOps,     \* bound on the calls of user code
  Nested,     \* may user code load a module that awaits?
  ClearBy     \* what clearImmediate is given: a subset of {"id", "object"}

VARIABLES
  microtasks,     \* entries in timer_state.microtasks and next_ticks
  draining,       \* js->microtasks_draining
  immediates,     \* timer_state.immediates: id and active flag
  timers,         \* active referenced timers
  idle_timers,    \* active timers that are not referenced
  handles,        \* other active and referenced libuv handles and requests
  stack,          \* the C stack, innermost frame last
  ops,
  set,            \* immediates set so far: the last id given
  ran,            \* ids of the immediates run, in order
  cleared         \* ids user code asked to clear before they ran

queues == <<microtasks, immediates, timers, idle_timers, handles>>
history == <<set, ran, cleared>>
vars == <<queues, draining, stack, ops, history>>

User(name) == [kind |-> "user", pc |-> name, batch |-> 0]
Drain(n) == [kind |-> "drain", pc |-> "run", batch |-> n]
Immediates == [kind |-> "immediates", pc |-> "run", batch |-> 0]
Loop(pc) == [kind |-> "loop", pc |-> pc, batch |-> 0]

Top == stack[Len(stack)]
Below == SubSeq(stack, 1, Len(stack) - 1)
In(kind) == stack # <<>> /\ Top.kind = kind
At(pc) == In("loop") /\ Top.pc = pc
Goto(pc) == stack' = Append(Below, Loop(pc))
Depth(kind) == Cardinality({i \in 1..Len(stack) : stack[i].kind = kind})

\* The script runs first and returns to the loop.
Init ==
  /\ microtasks = 0 /\ draining = FALSE /\ immediates = <<>>
  /\ timers = 0 /\ idle_timers = 0 /\ handles = 0
  /\ stack = <<Loop("check"), User("script")>>
  /\ ops = 0 /\ set = 0 /\ ran = <<>> /\ cleared = {}
-----------------------------------------------------------------------------
\* Calls of user code.
UserCall == In("user") /\ ops < MaxOps /\ ops' = ops + 1

queue_microtask ==
  /\ UserCall
  /\ microtasks' = microtasks + 1
  /\ UNCHANGED <<draining, immediates, timers, idle_timers, handles, stack, history>>

js_set_immediate ==
  /\ UserCall
  /\ set' = set + 1
  /\ immediates' = Append(immediates, [id |-> set + 1, active |-> TRUE])
  /\ UNCHANGED <<microtasks, draining, timers, idle_timers, handles, stack, ran, cleared>>

\* timer_id_from_arg reads SLOT_DATA of an object, which js_set_immediate does not
\* set: an object gives the id of no immediate.
timer_id_from_arg(id, by) == IF by = "id" THEN id ELSE 0

\* Mutant: an entry stops being active only if it is the first one.
DeactivateFirst(id) ==
  [k \in 1..Len(immediates) |->
     IF k = 1 /\ immediates[k].id = id THEN [immediates[k] EXCEPT !.active = FALSE]
                                       ELSE immediates[k]]

Deactivate(id) ==
  [k \in 1..Len(immediates) |->
     IF immediates[k].id = id THEN [immediates[k] EXCEPT !.active = FALSE]
                              ELSE immediates[k]]

js_clear_immediate ==
  /\ UserCall
  /\ \E k \in 1..Len(immediates), by \in ClearBy :
       /\ immediates' = Deactivate(timer_id_from_arg(immediates[k].id, by))
       /\ cleared' = cleared \cup {immediates[k].id}
  /\ UNCHANGED <<microtasks, draining, timers, idle_timers, handles, stack, set, ran>>

SetTimer ==
  /\ UserCall
  /\ \/ timers' = timers + 1 /\ UNCHANGED idle_timers
     \/ idle_timers' = idle_timers + 1 /\ UNCHANGED timers
  /\ UNCHANGED <<microtasks, draining, immediates, handles, stack, history>>

StartIO ==
  /\ UserCall
  /\ handles' = handles + 1
  /\ UNCHANGED <<microtasks, draining, immediates, timers, idle_timers, stack, history>>

\* esm_handle_module_promise
LoadModule ==
  /\ Nested /\ Depth("loop") = 1
  /\ UserCall
  /\ stack' = Append(stack, Loop("check"))
  /\ UNCHANGED <<queues, draining, history>>
-----------------------------------------------------------------------------
\* Mutant: a drain that is running is not looked for.
drain_again(frames) ==
  stack' = Append(frames, Drain(0)) /\ draining' = TRUE

\* process_microtasks, called with frames as the stack to come back to.
process_microtasks(frames) ==
  IF draining THEN stack' = frames /\ UNCHANGED draining
  ELSE stack' = Append(frames, Drain(0)) /\ draining' = TRUE

\* A callback returns.  Immediates and timers are followed by process_microtasks,
\* the others by a checkpoint (sv_vm_maybe_checkpoint_microtasks), which drains
\* only if no other user code is on the stack.
Checkpoint == Top.pc \in {"immediate", "timer"} \/ Depth("user") = 1

UserReturns ==
  /\ In("user")
  /\ IF Checkpoint THEN process_microtasks(Below)
                   ELSE stack' = Below /\ UNCHANGED draining
  /\ UNCHANGED <<queues, ops, history>>

\* process_microtasks_internal: batches are taken until nothing is queued.
TakeBatch ==
  /\ In("drain") /\ Top.batch = 0 /\ microtasks > 0
  /\ stack' = Append(Below, Drain(microtasks))
  /\ microtasks' = 0
  /\ UNCHANGED <<draining, immediates, timers, idle_timers, handles, ops, history>>

RunMicrotask ==
  /\ In("drain") /\ Top.batch > 0
  /\ stack' = Below \o <<Drain(Top.batch - 1), User("microtask")>>
  /\ UNCHANGED <<queues, draining, ops, history>>

EndDrain ==
  /\ In("drain") /\ Top.batch = 0 /\ microtasks = 0
  /\ stack' = Below
  /\ draining' = FALSE
  /\ UNCHANGED <<queues, ops, history>>

\* process_immediates
RunImmediate ==
  /\ In("immediates") /\ immediates # <<>>
  /\ immediates' = Tail(immediates)
  /\ IF Head(immediates).active
     THEN /\ stack' = Append(stack, User("immediate"))
          /\ ran' = Append(ran, Head(immediates).id)
     ELSE UNCHANGED <<stack, ran>>
  /\ UNCHANGED <<microtasks, draining, timers, idle_timers, handles, ops, set, cleared>>

EndImmediates ==
  /\ In("immediates") /\ immediates = <<>>
  /\ stack' = Below
  /\ UNCHANGED <<queues, draining, ops, history>>
-----------------------------------------------------------------------------
has_pending_immediates == \E k \in 1..Len(immediates) : immediates[k].active
WORK_BLOCKING == microtasks > 0 \/ has_pending_immediates
uv_loop_alive == timers + handles > 0

\* Mutant: all active timers are counted, not only the referenced ones.
PendingTimersAll == timers + idle_timers > 0

has_pending_timers == timers > 0

event_loop_alive == WORK_BLOCKING \/ has_pending_timers \/ uv_loop_alive

LoopCheck ==
  /\ At("check")
  /\ IF event_loop_alive THEN Goto("poll") ELSE Goto("final poll")
  /\ UNCHANGED <<queues, draining, ops, history>>

\* js_poll_events
PollImmediates ==
  /\ \/ At("poll") /\ stack' = Below \o <<Loop("microtasks"), Immediates>>
     \/ At("final poll") /\ stack' = Below \o <<Loop("final microtasks"), Immediates>>
  /\ UNCHANGED <<queues, draining, ops, history>>

PollMicrotasks ==
  /\ \/ At("microtasks") /\ process_microtasks(Append(Below, Loop("choose")))
     \/ At("final microtasks") /\ process_microtasks(Append(Below, Loop("beforeExit")))
  /\ UNCHANGED <<queues, ops, history>>

Choose ==
  /\ At("choose")
  /\ IF WORK_BLOCKING THEN Goto("nowait")
     ELSE IF has_pending_timers \/ uv_loop_alive THEN Goto("once")
     ELSE Goto("final poll")
  /\ UNCHANGED <<queues, draining, ops, history>>

\* uv_run: with UV_RUN_NOWAIT it runs the callbacks that are ready, if any; with
\* UV_RUN_ONCE it waits for one.  A loop that is not alive runs nothing.
InUv == At("nowait") \/ At("once") \/ At("uv")
FireTimer ==
  /\ InUv /\ uv_loop_alive
  /\ \/ timers > 0 /\ timers' = timers - 1 /\ UNCHANGED idle_timers
     \/ idle_timers > 0 /\ idle_timers' = idle_timers - 1 /\ UNCHANGED timers
  /\ stack' = Below \o <<Loop("uv"), User("timer")>>
  /\ UNCHANGED <<microtasks, draining, immediates, handles, ops, history>>

CompleteIO ==
  /\ InUv /\ handles > 0
  /\ handles' = handles - 1
  /\ stack' = Below \o <<Loop("uv"), User("io")>>
  /\ UNCHANGED <<microtasks, draining, immediates, timers, idle_timers, ops, history>>

UvReturns ==
  /\ At("nowait") \/ At("uv") \/ (At("once") /\ ~uv_loop_alive)
  /\ Goto("check")
  /\ UNCHANGED <<queues, draining, ops, history>>

\* emit_process_event(js, "beforeExit"), with or without a listener.
EmitBeforeExit ==
  /\ At("beforeExit")
  /\ \/ stack' = Below \o <<Loop("again"), User("beforeExit")>>
     \/ Goto("again")
  /\ UNCHANGED <<queues, draining, ops, history>>

\* Does the loop go on after the event?  Mutant: it does not.
NotAgain == FALSE
Again == event_loop_alive

LoopReturns ==
  /\ At("again")
  /\ IF Again THEN Goto("check") ELSE stack' = Below
  /\ UNCHANGED <<queues, draining, ops, history>>

UserStep == queue_microtask \/ js_set_immediate \/ js_clear_immediate \/ SetTimer
              \/ StartIO \/ LoadModule
RuntimeStep == UserReturns \/ TakeBatch \/ RunMicrotask \/ EndDrain \/ RunImmediate
                 \/ EndImmediates \/ LoopCheck \/ PollImmediates \/ PollMicrotasks
                 \/ Choose \/ FireTimer \/ CompleteIO \/ UvReturns \/ EmitBeforeExit
                 \/ LoopReturns
Done == stack = <<>> /\ UNCHANGED vars
Next == UserStep \/ RuntimeStep \/ Done

Spec == Init /\ [][Next]_vars

\* User code returns, libuv completes what was started, the runtime goes on.
FairSpec == Spec /\ WF_vars(RuntimeStep)
-----------------------------------------------------------------------------

\* Immediates run in the order they were set, each at most once, also when one of
\* them enters the loop again and the rest is run from there, and one that was
\* cleared before it ran does not run (process_immediates, js_clear_immediate).
ImmediatesInOrder ==
  /\ \A j, k \in 1..Len(ran) : j < k => ran[j] < ran[k]
  /\ \A k \in 1..Len(ran) : ran[k] \notin cleared

Macrotask(f) == f.kind = "user" /\ f.pc \in {"immediate", "timer", "io"}

\* The callback of a timer, of an immediate or of I/O finds no microtask waiting:
\* everything the callbacks before it queued has run (run to completion).  A loop
\* entered by user code is left out: what that code queued may have to wait.  And
\* a microtask never starts while another one is running, also when user code
\* enters the loop again in the middle of one (process_microtasks).
MicrotasksFirst ==
  /\ [](Depth("drain") <= 1 /\ (draining <=> Depth("drain") = 1))
  /\ [][(Depth("loop") = 1 /\ Len(stack') > Len(stack) /\ Macrotask(Top'))
       => microtasks = 0]_vars

\* The loop returns when nothing that keeps a process alive is left, also what a
\* beforeExit listener started.
ReturnsWhenIdle ==
  stack = <<>> => microtasks = 0 /\ ~has_pending_immediates /\ timers = 0 /\ handles = 0

\* User code entered the loop from a microtask, so that nothing drains the queue.
LoopInMicrotask ==
  \E j, k \in 1..Len(stack) : j < k /\ stack[j].kind = "drain" /\ stack[k].kind = "loop"

\* The loop returns in the end: it does not spin on work that it never gets to,
\* unless a module that awaits was loaded by a microtask and keeps it from ending.
LoopEnds == <>(stack = <<>>) \/ <>[]LoopInMicrotask
=============================================================================
