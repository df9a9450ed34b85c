----------------------------- MODULE HandlerList -----------------------------
(***************************************************************************)
(* The reaction list of one promise (ant_promise_state_t, include/object.h) *)
(* and the job that runs it (js_process_promise_handlers, src/ant.c).  One *)
(* reaction is kept inline; from the second on they live in an array; a    *)
(* 16-bit counter says how many there are.  A batch of one is copied out   *)
(* and the list cleared before its callback runs; a longer batch is run in *)
(* place and its prefix discarded afterwards.  The callbacks are user code *)
(* and may attach to the same promise.                                     *)
(*                                                                         *)
(* A reaction is the number of its attachment; Dead is an await            *)
(* registration whose coroutine pointer has been cleared.                  *)
(***************************************************************************)
EXTENDS Naturals, Sequences

CONSTANTS
  MaxHandlers,  \* bound on the number of reactions ever attached
  Awaits,       \* the reactions that are await registrations
  CountMod      \* handler_count is computed modulo this: 2^16 in object.h

ASSUME ListAssumption ==
  /\ MaxHandlers \in Nat
  /\ Awaits \subseteq 1..MaxHandlers
  /\ CountMod \in Nat /\ CountMod > 2

Dead == 0

VARIABLES
  state,              \* 0 pending, 1 fulfilled, 2 rejected
  handler_count,
  inline_handler,
  handlers,
  trigger_queued,     \* an MT_PROMISE_TRIGGER entry for it is in the queue
  gc_pending_rooted,  \* on js->pending_promises, a list of GC roots
  attached,           \* number of reactions attached so far
  pc, len, i,         \* control point and locals of js_process_promise_handlers
  inline_batch,
  batch_handler,      \* the local copy of the inline reaction
  current,            \* the reaction whose callback is running, or 0
  ran,                \* the reactions that have run, in order
  withdrawn           \* await registrations cleared before they ran

storage == <<handler_count, inline_handler, handlers>>
locals == <<len, i, inline_batch, batch_handler>>
history == <<ran, withdrawn>>
vars == <<state, storage, trigger_queued, gc_pending_rooted, attached, pc,
          locals, current, history>>

Handler == 0..MaxHandlers
-----------------------------------------------------------------------------
(* The storage operations, as functions of the three fields.               *)

\* Mutant: the reaction goes in front of those in the array.
append_in_front(h) ==
  IF handler_count = 0
  THEN inline_handler' = h /\ handler_count' = 1 /\ UNCHANGED handlers
  ELSE /\ handlers' = <<h>> \o (IF handler_count = 1 THEN <<inline_handler>> ELSE handlers)
       /\ handler_count' = (handler_count + 1) % CountMod
       /\ UNCHANGED inline_handler

promise_handler_append(h) ==
  IF handler_count = 0
  THEN /\ inline_handler' = h
       /\ handler_count' = 1
       /\ UNCHANGED handlers
  ELSE /\ handlers' = IF handler_count = 1
                      THEN handlers \o <<inline_handler, h>>
                      ELSE Append(handlers, h)
       /\ handler_count' = (handler_count + 1) % CountMod
       /\ UNCHANGED inline_handler

\* NULL when the index is past the end, as an empty set of reactions.
promise_handler_at(k) ==
  IF k >= handler_count THEN {}
  ELSE IF handler_count = 1 THEN {inline_handler}
  ELSE IF k < Len(handlers) THEN {handlers[k + 1]}
  ELSE {}

promise_handlers_clear ==
  /\ handler_count' = 0
  /\ inline_handler' = Dead
  /\ handlers' = <<>>

promise_handlers_discard_processed_prefix(count) ==
  IF count = handler_count
  THEN promise_handlers_clear
  ELSE LET rest == SubSeq(handlers, count + 1, Len(handlers))
       IN /\ handler_count' = (handler_count + CountMod - count) % CountMod
          /\ IF handler_count' = 1
             THEN inline_handler' = rest[1] /\ handlers' = <<>>
             ELSE inline_handler' = Dead /\ handlers' = rest

Clear(h, c) == IF h = c THEN Dead ELSE h

js_promise_clear_await_coroutine(c) ==
  /\ inline_handler' = IF handler_count = 1 THEN Clear(inline_handler, c)
                       ELSE inline_handler
  /\ handlers' = IF handler_count > 1
                 THEN [k \in DOMAIN handlers |-> Clear(handlers[k], c)]
                 ELSE handlers
  /\ UNCHANGED handler_count
-----------------------------------------------------------------------------
Init ==
  /\ state = 0
  /\ handler_count = 0 /\ inline_handler = Dead /\ handlers = <<>>
  /\ trigger_queued = FALSE
  /\ gc_pending_rooted = FALSE
  /\ attached = 0
  /\ pc = "idle" /\ len = 0 /\ i = 0
  /\ inline_batch = FALSE /\ batch_handler = Dead
  /\ current = 0
  /\ ran = <<>>
  /\ withdrawn = {}

\* User code runs between jobs and inside the callback of a reaction.
UserCode == pc \in {"idle", "call"}

\* Mutants of the step below: a settled promise is not queued again, a pending
\* one is not rooted.
TriggerForgotten ==
  /\ gc_pending_rooted' = (gc_pending_rooted \/ state = 0)
  /\ UNCHANGED trigger_queued

RootForgotten ==
  /\ trigger_queued' = (trigger_queued \/ state # 0)
  /\ UNCHANGED gc_pending_rooted

\* What follows an attachment: a pending promise becomes a GC root
\* (gc_root_pending_promise), a settled one is queued (queue_promise_trigger).
RootOrTrigger ==
  IF state = 0
  THEN gc_pending_rooted' = TRUE /\ UNCHANGED trigger_queued
  ELSE trigger_queued' = TRUE /\ UNCHANGED gc_pending_rooted

\* then(), an await or the adoption by another promise.
AttachHandler ==
  /\ UserCode
  /\ attached < MaxHandlers
  /\ attached' = attached + 1
  /\ promise_handler_append(attached + 1)
  /\ RootOrTrigger
  /\ UNCHANGED <<state, pc, locals, current, history>>

\* Fulfilment queues the job only when there is something to run.
js_resolve_promise ==
  /\ UserCode
  /\ state = 0
  /\ state' = 1
  /\ trigger_queued' = (trigger_queued \/ handler_count # 0)
  /\ UNCHANGED <<storage, gc_pending_rooted, attached, pc, locals, current,
                 history>>

js_reject_promise ==
  /\ UserCode
  /\ state = 0
  /\ state' = 2
  /\ trigger_queued' = TRUE
  /\ UNCHANGED <<storage, gc_pending_rooted, attached, pc, locals, current,
                 history>>

\* coroutine_clear_await_registration of a coroutine that still waits here.
CancelAwait(c) ==
  /\ UserCode
  /\ c \in 1..attached
  /\ c \notin withdrawn /\ \A k \in DOMAIN ran : ran[k] # c
  /\ js_promise_clear_await_coroutine(c)
  /\ withdrawn' = withdrawn \cup {c}
  /\ UNCHANGED <<state, trigger_queued, gc_pending_rooted, attached, pc,
                 locals, current, ran>>

\* process_microtask_entry takes the trigger out of the queue; an empty list
\* is left alone, a list of one is copied and cleared.
BeginBatch ==
  /\ pc = "idle"
  /\ trigger_queued
  /\ trigger_queued' = FALSE
  /\ IF handler_count = 0
     THEN UNCHANGED <<storage, gc_pending_rooted, pc, locals>>
     ELSE /\ len' = handler_count
          /\ i' = 0
          /\ inline_batch' = (handler_count = 1)
          /\ IF handler_count = 1
             THEN batch_handler' = inline_handler /\ promise_handlers_clear
             ELSE batch_handler' = Dead /\ UNCHANGED storage
          /\ gc_pending_rooted' = TRUE
          /\ pc' = "loop"
  /\ UNCHANGED <<state, attached, current, history>>

\* The reaction found, unless there is none or its coroutine was cleared.
LiveHandler(found) == found \ {Dead}

\* One turn of the loop: a missing or dead reaction is passed over, another
\* one is called.  An await registration is cleared where it is stored.
RunHandler ==
  /\ pc = "loop"
  /\ i < len
  /\ i' = i + 1
  /\ LET found == LiveHandler(IF inline_batch THEN {batch_handler}
                              ELSE promise_handler_at(i))
     IN IF found = {}
        THEN UNCHANGED <<storage, pc, current, ran, batch_handler>>
        ELSE LET h == CHOOSE g \in found : TRUE
             IN /\ pc' = "call"
                /\ current' = h
                /\ ran' = Append(ran, h)
                /\ batch_handler' =
                     IF inline_batch /\ h \in Awaits THEN Dead ELSE batch_handler
                /\ IF ~inline_batch /\ h \in Awaits
                   THEN js_promise_clear_await_coroutine(h)
                   ELSE UNCHANGED storage
  /\ UNCHANGED <<state, trigger_queued, gc_pending_rooted, attached, len,
                 inline_batch, withdrawn>>

ReturnFromHandler ==
  /\ pc = "call"
  /\ pc' = "loop"
  /\ current' = 0
  /\ UNCHANGED <<state, storage, trigger_queued, gc_pending_rooted, attached,
                 locals, history>>

gc_unroot_pending_promise == gc_pending_rooted' = FALSE

EndBatch ==
  /\ pc = "loop"
  /\ i = len
  /\ pc' = "idle"
  /\ gc_unroot_pending_promise
  /\ IF inline_batch
     THEN UNCHANGED storage
     ELSE promise_handlers_discard_processed_prefix(len)
  /\ len' = 0 /\ i' = 0 /\ inline_batch' = FALSE /\ batch_handler' = Dead
  /\ UNCHANGED <<state, trigger_queued, attached, current, history>>

Next ==
  \/ AttachHandler
  \/ js_resolve_promise
  \/ js_reject_promise
  \/ \E c \in Awaits : CancelAwait(c)
  \/ BeginBatch
  \/ RunHandler
  \/ ReturnFromHandler
  \/ EndBatch

\* The drain loop of timer.c runs until the queue is empty and a callback
\* returns, so the steps of the job are not put off for ever.
Fairness ==
  /\ WF_vars(BeginBatch)
  /\ WF_vars(RunHandler)
  /\ WF_vars(ReturnFromHandler)
  /\ WF_vars(EndBatch)

Spec == Init /\ [][Next]_vars /\ Fairness
-----------------------------------------------------------------------------
\* The first reaction in the list that the batch being run has not looked at.
FirstUnread == IF pc # "idle" /\ ~inline_batch THEN i ELSE 0

\* What the job still has to look at, in the list and in its copy.
Unread ==
  (UNION {promise_handler_at(k) : k \in FirstUnread..handler_count})
    \cup (IF pc # "idle" /\ inline_batch /\ i = 0 THEN {batch_handler} ELSE {})

HQ == INSTANCE HandlerQueue WITH settled <- state # 0, waiting <- LiveHandler(Unread)

\* Every field keeps the type its C declaration gives it.
FlagsOK ==
  /\ trigger_queued \in BOOLEAN
  /\ gc_pending_rooted \in BOOLEAN
  /\ inline_batch \in BOOLEAN

TypeOK ==
  /\ state \in 0..2
  /\ handler_count \in 0..(CountMod - 1)
  /\ inline_handler \in Handler
  /\ handlers \in Seq(Handler)
  /\ attached \in Handler
  /\ pc \in {"idle", "loop", "call"}
  /\ len \in 0..(CountMod - 1) /\ i \in 0..(CountMod - 1)
  /\ batch_handler \in Handler
  /\ current \in Handler
  /\ ran \in Seq(1..MaxHandlers)
  /\ withdrawn \subseteq Awaits
  /\ FlagsOK

\* The storage behaves as a queue: reactions run once each, in the order of
\* attachment, only after settlement, also those attached by a callback of the
\* batch being run, and each one does run
\* (docs/exec-plans/completed/promise-resolution-semantics.md: "Preserve
\* handlers appended during Promise callback or coroutine reentrancy").
RunsLikeAQueue == HQ!Spec

\* There is a reaction that the batch being run, if any, does not include.
OutsideBatch ==
  IF pc # "idle" /\ ~inline_batch THEN handler_count > len ELSE handler_count # 0

\* A settled promise with reactions left has a job queued to run them, also
\* when they were attached by a callback of the batch in progress.
SettledIsScheduled ==
  state # 0 /\ OutsideBatch => trigger_queued

\* Reactions keep their promise alive: it is a GC root or in the job queue
\* (gc_root_pending_promise, gc_mark_timers) ...
WaitingIsReachable ==
  handler_count # 0 => gc_pending_rooted \/ trigger_queued

\* ... and once it is settled and its reactions have run it is no root.
RootIsTemporary ==
  gc_pending_rooted => state = 0 \/ trigger_queued \/ pc # "idle"

\* ANT_ASSERT(count <= total, "invalid Promise handler prefix").
PrefixInRange ==
  pc # "idle" /\ ~inline_batch => len <= handler_count
=============================================================================
