-------------------------- MODULE ThreadsafeFunction --------------------------
(***************************************************************************)
(* One thread-safe function of the Node-API layer (src/napi/async.c): native *)
(* threads queue calls under its mutex and wake the loop after releasing    *)
(* it; the loop's thread drains the queue one item per locked section and   *)
(* closes the uv_async handle when the function is closing and empty; the   *)
(* close callback runs the finaliser and frees the function.                *)
(*                                                                         *)
(* uv_async is external: sends made before the callback runs coalesce.  A   *)
(* thread uses the function only while it holds a reference and the         *)
(* function is not freed, the contract of the API.                          *)
(***************************************************************************)
EXTENDS Naturals, Sequences, FiniteSets

CONSTANTS
  Thread,     \* native threads
  MaxQueue,   \* max_queue_size, 0 for no limit
  MaxCalls    \* bound on the accepted calls

VARIABLES
  queue,          \* head .. tail: the numbers of the accepted calls
  thread_count,
  closing,
  aborted,
  handle,         \* the uv_async handle: "open", "closing" or "freed"
  signalled,      \* a send the loop has not seen yet
  loop,           \* the loop's thread: "idle", "drain" (inside
                  \* napi_tsfn_async_cb) or "call" (in the JS callback)
  holders,        \* threads that hold a reference
  sending,        \* threads between the unlock and uv_async_send
  made            \* calls made so far, the one in progress included

vars == <<queue, thread_count, closing, aborted, handle, signalled, loop,
          holders, sending, made>>
state == <<closing, aborted>>

\* napi_create_threadsafe_function: initial_thread_count references, at least 1.
Init ==
  /\ queue = <<>> /\ made = <<>>
  /\ holders \in SUBSET Thread \ {{}}
  /\ thread_count = Cardinality(holders)
  /\ closing = FALSE /\ aborted = FALSE
  /\ handle = "open" /\ signalled = FALSE /\ loop = "idle"
  /\ sending = {}

Total == Len(queue) + Len(made)
Usable(t) == t \in holders /\ t \notin sending /\ handle # "freed"
-----------------------------------------------------------------------------
\* napi_call_threadsafe_function: the section under the mutex.  Refused when
\* closing (napi_closing) or full (napi_queue_full).
Call(t) ==
  /\ Usable(t) /\ Total < MaxCalls
  /\ ~closing /\ ~aborted
  /\ MaxQueue > 0 => Len(queue) < MaxQueue
  /\ queue' = Append(queue, Total + 1)
  /\ sending' = sending \cup {t}
  /\ UNCHANGED <<thread_count, state, handle, signalled, loop, holders, made>>

\* uv_async_send, after the unlock; on a handle that is closing it does nothing.
Send(t) ==
  /\ t \in sending
  /\ sending' = sending \ {t}
  /\ signalled' = (signalled \/ handle = "open")
  /\ UNCHANGED <<queue, thread_count, state, handle, loop, holders, made>>

\* napi_release_threadsafe_function, the section under the mutex.
Release(t, abort) ==
  /\ Usable(t)
  /\ aborted' = (aborted \/ abort)
  /\ thread_count' = IF thread_count > 0 THEN thread_count - 1 ELSE 0
  /\ closing' = (closing \/ thread_count' = 0 \/ aborted')
  /\ holders' = holders \ {t}
  /\ sending' = sending \cup {t}
  /\ UNCHANGED <<queue, handle, signalled, loop, made>>

\* napi_acquire_threadsafe_function, of a function some thread holds.
Acquire(t) ==
  /\ t \notin holders /\ t \notin sending /\ holders # {} /\ handle # "freed"
  /\ ~closing
  /\ thread_count' = thread_count + 1
  /\ holders' = holders \cup {t}
  /\ UNCHANGED <<queue, state, handle, signalled, loop, sending, made>>
-----------------------------------------------------------------------------
\* libuv runs the callback of an open handle that was signalled.
Wake ==
  /\ loop = "idle" /\ signalled /\ handle = "open"
  /\ signalled' = FALSE /\ loop' = "drain"
  /\ UNCHANGED <<queue, thread_count, state, handle, holders, sending, made>>

\* napi_tsfn_async_cb, one turn of its loop: an item is taken and called ...
Take ==
  /\ loop = "drain" /\ queue # <<>>
  /\ made' = Append(made, Head(queue)) /\ queue' = Tail(queue)
  /\ loop' = "call"
  /\ UNCHANGED <<thread_count, state, handle, signalled, holders, sending>>

Called ==
  /\ loop = "call"
  /\ loop' = "drain"
  /\ UNCHANGED <<queue, thread_count, state, handle, signalled, holders, sending, made>>

\* Mutant: the handle is closed as soon as the function is closing.
FinishEarly ==
  /\ loop = "drain" /\ (queue = <<>> \/ closing)
  /\ loop' = "idle"
  /\ handle' = IF closing THEN "closing" ELSE handle
  /\ UNCHANGED <<queue, thread_count, state, signalled, holders, sending, made>>

\* ... or there is none, and napi_tsfn_maybe_finish closes a closing function.
Drained ==
  /\ loop = "drain" /\ queue = <<>>
  /\ loop' = "idle"
  /\ handle' = IF closing THEN "closing" ELSE handle
  /\ UNCHANGED <<queue, thread_count, state, signalled, holders, sending, made>>

\* napi_tsfn_close_cb: the finaliser, then free.
CloseCb ==
  /\ handle = "closing" /\ loop = "idle"
  /\ handle' = "freed"
  /\ UNCHANGED <<queue, thread_count, state, signalled, loop, holders,
                 sending, made>>

Next ==
  \/ \E t \in Thread : Call(t) \/ Send(t) \/ Acquire(t)
  \/ \E t \in Thread, abort \in BOOLEAN : Release(t, abort)
  \/ Wake \/ Take \/ Called \/ Drained \/ CloseCb

Spec == Init /\ [][Next]_vars
\* A thread that unlocked goes on to send; the loop runs.  No thread has to
\* call or to release.
Fairness ==
  /\ \A t \in Thread : WF_vars(Send(t))
  /\ WF_vars(Wake \/ Take \/ Called \/ Drained)
  /\ WF_vars(CloseCb)
FairSpec == Spec /\ Fairness
-----------------------------------------------------------------------------
\* The state that a step never leaves: napi_tsfn_maybe_finish closes the handle
\* only of a function that accepts no calls and has made them all, and only the
\* callback of an open handle drains.
ClosesWhenDrained ==
  /\ closing \in BOOLEAN
  /\ handle # "open" => closing /\ queue = <<>>
  /\ loop # "idle" => handle = "open"

\* The flags and the handle as the state of the channel that a user sees.
Phase == IF handle = "freed" THEN "final" ELSE IF closing THEN "closed" ELSE "open"

\* A call is accepted at the unlock and made when the loop takes it.
Channel == INSTANCE CallChannel WITH waiting <- queue, phase <- Phase
=============================================================================
