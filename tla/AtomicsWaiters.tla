---------------------------- MODULE AtomicsWaiters ----------------------------
(***************************************************************************)
(* Atomics.waitAsync and Atomics.notify (src/modules/atomics.c): a waiter   *)
(* has a promise, a place in one list, a uv_async handle through which it   *)
(* is settled and, with a timeout, a timer handle.  A notify and the timer  *)
(* both unlink the waiter and record how it is settled; the async callback  *)
(* settles the promise and closes the handles, whose last close callback    *)
(* frees the entry.                                                         *)
(*                                                                         *)
(* Everything runs on the loop's thread.  libuv is external: a started timer *)
(* fires, a sent async is called back, both unless the handle was closed.   *)
(***************************************************************************)
EXTENDS Naturals, Sequences, FiniteSets

CONSTANTS
  Waiter,   \* entries
  Address,  \* addresses waited on
  None,     \* no address
  MaxNotify \* bound on the calls of notify

VARIABLES
  waiters,    \* async_waiters_head ..., the newest first
  address,    \* of each entry, None before waitAsync
  settle_state, \* "none", "ok" or "timed-out"
  sent,       \* entries with a pending uv_async_send
  open,       \* per entry, the handles open: a subset of {"async", "timer"}
  closing,    \* per entry, the handles waiting for their close callback
  pending_handles,
  promise,    \* "none", "pending", "ok" or "timed-out"
  memory,     \* "none", "live" or "freed"
  notified,   \* the sum of what notify returned
  calls

vars == <<waiters, address, settle_state, sent, open, closing, pending_handles,
          promise, memory, notified, calls>>

Init ==
  /\ waiters = <<>> /\ sent = {} /\ notified = 0 /\ calls = 0
  /\ address = [e \in Waiter |-> None]
  /\ settle_state = [e \in Waiter |-> "none"]
  /\ open = [e \in Waiter |-> {}] /\ closing = [e \in Waiter |-> {}]
  /\ pending_handles = [e \in Waiter |-> 0]
  /\ promise = [e \in Waiter |-> "none"]
  /\ memory = [e \in Waiter |-> "none"]
-----------------------------------------------------------------------------
\* js_atomics_waitAsync of a value that is equal, with or without a timeout.
js_atomics_waitAsync(e, a, timeout) ==
  /\ memory[e] = "none"
  /\ memory' = [memory EXCEPT ![e] = "live"]
  /\ address' = [address EXCEPT ![e] = a]
  /\ promise' = [promise EXCEPT ![e] = "pending"]
  /\ open' = [open EXCEPT ![e] = IF timeout THEN {"async", "timer"} ELSE {"async"}]
  /\ pending_handles' = [pending_handles EXCEPT ![e] = IF timeout THEN 2 ELSE 1]
  /\ waiters' = <<e>> \o waiters
  /\ UNCHANGED <<settle_state, sent, closing, notified, calls>>

\* async_waiter_is_linked_locked
Linked(e) == \E i \in DOMAIN waiters : waiters[i] = e

\* async_waiter_remove_locked of the entries of W: the others keep their order.
async_waiter_remove(W) ==
  LET kept == {i \in DOMAIN waiters : waiters[i] \notin W} IN
  \E f \in [1..Cardinality(kept) -> kept] :
    /\ \A j, k \in DOMAIN f : j < k => f[j] < f[k]
    /\ waiters' = [k \in DOMAIN f |-> waiters[f[k]]]

\* js_atomics_notify, wait_queue_notify and async_waiter_notify: the first count
\* entries of the address are unlinked and settled.
Chosen(a, count) ==
  {i \in DOMAIN waiters :
     /\ address[waiters[i]] = a
     /\ Cardinality({j \in 1..(i - 1) : address[waiters[j]] = a}) < count}

js_atomics_notify(a, count) ==
  LET woken == {waiters[i] : i \in Chosen(a, count)} IN
  /\ calls < MaxNotify /\ calls' = calls + 1
  /\ async_waiter_remove(woken)
  /\ settle_state' = [e \in Waiter |-> IF e \in woken THEN "ok" ELSE settle_state[e]]
  /\ sent' = sent \cup woken
  /\ notified' = notified + Cardinality(woken)
  /\ UNCHANGED <<address, open, closing, pending_handles, promise, memory>>

\* Mutant: the list is not looked at.
timeout_unlinked(e) ==
  /\ "timer" \in open[e] /\ memory[e] = "live"
  /\ async_waiter_remove({e})
  /\ settle_state' = [settle_state EXCEPT ![e] = "timed-out"]
  /\ sent' = sent \cup {e}
  /\ UNCHANGED <<address, open, closing, pending_handles, promise, memory,
                 notified, calls>>

\* async_waiter_timeout_cb: the timer of an entry that was notified since it
\* was started is too late.
async_waiter_timeout_cb(e) ==
  /\ "timer" \in open[e] /\ Linked(e)
  /\ async_waiter_remove({e})
  /\ settle_state' = [settle_state EXCEPT ![e] = "timed-out"]
  /\ sent' = sent \cup {e}
  /\ UNCHANGED <<address, open, closing, pending_handles, promise, memory,
                 notified, calls>>

\* async_waiter_async_cb with async_waiter_close_handles.
async_waiter_async_cb(e) ==
  /\ e \in sent /\ "async" \in open[e]
  /\ sent' = sent \ {e}
  /\ promise' = [promise EXCEPT ![e] = settle_state[e]]
  /\ settle_state' = [settle_state EXCEPT ![e] = "none"]
  /\ closing' = [closing EXCEPT ![e] = open[e]]
  /\ open' = [open EXCEPT ![e] = {}]
  /\ UNCHANGED <<waiters, address, pending_handles, memory, notified, calls>>

\* Mutant: the first handle that has closed frees the entry.
close_cb_frees_first(e, h) ==
  /\ h \in closing[e]
  /\ closing' = [closing EXCEPT ![e] = @ \ {h}]
  /\ pending_handles' = [pending_handles EXCEPT ![e] = @ - 1]
  /\ memory' = [memory EXCEPT ![e] = "freed"]
  /\ UNCHANGED <<waiters, address, settle_state, sent, open, promise, notified, calls>>

\* async_waiter_close_cb with async_waiter_release_handle.
async_waiter_close_cb(e, h) ==
  /\ h \in closing[e]
  /\ closing' = [closing EXCEPT ![e] = @ \ {h}]
  /\ pending_handles' = [pending_handles EXCEPT ![e] = @ - 1]
  /\ memory' = [memory EXCEPT ![e] = IF pending_handles[e] = 1 THEN "freed" ELSE @]
  /\ UNCHANGED <<waiters, address, settle_state, sent, open, promise, notified, calls>>

Next ==
  \/ \E e \in Waiter, a \in Address, t \in BOOLEAN : js_atomics_waitAsync(e, a, t)
  \/ \E a \in Address, count \in 0..Cardinality(Waiter) : js_atomics_notify(a, count)
  \/ \E e \in Waiter : async_waiter_timeout_cb(e) \/ async_waiter_async_cb(e)
  \/ \E e \in Waiter, h \in {"async", "timer"} : async_waiter_close_cb(e, h)

Spec == Init /\ [][Next]_vars
\* The loop runs.
Fairness ==
  \A e \in Waiter :
    /\ WF_vars(async_waiter_timeout_cb(e)) /\ WF_vars(async_waiter_async_cb(e))
    /\ \A h \in {"async", "timer"} : WF_vars(async_waiter_close_cb(e, h))
FairSpec == Spec /\ Fairness
-----------------------------------------------------------------------------

\* A waiter is answered once, and as often as notify said: what the calls of
\* notify returned is the number of waiters settled, or about to be, with "ok".
NotifyCountExact ==
  notified = Cardinality({e \in Waiter : promise[e] = "ok" \/ settle_state[e] = "ok"})

\* An entry's memory is freed when its last handle has closed and not before,
\* and by then it is off the list and its promise is settled.
FreedAfterHandles ==
  \A e \in Waiter :
    /\ memory[e] = "live" <=> open[e] \cup closing[e] # {}
    /\ memory[e] = "freed" => ~Linked(e) /\ e \notin sent
                              /\ promise[e] \in {"ok", "timed-out"}
    /\ pending_handles[e] = Cardinality(open[e] \cup closing[e])

\* A waiter with a timeout, or one that was notified, that is not freed yet.
Waiting ==
  \E e \in Waiter : \/ "timer" \in open[e] \/ settle_state[e] # "none"
                     \/ closing[e] # {}
=============================================================================
