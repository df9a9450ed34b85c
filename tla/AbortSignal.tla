----------------------------- MODULE AbortSignal ------------------------------
(***************************************************************************)
(* AbortSignal and AbortController (src/modules/abort.c).  Aborting a      *)
(* signal marks it and every signal that follows it, and only then calls   *)
(* their handlers, one signal after the other.  A handler is script: it    *)
(* may add and remove listeners, abort other signals and make new ones     *)
(* while the array that holds it is being walked.  A dispatch under way is *)
(* a frame of `stack`; the reason is the signal the abort began at.        *)
(***************************************************************************)
EXTENDS Naturals, Sequences, FiniteSets, SequencesExt

CONSTANTS
    Signal, Callback,
    MaxListeners,    \* bound: registrations
    MaxRemovals      \* bound: calls of removeEventListener

VARIABLES
    made,            \* the signals that exist
    armed,           \* those of AbortSignal.timeout whose timer is running
    reason,          \* [Signal -> the reason, or {} while not aborted]
    listeners,       \* [Signal -> Seq([id, callback, once])]
    followers,       \* [Signal -> Seq(Signal)]
    stack,           \* Seq([fire, i, begun, running])
    sources,         \* ghost: what a dependent signal was made from
    added,           \* ghost: registrations, numbered
    called,          \* ghost: the numbers in the order they were called
    removed,         \* ghost: the numbers that were taken away
    shifted          \* ghost: signals whose array lost, while it was walked,
                     \* a listener that the walk had passed

vars == <<made, armed, reason, listeners, followers, stack, sources, added,
          called, removed, shifted>>
graph == <<made, armed, reason, followers, sources>>
table == <<listeners, added, removed, shifted>>

aborted(s) == reason[s] # {}

Init ==
    /\ made = {} /\ armed = {} /\ stack = <<>>
    /\ reason = [s \in Signal |-> {}]
    /\ listeners = [s \in Signal |-> <<>>]
    /\ followers = [s \in Signal |-> <<>>]
    /\ sources = [s \in Signal |-> {}]
    /\ added = 0 /\ called = <<>> /\ removed = {} /\ shifted = {}

Top == stack[Len(stack)]
(* Script runs at top level or in a callback. *)
Script == stack # <<>> => Top.running
Frame(fire, running) ==
    [fire |-> fire, i |-> 0, begun |-> FALSE, running |-> running]
SetTop(f) == stack' = [stack EXCEPT ![Len(stack)] = f]

-----------------------------------------------------------------------------
(* The walk of signal_do_abort over followers, breadth first. *)
RECURSIVE Reached(_, _)
Reached(queue, fire) ==
    IF queue = <<>> THEN fire
    ELSE LET cur == Head(queue)
         IN  IF aborted(cur) \/ cur \in ToSet(fire)
             THEN Reached(Tail(queue), fire)
             ELSE Reached(Tail(queue) \o followers[cur], Append(fire, cur))

(* An abort that leaves the followers to be marked when they are fired. *)
signal_do_abort_one(s) ==
    IF aborted(s) THEN UNCHANGED <<reason, stack>>
    ELSE /\ reason' = [reason EXCEPT ![s] = {s}]
         /\ stack' = Append(stack, Frame(Reached(<<s>>, <<>>), FALSE))

signal_do_abort(s) ==
    IF aborted(s) THEN UNCHANGED <<reason, stack>>
    ELSE LET fire == Reached(<<s>>, <<>>)
         IN  /\ reason' = [f \in Signal |->
                    IF f \in ToSet(fire) THEN {s} ELSE reason[f]]
             /\ stack' = Append(stack, Frame(fire, FALSE))

(* new AbortController, AbortSignal.timeout, AbortSignal.abort *)
NewSignal(s) ==
    /\ Script /\ s \notin made /\ made' = made \cup {s}
    /\ \/ UNCHANGED <<armed, reason>>
       \/ armed' = armed \cup {s} /\ UNCHANGED reason
       \/ reason' = [reason EXCEPT ![s] = {s}] /\ UNCHANGED armed
    /\ UNCHANGED <<followers, sources, stack, table, called>>

(* AbortSignal.any, and abort_signal_create_dependent for one source *)
AnyOf(s, from) ==
    /\ Script /\ s \notin made /\ made' = made \cup {s}
    /\ sources' = [sources EXCEPT ![s] = ToSet(from)]
    /\ LET done == SelectSeq(from, aborted)
       IN  IF done # <<>>
           THEN /\ reason' = [reason EXCEPT ![s] = reason[Head(done)]]
                /\ UNCHANGED followers
           ELSE /\ followers' = [f \in Signal |->
                       IF f \in ToSet(from) THEN Append(followers[f], s)
                       ELSE followers[f]]
                /\ UNCHANGED reason
    /\ UNCHANGED <<armed, stack, table, called>>

(* controller.abort and signal.dispatchEvent *)
Abort(s) ==
    /\ Script /\ s \in made
    /\ signal_do_abort(s)
    /\ UNCHANGED <<made, armed, followers, sources, table, called>>

(* abort_timeout_fire_cb, called by the event loop *)
TimeoutFires(s) ==
    /\ stack = <<>> /\ s \in armed /\ armed' = armed \ {s}
    /\ signal_do_abort(s)
    /\ UNCHANGED <<made, followers, sources, table, called>>

-----------------------------------------------------------------------------
Register(s, cb, once) ==
    /\ listeners' = [listeners EXCEPT
            ![s] = Append(@, [id |-> added + 1, callback |-> cb, once |-> once])]
    /\ added' = added + 1

abort_signal_add_event_listener(s, cb, once) ==
    /\ Script /\ s \in made /\ added < MaxListeners
    /\ ~aborted(s)
    /\ \A i \in DOMAIN listeners[s] :
          ~ (listeners[s][i].callback = cb /\ listeners[s][i].once = once)
    /\ Register(s, cb, once)
    /\ UNCHANGED <<graph, stack, called, removed, shifted>>

(* For the runtime's own callbacks: called at once when it is too late. *)
abort_signal_add_listener(s, cb) ==
    /\ Script /\ s \in made /\ added < MaxListeners
    /\ \/ /\ ~aborted(s) /\ Register(s, cb, FALSE)
          /\ UNCHANGED <<stack, called>>
       \/ /\ aborted(s) /\ added' = added + 1 /\ called' = Append(called, added + 1)
          /\ stack' = Append(stack, Frame(<<>>, TRUE))
          /\ UNCHANGED listeners
    /\ UNCHANGED <<graph, removed, shifted>>

abort_signal_remove_event_listener(s, cb) ==
    /\ Script /\ Cardinality(removed) < MaxRemovals
    /\ \E i \in DOMAIN listeners[s] :
         /\ listeners[s][i].callback = cb
         /\ \A j \in 1 .. i - 1 : listeners[s][j].callback # cb
         /\ listeners' = [listeners EXCEPT ![s] = RemoveAt(@, i)]
         /\ removed' = removed \cup {listeners[s][i].id}
         /\ shifted' = IF \E k \in DOMAIN stack : /\ stack[k].fire # <<>>
                                                  /\ Head(stack[k].fire) = s
                                                  /\ i <= stack[k].i
                       THEN shifted \cup {s} ELSE shifted
    /\ UNCHANGED <<graph, stack, added, called>>

-----------------------------------------------------------------------------
(* The handler loop of signal_do_abort: the onabort property first. *)
OnAbort ==
    /\ stack # <<>> /\ ~Top.running /\ Top.fire # <<>> /\ ~Top.begun
    /\ \E set \in BOOLEAN : SetTop([Top EXCEPT !.begun = TRUE, !.running = set])
    /\ UNCHANGED <<graph, table, called>>

(* An entry for one call is taken out and the index moves on as well. *)
CallListenerSkips ==
    /\ stack # <<>> /\ ~Top.running /\ Top.fire # <<>> /\ Top.begun
    /\ LET s == Head(Top.fire)
           entry == listeners[s][Top.i + 1]
       IN  /\ Top.i < Len(listeners[s])
           /\ listeners' = IF entry.once
                           THEN [listeners EXCEPT ![s] = RemoveAt(@, Top.i + 1)]
                           ELSE listeners
           /\ called' = Append(called, entry.id)
           /\ SetTop([Top EXCEPT !.running = TRUE, !.i = @ + 1])
    /\ UNCHANGED <<graph, added, removed, shifted>>

(* An entry for one call leaves the array before it is called. *)
CallListener ==
    /\ stack # <<>> /\ ~Top.running /\ Top.fire # <<>> /\ Top.begun
    /\ LET s == Head(Top.fire)
           entry == listeners[s][Top.i + 1]
       IN  /\ Top.i < Len(listeners[s])
           /\ listeners' = IF entry.once
                           THEN [listeners EXCEPT ![s] = RemoveAt(@, Top.i + 1)]
                           ELSE listeners
           /\ called' = Append(called, entry.id)
           /\ SetTop([Top EXCEPT !.running = TRUE,
                                 !.i = IF entry.once THEN @ ELSE @ + 1])
    /\ UNCHANGED <<graph, added, removed, shifted>>

NextSignal ==
    /\ stack # <<>> /\ ~Top.running /\ Top.fire # <<>> /\ Top.begun
    /\ Top.i >= Len(listeners[Head(Top.fire)])
    /\ SetTop(Frame(Tail(Top.fire), FALSE))
    /\ UNCHANGED <<graph, table, called>>

CallbackReturns ==
    /\ stack # <<>> /\ Top.running /\ SetTop([Top EXCEPT !.running = FALSE])
    /\ UNCHANGED <<graph, table, called>>

DispatchEnds ==
    /\ stack # <<>> /\ ~Top.running /\ Top.fire = <<>>
    /\ stack' = Front(stack)
    /\ UNCHANGED <<graph, table, called>>

Next ==
    \/ \E s \in Signal : NewSignal(s) \/ Abort(s) \/ TimeoutFires(s)
    \/ \E s \in Signal, a, b \in made : AnyOf(s, <<a>>) \/ (a # b /\ AnyOf(s, <<a, b>>))
    \/ \E s \in Signal, cb \in Callback :
          \/ \E once \in BOOLEAN : abort_signal_add_event_listener(s, cb, once)
          \/ abort_signal_add_listener(s, cb)
          \/ abort_signal_remove_event_listener(s, cb)
    \/ OnAbort \/ CallListener \/ NextSignal \/ CallbackReturns \/ DispatchEnds

Spec == Init /\ [][Next]_vars

-----------------------------------------------------------------------------
(* A signal made from others is aborted as soon as one of them is, before  *)
(* any handler runs, with the reason of one of them unless it was aborted  *)
(* by itself, and for the same reason as long as it lives.                 *)
DependentFollows ==
    /\ \A s \in made : /\ (\E a \in sources[s] : aborted(a)) => aborted(s)
                       /\ aborted(s) => \/ reason[s] = {s}
                                        \/ \E a \in sources[s] : reason[s] = reason[a]
    /\ \A k \in DOMAIN stack : \A s \in ToSet(stack[k].fire) : aborted(s)

(* No registration is called twice, whatever the handlers do to the array  *)
(* while it is walked; and once no dispatch is under way every listener of *)
(* an aborted signal has been called or was taken away, unless a handler   *)
(* took away one that had been called, which moves the rest up under the   *)
(* index.                                                                  *)
HeardExactlyOnce ==
    /\ IsInjective(called)
    /\ stack = <<>> =>
          \A id \in 1 .. added :
              \/ id \in ToSet(called) \cup removed
              \/ \E s \in Signal : /\ ~aborted(s) \/ s \in shifted
                                   /\ \E i \in DOMAIN listeners[s] :
                                        listeners[s][i].id = id
=============================================================================
