-------------------------------- MODULE Timers --------------------------------
(***************************************************************************)
(* setTimeout and setInterval timers (src/modules/timer.c): the list of     *)
(* entries, the libuv handle inside each, the Timeout object that scripts   *)
(* hold and the collector finalises, and the two counters the event loop    *)
(* asks whether a timer is pending.                                        *)
(*                                                                         *)
(* User code calls in at any point, also from a timer's own callback.  libuv *)
(* and the collector are external: a started timer may fire, a closing      *)
(* handle gets its close callback outside of other callbacks, an            *)
(* unreachable object is finalised.                                        *)
(***************************************************************************)
EXTENDS Integers, FiniteSets

CONSTANTS
  Timer,    \* entries, in the role of their ids
  MaxOps,   \* bound on the calls of user code
  None      \* no timer

ASSUME TimerAssumption == IsFiniteSet(Timer) /\ None \notin Timer
ASSUME MaxOpsAssumption == MaxOps \in Nat

VARIABLES
  phase,        \* of the entry: "unused", "live", "closing" or "freed"
  is_interval,
  active,       \* entry->active
  callback,     \* is entry->callback (and its arguments) kept?
  armed,        \* libuv: the handle is started
  refed,        \* libuv: uv_has_ref
  obj,          \* the Timeout object: "none", "held" by user code, "dropped"
                \* or "collected"
  running,      \* the timer whose callback is being called
  active_timer_count,
  active_refed_timer_count,
  ops

vars == <<phase, is_interval, active, callback, armed, refed, obj, running,
          active_timer_count, active_refed_timer_count, ops>>
counts == <<active_timer_count, active_refed_timer_count>>

Init ==
  /\ phase = [t \in Timer |-> "unused"]
  /\ is_interval = [t \in Timer |-> FALSE]
  /\ active = [t \in Timer |-> FALSE]
  /\ callback = [t \in Timer |-> FALSE]
  /\ armed = [t \in Timer |-> FALSE]
  /\ refed = [t \in Timer |-> FALSE]
  /\ obj = [t \in Timer |-> "none"]
  /\ running = None
  /\ active_timer_count = 0
  /\ active_refed_timer_count = 0
  /\ ops = 0

UserCall == ops < MaxOps /\ ops' = ops + 1
Listed(t) == phase[t] \in {"live", "closing"}   \* found by its id
Refs(t) == IF refed[t] THEN 1 ELSE 0
-----------------------------------------------------------------------------
\* js_set_timeout and js_set_interval.
SetTimer(t, interval) ==
  /\ UserCall
  /\ phase[t] = "unused"
  /\ phase' = [phase EXCEPT ![t] = "live"]
  /\ is_interval' = [is_interval EXCEPT ![t] = interval]
  /\ active' = [active EXCEPT ![t] = TRUE]
  /\ callback' = [callback EXCEPT ![t] = TRUE]
  /\ armed' = [armed EXCEPT ![t] = TRUE]
  /\ refed' = [refed EXCEPT ![t] = TRUE]
  /\ obj' = [obj EXCEPT ![t] = "held"]
  /\ active_timer_count' = active_timer_count + 1
  /\ active_refed_timer_count' = active_refed_timer_count + 1
  /\ UNCHANGED running

\* Mutant: the reference is counted for a timer that is not active too.
RefCountsInactive(t) ==
  /\ UserCall
  /\ obj[t] = "held" /\ phase[t] = "live"
  /\ refed' = [refed EXCEPT ![t] = TRUE]
  /\ active_refed_timer_count' =
       active_refed_timer_count + (IF refed[t] THEN 0 ELSE 1)
  /\ UNCHANGED <<phase, is_interval, active, callback, armed, obj, running,
                 active_timer_count>>

js_timer_ref(t) ==
  /\ UserCall
  /\ obj[t] = "held" /\ phase[t] = "live"
  /\ refed' = [refed EXCEPT ![t] = TRUE]
  /\ active_refed_timer_count' =
       active_refed_timer_count + (IF active[t] /\ ~refed[t] THEN 1 ELSE 0)
  /\ UNCHANGED <<phase, is_interval, active, callback, armed, obj, running,
                 active_timer_count>>

js_timer_unref(t) ==
  /\ UserCall
  /\ obj[t] = "held" /\ phase[t] = "live"
  /\ refed' = [refed EXCEPT ![t] = FALSE]
  /\ active_refed_timer_count' =
       active_refed_timer_count - (IF active[t] /\ refed[t] THEN 1 ELSE 0)
  /\ UNCHANGED <<phase, is_interval, active, callback, armed, obj, running,
                 active_timer_count>>

\* A timer that is not active gets its callback back from the object.
js_timer_refresh(t) ==
  /\ UserCall
  /\ obj[t] = "held" /\ phase[t] = "live"
  /\ active' = [active EXCEPT ![t] = TRUE]
  /\ callback' = [callback EXCEPT ![t] = TRUE]
  /\ armed' = [armed EXCEPT ![t] = TRUE]
  /\ active_timer_count' = active_timer_count + (IF active[t] THEN 0 ELSE 1)
  /\ active_refed_timer_count' =
       active_refed_timer_count + (IF active[t] THEN 0 ELSE Refs(t))
  /\ UNCHANGED <<phase, is_interval, refed, obj, running>>
-----------------------------------------------------------------------------

timer_close_entry(t) ==
  /\ phase' = [phase EXCEPT ![t] = "closing"]
  /\ active' = [active EXCEPT ![t] = FALSE]
  /\ armed' = [armed EXCEPT ![t] = FALSE]
  /\ active_timer_count' = active_timer_count - (IF active[t] THEN 1 ELSE 0)
  /\ active_refed_timer_count' =
       active_refed_timer_count - (IF active[t] THEN Refs(t) ELSE 0)

\* clearTimeout and clearInterval, by the object or by its number.
js_clear_timeout(t) ==
  /\ UserCall
  /\ Listed(t)
  /\ timer_close_entry(t)
  /\ UNCHANGED <<is_interval, callback, refed, obj, running>>

\* User code loses its last reference to the object.
DropObject(t) ==
  /\ obj[t] = "held"
  /\ obj' = [obj EXCEPT ![t] = "dropped"]
  /\ UNCHANGED <<phase, is_interval, active, callback, armed, refed, running,
                 counts, ops>>

\* gc_mark_timers marks the objects of active timers; the others are garbage
\* once they are dropped.  Mutant: all that are not freed are marked.
UnmarkedWhenFreed(t) == obj[t] = "dropped" /\ ~Listed(t)
Garbage(t) == obj[t] = "dropped" /\ ~active[t]

\* The collector finalises the object of a garbage timer.
timer_object_finalize(t) ==
  /\ Garbage(t)
  /\ obj' = [obj EXCEPT ![t] = "collected"]
  /\ IF Listed(t) THEN timer_close_entry(t)
                  ELSE UNCHANGED <<phase, active, armed, counts>>
  /\ UNCHANGED <<is_interval, callback, refed, running, ops>>

timer_close_cb(t) ==
  /\ running = None
  /\ phase[t] = "closing"
  /\ phase' = [phase EXCEPT ![t] = "freed"]
  /\ active' = [active EXCEPT ![t] = FALSE]
  /\ callback' = [callback EXCEPT ![t] = FALSE]
  /\ UNCHANGED <<is_interval, armed, refed, obj, running, counts, ops>>
-----------------------------------------------------------------------------
\* Mutant: the expiry of a repeating timer that was closed is not ignored.
callback_late(t) ==
  /\ running = None
  /\ Listed(t) /\ (active[t] \/ is_interval[t])
  /\ running' = t
  /\ armed' = [armed EXCEPT ![t] = @ /\ is_interval[t]]
  /\ active' = [active EXCEPT ![t] = @ /\ is_interval[t]]
  /\ active_timer_count' = active_timer_count - (IF is_interval[t] THEN 0 ELSE 1)
  /\ active_refed_timer_count' =
       active_refed_timer_count - (IF is_interval[t] THEN 0 ELSE Refs(t))
  /\ UNCHANGED <<phase, is_interval, callback, refed, obj, ops>>

\* libuv stops a one-shot handle before it calls timer_callback and leaves a
\* repeating one started.  The call of the user's function is what happens until
\* ReturnFromCallback.
timer_callback(t) ==
  /\ running = None
  /\ armed[t] /\ Listed(t) /\ active[t]
  /\ running' = t
  /\ armed' = [armed EXCEPT ![t] = is_interval[t]]
  /\ active' = [active EXCEPT ![t] = is_interval[t]]
  /\ active_timer_count' = active_timer_count - (IF is_interval[t] THEN 0 ELSE 1)
  /\ active_refed_timer_count' =
       active_refed_timer_count - (IF is_interval[t] THEN 0 ELSE Refs(t))
  /\ UNCHANGED <<phase, is_interval, callback, refed, obj, ops>>

\* Are the callback and its arguments released?  Not if the callback refreshed
\* its own timer.
Releases(t) == ~is_interval[t] /\ ~active[t]

ReturnFromCallback ==
  /\ running # None
  /\ callback' = [callback EXCEPT ![running] = @ /\ ~Releases(running)]
  /\ running' = None
  /\ UNCHANGED <<phase, is_interval, active, armed, refed, obj, counts, ops>>

Next ==
  \/ \E t \in Timer :
       \/ \E interval \in BOOLEAN : SetTimer(t, interval)
       \/ js_timer_ref(t)
       \/ js_timer_unref(t)
       \/ js_timer_refresh(t)
       \/ js_clear_timeout(t)
       \/ DropObject(t)
       \/ timer_object_finalize(t)
       \/ timer_close_cb(t)
       \/ timer_callback(t)
  \/ ReturnFromCallback

Spec == Init /\ [][Next]_vars

\* libuv serves started and closing handles and the collector finds garbage.
FairSpec ==
  /\ Spec
  /\ \A t \in Timer : /\ SF_vars(timer_callback(t))
                      /\ SF_vars(timer_close_cb(t))
                      /\ WF_vars(timer_object_finalize(t))
  /\ WF_vars(ReturnFromCallback)
-----------------------------------------------------------------------------
EntriesOK ==
  /\ phase \in [Timer -> {"unused", "live", "closing", "freed"}]
  /\ is_interval \in [Timer -> BOOLEAN]
  /\ active \in [Timer -> BOOLEAN]
  /\ callback \in [Timer -> BOOLEAN]
  /\ armed \in [Timer -> BOOLEAN]
  /\ refed \in [Timer -> BOOLEAN]
  /\ obj \in [Timer -> {"none", "held", "dropped", "collected"}]

\* The entries, the handles in them and the counters have their types; a counter
\* is never negative.
TypeOK ==
  /\ EntriesOK
  /\ running \in Timer \cup {None}
  /\ active_timer_count \in Nat /\ active_refed_timer_count \in Nat
  /\ ops \in Nat

Active == {t \in Timer : active[t]}
ActiveRefed == {t \in Timer : active[t] /\ refed[t]}

\* The two counters, kept up by eight different functions, are the number of
\* active timers and of those among them that keep the process alive.
CountsExact ==
  /\ active_timer_count = Cardinality(Active)
  /\ active_refed_timer_count = Cardinality(ActiveRefed)

\* has_pending_timers answers what libuv would: the loop neither ends before a
\* referenced timer fires nor waits for a timer that libuv will never fire.
LoopAgreesWithLibuv ==
  active_refed_timer_count > 0 <=>
    \E t \in Timer : armed[t] /\ refed[t]

\* A timer that may fire has the callback and the arguments to fire with: what a
\* fired timer releases, refresh() brings back.
ActiveHasCallback == \A t \in Timer : active[t] => callback[t]

\* The entry whose callback runs is not freed under it, whatever the callback
\* clears, drops or has collected.
RunningIsAllocated == running # None => Listed(running)

\* A timer that was cleared, or whose object was collected, never fires again.
ClearedNeverFires ==
  [][\A t \in Timer :
       phase[t] # "live" => ~(running # t /\ running' = t)]_vars

\* An active timer fires or is cleared by user code, also when nobody keeps its
\* object: the collector does not cancel it (gc_mark_timers).  And a one-shot
\* timer nobody refers to is freed in the end: it fires, its object is finalised,
\* its handle is closed (timer_object_finalize, timer_close_cb).
FiresThenFreed ==
  \A t \in Timer :
    /\ active[t] ~> (running = t \/ (phase[t] # "live" /\ obj[t] # "collected"))
    /\ (obj[t] = "dropped" /\ ~is_interval[t]) ~> phase[t] = "freed"
=============================================================================
