----------------------------- MODULE TimersProofs -----------------------------
(***************************************************************************)
(* The safety invariants of Timers, for any finite set of timers and any    *)
(* number of calls.  The inductive invariant adds to them that a handle is   *)
(* started exactly while its entry is active, and that only live entries    *)
(* are.                                                                    *)
(***************************************************************************)
EXTENDS Timers, FiniteSetTheorems, TLAPS

ActiveIsArmed == \A t \in Timer : active[t] <=> armed[t]
ActiveIsLive == \A t \in Timer : active[t] => phase[t] = "live"

EntryInv == ActiveIsArmed /\ ActiveIsLive /\ ActiveHasCallback /\ RunningIsAllocated
IInv == TypeOK /\ CountsExact /\ EntryInv

One(b) == IF b THEN 1 ELSE 0
-----------------------------------------------------------------------------
\* Two sets of timers that differ in t only differ by t in size.
LEMMA SizeStep ==
  ASSUME NEW S \in SUBSET Timer, NEW T \in SUBSET Timer, NEW t \in Timer,
         \A u \in Timer \ {t} : u \in S <=> u \in T
  PROVE  /\ Cardinality(S) \in Nat /\ Cardinality(T) \in Nat
         /\ Cardinality(T) = Cardinality(S) + One(t \in T) - One(t \in S)
<1>1. IsFiniteSet(S) /\ IsFiniteSet(T)
  BY TimerAssumption, FS_Subset
<1>2. Cardinality(S) \in Nat /\ Cardinality(T) \in Nat
  BY <1>1, FS_CardinalityType
<1>3. CASE t \in T
  <2>1. T = S \cup {t}
    BY <1>3
  <2> QED
    BY <1>1, <1>2, <1>3, <2>1, FS_AddElement DEF One
<1>4. CASE t \notin T
  <2>1. T = S \ {t}
    BY <1>4
  <2> QED
    BY <1>1, <1>2, <1>4, <2>1, FS_RemoveElement DEF One
<1> QED
  BY <1>3, <1>4

\* A step that changes the flags of t alone keeps the counters exact if it moves
\* each by what t contributes after it less what t contributed before.
LEMMA CountStep ==
  ASSUME CountsExact, NEW t \in Timer,
         \A u \in Timer \ {t} : (active'[u] <=> active[u]) /\ (refed'[u] <=> refed[u]),
         active_timer_count' = active_timer_count + One(active'[t]) - One(active[t]),
         active_refed_timer_count' = active_refed_timer_count
            + One(active'[t] /\ refed'[t]) - One(active[t] /\ refed[t])
  PROVE  CountsExact' /\ active_timer_count' \in Nat /\ active_refed_timer_count' \in Nat
<1>1. /\ Cardinality(Active') \in Nat
      /\ Cardinality(Active') =
           Cardinality(Active) + One(t \in Active') - One(t \in Active)
  <2>1. Active \in SUBSET Timer /\ Active' \in SUBSET Timer
    BY DEF Active
  <2>2. \A u \in Timer \ {t} : u \in Active <=> u \in Active'
    BY DEF Active
  <2> HIDE DEF Active
  <2> QED
    BY <2>1, <2>2, SizeStep
<1>2. /\ Cardinality(ActiveRefed') \in Nat
      /\ Cardinality(ActiveRefed') =
           Cardinality(ActiveRefed) + One(t \in ActiveRefed') - One(t \in ActiveRefed)
  <2>1. ActiveRefed \in SUBSET Timer /\ ActiveRefed' \in SUBSET Timer
    BY DEF ActiveRefed
  <2>2. \A u \in Timer \ {t} : u \in ActiveRefed <=> u \in ActiveRefed'
    BY DEF ActiveRefed
  <2> QED
    BY <2>1, <2>2, SizeStep
<1>3. /\ One(t \in Active') = One(active'[t])
      /\ One(t \in Active) = One(active[t])
      /\ One(t \in ActiveRefed') = One(active'[t] /\ refed'[t])
      /\ One(t \in ActiveRefed) = One(active[t] /\ refed[t])
  BY DEF Active, ActiveRefed, One
<1> QED
  BY <1>1, <1>2, <1>3 DEF CountsExact
-----------------------------------------------------------------------------
LEMMA InitIInv == Init => IInv
<1> SUFFICES ASSUME Init PROVE IInv
  OBVIOUS
<1>1. TypeOK
  BY DEF Init, TypeOK, EntriesOK
<1>2. Active = {} /\ ActiveRefed = {}
  BY DEF Init, Active, ActiveRefed
<1>3. CountsExact
  BY <1>2, FS_EmptySet DEF Init, CountsExact
<1>4. EntryInv
  BY DEF Init, EntryInv, ActiveIsArmed, ActiveIsLive, ActiveHasCallback,
         RunningIsAllocated
<1> QED
  BY <1>1, <1>3, <1>4 DEF IInv

LEMMA NextIInv == IInv /\ [Next]_vars => IInv'
<1> SUFFICES ASSUME IInv, [Next]_vars PROVE IInv'
  OBVIOUS
<1> USE DEF IInv
<1>0. EntriesOK /\ CountsExact /\ EntryInv /\ running \in Timer \cup {None} /\ ops \in Nat
      /\ active_timer_count \in Nat /\ active_refed_timer_count \in Nat
  BY DEF TypeOK
<1>1. ASSUME NEW t \in Timer, NEW interval \in BOOLEAN, SetTimer(t, interval)
      PROVE  IInv'
  <2>0. ~active[t]
    BY <1>0, <1>1 DEF SetTimer, EntryInv, ActiveIsLive
  <2>1. EntriesOK' /\ running' \in Timer \cup {None} /\ ops' \in Nat
    BY <1>0, <1>1, MaxOpsAssumption DEF SetTimer, UserCall, EntriesOK
  <2>2. \A u \in Timer \ {t} : (active'[u] <=> active[u]) /\ (refed'[u] <=> refed[u])
    BY <1>0, <1>1 DEF SetTimer, EntriesOK
  <2>3. active_timer_count' = active_timer_count + One(active'[t]) - One(active[t])
    BY <1>0, <2>0, <1>1 DEF SetTimer, EntriesOK, One
  <2>4. active_refed_timer_count' = active_refed_timer_count
          + One(active'[t] /\ refed'[t]) - One(active[t] /\ refed[t])
    BY <1>0, <2>0, <1>1 DEF SetTimer, EntriesOK, One, Refs
  <2>5. EntryInv'
    BY <1>0, <2>0, <1>1, TimerAssumption DEF SetTimer, EntriesOK, EntryInv, ActiveIsArmed, ActiveIsLive,
         ActiveHasCallback, RunningIsAllocated, Listed
  <2> QED
    BY <2>1, <2>2, <2>3, <2>4, <2>5, <1>0, CountStep DEF IInv, TypeOK
<1>2. ASSUME NEW t \in Timer, js_timer_ref(t)
      PROVE  IInv'
  <2>1. EntriesOK' /\ running' \in Timer \cup {None} /\ ops' \in Nat
    BY <1>0, <1>2, MaxOpsAssumption DEF js_timer_ref, UserCall, EntriesOK
  <2>2. \A u \in Timer \ {t} : (active'[u] <=> active[u]) /\ (refed'[u] <=> refed[u])
    BY <1>0, <1>2 DEF js_timer_ref, EntriesOK
  <2>3. active_timer_count' = active_timer_count + One(active'[t]) - One(active[t])
    BY <1>0, <1>2 DEF js_timer_ref, EntriesOK, One
  <2>4. active_refed_timer_count' = active_refed_timer_count
          + One(active'[t] /\ refed'[t]) - One(active[t] /\ refed[t])
    BY <1>0, <1>2 DEF js_timer_ref, EntriesOK, One, Refs
  <2>5. EntryInv'
    BY <1>0, <1>2, TimerAssumption DEF js_timer_ref, EntriesOK, EntryInv, ActiveIsArmed, ActiveIsLive,
         ActiveHasCallback, RunningIsAllocated, Listed
  <2> QED
    BY <2>1, <2>2, <2>3, <2>4, <2>5, <1>0, CountStep DEF IInv, TypeOK
<1>3. ASSUME NEW t \in Timer, js_timer_unref(t)
      PROVE  IInv'
  <2>1. EntriesOK' /\ running' \in Timer \cup {None} /\ ops' \in Nat
    BY <1>0, <1>3, MaxOpsAssumption DEF js_timer_unref, UserCall, EntriesOK
  <2>2. \A u \in Timer \ {t} : (active'[u] <=> active[u]) /\ (refed'[u] <=> refed[u])
    BY <1>0, <1>3 DEF js_timer_unref, EntriesOK
  <2>3. active_timer_count' = active_timer_count + One(active'[t]) - One(active[t])
    BY <1>0, <1>3 DEF js_timer_unref, EntriesOK, One
  <2>4. active_refed_timer_count' = active_refed_timer_count
          + One(active'[t] /\ refed'[t]) - One(active[t] /\ refed[t])
    BY <1>0, <1>3 DEF js_timer_unref, EntriesOK, One, Refs
  <2>5. EntryInv'
    BY <1>0, <1>3, TimerAssumption DEF js_timer_unref, EntriesOK, EntryInv, ActiveIsArmed, ActiveIsLive,
         ActiveHasCallback, RunningIsAllocated, Listed
  <2> QED
    BY <2>1, <2>2, <2>3, <2>4, <2>5, <1>0, CountStep DEF IInv, TypeOK
<1>4. ASSUME NEW t \in Timer, js_timer_refresh(t)
      PROVE  IInv'
  <2>1. EntriesOK' /\ running' \in Timer \cup {None} /\ ops' \in Nat
    BY <1>0, <1>4, MaxOpsAssumption DEF js_timer_refresh, UserCall, EntriesOK
  <2>2. \A u \in Timer \ {t} : (active'[u] <=> active[u]) /\ (refed'[u] <=> refed[u])
    BY <1>0, <1>4 DEF js_timer_refresh, EntriesOK
  <2>3. active_timer_count' = active_timer_count + One(active'[t]) - One(active[t])
    BY <1>0, <1>4 DEF js_timer_refresh, EntriesOK, One
  <2>4. active_refed_timer_count' = active_refed_timer_count
          + One(active'[t] /\ refed'[t]) - One(active[t] /\ refed[t])
    BY <1>0, <1>4 DEF js_timer_refresh, EntriesOK, One, Refs
  <2>5. EntryInv'
    BY <1>0, <1>4, TimerAssumption DEF js_timer_refresh, EntriesOK, EntryInv, ActiveIsArmed, ActiveIsLive,
         ActiveHasCallback, RunningIsAllocated, Listed
  <2> QED
    BY <2>1, <2>2, <2>3, <2>4, <2>5, <1>0, CountStep DEF IInv, TypeOK
<1>5. ASSUME NEW t \in Timer, js_clear_timeout(t)
      PROVE  IInv'
  <2>1. EntriesOK' /\ running' \in Timer \cup {None} /\ ops' \in Nat
    BY <1>0, <1>5, MaxOpsAssumption DEF js_clear_timeout, timer_close_entry, UserCall, EntriesOK
  <2>2. \A u \in Timer \ {t} : (active'[u] <=> active[u]) /\ (refed'[u] <=> refed[u])
    BY <1>0, <1>5 DEF js_clear_timeout, timer_close_entry, EntriesOK
  <2>3. active_timer_count' = active_timer_count + One(active'[t]) - One(active[t])
    BY <1>0, <1>5 DEF js_clear_timeout, timer_close_entry, EntriesOK, One
  <2>4. active_refed_timer_count' = active_refed_timer_count
          + One(active'[t] /\ refed'[t]) - One(active[t] /\ refed[t])
    BY <1>0, <1>5 DEF js_clear_timeout, timer_close_entry, EntriesOK, One, Refs
  <2>5. EntryInv'
    BY <1>0, <1>5, TimerAssumption DEF js_clear_timeout, timer_close_entry, EntriesOK, EntryInv, ActiveIsArmed, ActiveIsLive,
         ActiveHasCallback, RunningIsAllocated, Listed
  <2> QED
    BY <2>1, <2>2, <2>3, <2>4, <2>5, <1>0, CountStep DEF IInv, TypeOK
<1>6. ASSUME NEW t \in Timer, DropObject(t)
      PROVE  IInv'
  <2>1. EntriesOK' /\ running' \in Timer \cup {None} /\ ops' \in Nat
    BY <1>0, <1>6, MaxOpsAssumption DEF DropObject, counts, UserCall, EntriesOK
  <2>2. \A u \in Timer \ {t} : (active'[u] <=> active[u]) /\ (refed'[u] <=> refed[u])
    BY <1>0, <1>6 DEF DropObject, counts, EntriesOK
  <2>3. active_timer_count' = active_timer_count + One(active'[t]) - One(active[t])
    BY <1>0, <1>6 DEF DropObject, counts, EntriesOK, One
  <2>4. active_refed_timer_count' = active_refed_timer_count
          + One(active'[t] /\ refed'[t]) - One(active[t] /\ refed[t])
    BY <1>0, <1>6 DEF DropObject, counts, EntriesOK, One, Refs
  <2>5. EntryInv'
    BY <1>0, <1>6, TimerAssumption DEF DropObject, counts, EntriesOK, EntryInv, ActiveIsArmed, ActiveIsLive,
         ActiveHasCallback, RunningIsAllocated, Listed
  <2> QED
    BY <2>1, <2>2, <2>3, <2>4, <2>5, <1>0, CountStep DEF IInv, TypeOK
<1>7. ASSUME NEW t \in Timer, timer_object_finalize(t)
      PROVE  IInv'
  <2>1. EntriesOK' /\ running' \in Timer \cup {None} /\ ops' \in Nat
    BY <1>0, <1>7, MaxOpsAssumption DEF timer_object_finalize, timer_close_entry, counts, UserCall, EntriesOK
  <2>2. \A u \in Timer \ {t} : (active'[u] <=> active[u]) /\ (refed'[u] <=> refed[u])
    BY <1>0, <1>7 DEF timer_object_finalize, timer_close_entry, counts, EntriesOK
  <2>3. active_timer_count' = active_timer_count + One(active'[t]) - One(active[t])
    BY <1>0, <1>7 DEF timer_object_finalize, timer_close_entry, counts, EntriesOK, One
  <2>4. active_refed_timer_count' = active_refed_timer_count
          + One(active'[t] /\ refed'[t]) - One(active[t] /\ refed[t])
    BY <1>0, <1>7 DEF timer_object_finalize, timer_close_entry, counts, EntriesOK, One, Refs
  <2>5. EntryInv'
    BY <1>0, <1>7, TimerAssumption DEF timer_object_finalize, timer_close_entry, counts, EntriesOK, EntryInv, ActiveIsArmed, ActiveIsLive,
         ActiveHasCallback, RunningIsAllocated, Listed
  <2> QED
    BY <2>1, <2>2, <2>3, <2>4, <2>5, <1>0, CountStep DEF IInv, TypeOK
<1>8. ASSUME NEW t \in Timer, timer_close_cb(t)
      PROVE  IInv'
  <2>0. ~active[t]
    BY <1>0, <1>8 DEF timer_close_cb, EntryInv, ActiveIsLive
  <2>1. EntriesOK' /\ running' \in Timer \cup {None} /\ ops' \in Nat
    BY <1>0, <1>8, MaxOpsAssumption DEF timer_close_cb, counts, UserCall, EntriesOK
  <2>2. \A u \in Timer \ {t} : (active'[u] <=> active[u]) /\ (refed'[u] <=> refed[u])
    BY <1>0, <1>8 DEF timer_close_cb, counts, EntriesOK
  <2>3. active_timer_count' = active_timer_count + One(active'[t]) - One(active[t])
    BY <1>0, <2>0, <1>8 DEF timer_close_cb, counts, EntriesOK, One
  <2>4. active_refed_timer_count' = active_refed_timer_count
          + One(active'[t] /\ refed'[t]) - One(active[t] /\ refed[t])
    BY <1>0, <2>0, <1>8 DEF timer_close_cb, counts, EntriesOK, One, Refs
  <2>5. EntryInv'
    BY <1>0, <2>0, <1>8, TimerAssumption DEF timer_close_cb, counts, EntriesOK, EntryInv, ActiveIsArmed, ActiveIsLive,
         ActiveHasCallback, RunningIsAllocated, Listed
  <2> QED
    BY <2>1, <2>2, <2>3, <2>4, <2>5, <1>0, CountStep DEF IInv, TypeOK
<1>9. ASSUME NEW t \in Timer, timer_callback(t)
      PROVE  IInv'
  <2>1. EntriesOK' /\ running' \in Timer \cup {None} /\ ops' \in Nat
    BY <1>0, <1>9, MaxOpsAssumption DEF timer_callback, UserCall, EntriesOK
  <2>2. \A u \in Timer \ {t} : (active'[u] <=> active[u]) /\ (refed'[u] <=> refed[u])
    BY <1>0, <1>9 DEF timer_callback, EntriesOK
  <2>3. active_timer_count' = active_timer_count + One(active'[t]) - One(active[t])
    BY <1>0, <1>9 DEF timer_callback, EntriesOK, One
  <2>4. active_refed_timer_count' = active_refed_timer_count
          + One(active'[t] /\ refed'[t]) - One(active[t] /\ refed[t])
    BY <1>0, <1>9 DEF timer_callback, EntriesOK, One, Refs
  <2>5. EntryInv'
    BY <1>0, <1>9, TimerAssumption DEF timer_callback, EntriesOK, EntryInv, ActiveIsArmed, ActiveIsLive,
         ActiveHasCallback, RunningIsAllocated, Listed
  <2> QED
    BY <2>1, <2>2, <2>3, <2>4, <2>5, <1>0, CountStep DEF IInv, TypeOK
<1>10. CASE ReturnFromCallback
  <2>1. EntriesOK'
    BY <1>0, <1>10 DEF ReturnFromCallback, EntriesOK
  <2>2. CountsExact'
    BY <1>0, <1>10 DEF ReturnFromCallback, counts, CountsExact, Active, ActiveRefed
  <2>3. EntryInv'
    BY <1>0, <1>10 DEF ReturnFromCallback, Releases, EntriesOK, EntryInv, ActiveIsArmed,
         ActiveIsLive, ActiveHasCallback, RunningIsAllocated
  <2> QED
    BY <1>0, <1>10, <2>1, <2>2, <2>3 DEF ReturnFromCallback, counts, TypeOK
<1>11. CASE UNCHANGED vars
  BY <1>0, <1>11 DEF vars, TypeOK, EntriesOK, CountsExact, Active, ActiveRefed, EntryInv,
       ActiveIsArmed, ActiveIsLive, ActiveHasCallback, RunningIsAllocated, Listed
<1> QED
  BY <1>1, <1>2, <1>3, <1>4, <1>5, <1>6, <1>7, <1>8, <1>9, <1>10, <1>11 DEF Next

LEMMA Invariance == Spec => []IInv
  BY InitIInv, NextIInv, PTL DEF Spec
-----------------------------------------------------------------------------
\* The fields of the entries keep their types and the counters of timer_state
\* never become negative.
THEOREM TypeCorrect == Spec => []TypeOK
<1>1. IInv => TypeOK
  BY DEF IInv
<1> QED
  BY <1>1, Invariance, PTL

\* active_timer_count and active_refed_timer_count are exact after every sequence
\* of calls, callbacks and finalisations.
THEOREM CountersExact == Spec => []CountsExact
<1>1. IInv => CountsExact
  BY DEF IInv
<1> QED
  BY <1>1, Invariance, PTL

\* has_pending_timers() and libuv agree on whether a timer keeps the loop alive.
THEOREM LoopAndLibuvAgree == Spec => []LoopAgreesWithLibuv
<1>1. IInv => LoopAgreesWithLibuv
  <2> SUFFICES ASSUME IInv PROVE LoopAgreesWithLibuv
    OBVIOUS
  <2>1. IsFiniteSet(ActiveRefed)
    <3>1. ActiveRefed \in SUBSET Timer
      BY DEF ActiveRefed
    <3> QED
      BY <3>1, TimerAssumption, FS_Subset
  <2>2. Cardinality(ActiveRefed) \in Nat /\ (Cardinality(ActiveRefed) = 0 <=> ActiveRefed = {})
    BY <2>1, FS_EmptySet, FS_CardinalityType
  <2>3. ActiveRefed # {} <=> \E t \in Timer : armed[t] /\ refed[t]
    BY DEF IInv, EntryInv, ActiveIsArmed, ActiveRefed
  <2> QED
    BY <2>2, <2>3 DEF IInv, CountsExact, LoopAgreesWithLibuv
<1> QED
  BY <1>1, Invariance, PTL

\* A timer that may fire has its callback, also one that was refreshed after it
\* fired or in its own callback.
THEOREM CallbackKept == Spec => []ActiveHasCallback
<1>1. IInv => ActiveHasCallback
  BY DEF IInv, EntryInv
<1> QED
  BY <1>1, Invariance, PTL

\* timer_callback finds its entry allocated when the user's function returns.
THEOREM EntryOutlivesCallback == Spec => []RunningIsAllocated
<1>1. IInv => RunningIsAllocated
  BY DEF IInv, EntryInv
<1> QED
  BY <1>1, Invariance, PTL

\* A timer whose handle is closing, or whose entry is gone, does not fire: what
\* clearTimeout() and the finaliser close stays silent.
THEOREM ClearedStaysSilent == Spec => ClearedNeverFires
<1>1. IInv /\ [Next]_vars =>
        [\A t \in Timer : phase[t] # "live" => ~(running # t /\ running' = t)]_vars
  <2> SUFFICES ASSUME IInv, [Next]_vars, NEW t \in Timer,
                      phase[t] # "live", running # t, running' = t
               PROVE  FALSE
    BY DEF vars
  <2>1. PICK u \in Timer : timer_callback(u) /\ u = t
    BY TimerAssumption DEF Next, vars, SetTimer, js_timer_ref, js_timer_unref, js_timer_refresh,
         js_clear_timeout, DropObject, timer_object_finalize, timer_close_cb,
         timer_callback, ReturnFromCallback
  <2> QED
    BY <2>1 DEF timer_callback, IInv, EntryInv, ActiveIsLive
<1> QED
  BY <1>1, Invariance, PTL DEF Spec, ClearedNeverFires
=============================================================================
