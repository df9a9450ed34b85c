--------------------------- MODULE AsyncHandleProofs ---------------------------
(***************************************************************************)
(* The two components that own a uv_async handle each.                      *)
(*                                                                         *)
(* Waiters of Atomics.waitAsync are settled once and freed once, for any     *)
(* number of waiters, addresses and calls of notify.  The argument: a       *)
(* waiter is in one of five phases, from waitAsync to the callback that     *)
(* frees it, and every callback moves one waiter to its next phase.         *)
(*                                                                         *)
(* Every step of a thread-safe function is a step of the channel of calls   *)
(* it promises, or changes nothing the user of the channel sees, for any    *)
(* set of threads, queue limit and number of calls.                         *)
(***************************************************************************)
EXTENDS AtomicsWaiters, FiniteSetTheorems, SequenceTheorems, TLAPS

\* The thread-safe function.  No formula below speaks of both components, so that the
\* name closing can serve each of them.
CONSTANTS Thread, MaxQueue, MaxCalls
VARIABLES queue, thread_count, aborted, handle, signalled, loop, holders, sending, made
Function == INSTANCE ThreadsafeFunction

OffList(e) == ~Linked(e) /\ settle_state[e] = "none" /\ e \notin sent
Settled(e) == promise[e] \in {"ok", "timed-out"}

Fresh(e) ==
  /\ memory[e] = "none" /\ promise[e] = "none" /\ OffList(e)
  /\ open[e] = {} /\ closing[e] = {}
OnList(e) ==
  /\ memory[e] = "live" /\ promise[e] = "pending"
  /\ Linked(e) /\ settle_state[e] = "none" /\ e \notin sent
  /\ "async" \in open[e] /\ closing[e] = {}
Settling(e) ==
  /\ memory[e] = "live" /\ promise[e] = "pending"
  /\ ~Linked(e) /\ settle_state[e] \in {"ok", "timed-out"} /\ e \in sent
  /\ "async" \in open[e] /\ closing[e] = {}
Closing(e) ==
  /\ memory[e] = "live" /\ Settled(e) /\ OffList(e)
  /\ open[e] = {} /\ closing[e] # {}
Freed(e) ==
  /\ memory[e] = "freed" /\ Settled(e) /\ OffList(e)
  /\ open[e] = {} /\ closing[e] = {}
InPhase(e) == Fresh(e) \/ OnList(e) \/ Settling(e) \/ Closing(e) \/ Freed(e)

Handles == {"async", "timer"}
Types ==
  /\ waiters \in Seq(Waiter) /\ sent \in SUBSET Waiter /\ notified \in Nat
  /\ settle_state \in [Waiter -> {"none", "ok", "timed-out"}]
  /\ promise \in [Waiter -> {"none", "pending", "ok", "timed-out"}]
  /\ memory \in [Waiter -> {"none", "live", "freed"}]
  /\ open \in [Waiter -> SUBSET Handles] /\ closing \in [Waiter -> SUBSET Handles]
  /\ pending_handles \in [Waiter -> Nat]

Phases == \A e \in Waiter : InPhase(e)

HandlesCounted ==
  \A e \in Waiter : pending_handles[e] = Cardinality(open[e] \cup closing[e])

Inv == Types /\ Phases /\ HandlesCounted /\ NotifyCountExact
-----------------------------------------------------------------------------
\* async_waiter_remove_locked takes exactly the given entries off the list.
LEMMA RemoveFacts ==
  ASSUME waiters \in Seq(Waiter), NEW W, async_waiter_remove(W)
  PROVE  /\ waiters' \in Seq(Waiter)
         /\ \A e : Linked(e)' <=> Linked(e) /\ e \notin W
<1> DEFINE kept == {i \in DOMAIN waiters : waiters[i] \notin W}
           n == Cardinality(kept)
<1>0. DOMAIN waiters = 1..Len(waiters) /\ Len(waiters) \in Nat
  BY LenProperties
<1>1. IsFiniteSet(kept) /\ n \in Nat
  <2>1. IsFiniteSet(1..Len(waiters))
    BY <1>0, FS_Interval
  <2>2. kept \in SUBSET (1..Len(waiters))
    BY <1>0
  <2> QED
    BY <2>1, <2>2, FS_Subset, FS_CardinalityType
<1>2. PICK f \in [1..n -> kept] :
        /\ \A j, k \in DOMAIN f : j < k => f[j] < f[k]
        /\ waiters' = [k \in DOMAIN f |-> waiters[f[k]]]
  BY Zenon DEF async_waiter_remove
<1>3. \A i \in kept : \E k \in 1..n : f[k] = i
  <2>0. kept \subseteq Nat
    BY <1>0
  <2>1. \A j, k \in 1..n : f[j] = f[k] => j = k
    <3> SUFFICES ASSUME NEW j \in 1..n, NEW k \in 1..n, f[j] = f[k], j # k PROVE FALSE
      OBVIOUS
    <3> HIDE DEF kept, n
    <3>1. f[j] \in Nat /\ f[k] \in Nat /\ DOMAIN f = 1..n
      BY <2>0
    <3>2. j < k \/ k < j
      BY <1>1
    <3> QED
      BY <1>2, <3>1, <3>2
  <2>2. f \in Injection(1..n, kept)
    BY <2>1 DEF Injection, IsInjective
  <2>3. IsFiniteSet(1..n) /\ Cardinality(1..n) = n
    BY <1>1, FS_Interval
  <2>4. f \in Surjection(1..n, kept)
    BY <1>1, <2>2, <2>3, FS_Injection
  <2> QED
    BY <2>4 DEF Surjection
<1>4. /\ DOMAIN waiters' = 1..n
      /\ \A k \in 1..n : waiters'[k] = waiters[f[k]] /\ f[k] \in kept
  BY <1>2
<1>5. waiters' \in Seq(Waiter)
  <2>1. waiters' \in [1..n -> Waiter]
    BY <1>0, <1>2, <1>4, LenProperties
  <2> HIDE DEF n
  <2>2. \A m \in Nat : [1..m -> Waiter] \subseteq Seq(Waiter)
    BY SeqDef
  <2> QED
    BY <1>1, <2>1, <2>2
<1>6. ASSUME NEW e PROVE Linked(e)' <=> Linked(e) /\ e \notin W
  <2>1. ASSUME Linked(e)' PROVE Linked(e) /\ e \notin W
    BY <1>4, <2>1 DEF Linked
  <2>2. ASSUME Linked(e), e \notin W PROVE Linked(e)'
    <3>1. PICK i \in kept : waiters[i] = e
      BY <2>2 DEF Linked
    <3> QED
      BY <1>3, <1>4, <3>1 DEF Linked
  <2> QED
    BY <2>1, <2>2
<1> QED
  BY <1>5, <1>6

\* async_waiter_add_locked puts the entry on the list.
LEMMA AddFacts ==
  ASSUME waiters \in Seq(Waiter), NEW e \in Waiter, waiters' = <<e>> \o waiters
  PROVE  /\ waiters' \in Seq(Waiter)
         /\ \A x : Linked(x)' <=> x = e \/ Linked(x)
<1>1. <<e>> \in Seq(Waiter) /\ Len(<<e>>) = 1 /\ <<e>>[1] = e
  OBVIOUS
<1> DEFINE p == <<e>>
<1>2. p \in Seq(Waiter) /\ Len(p) = 1 /\ p[1] = e /\ waiters' = p \o waiters
  BY <1>1
<1> HIDE DEF p
<1>3. /\ waiters' \in Seq(Waiter)
      /\ Len(waiters') = 1 + Len(waiters)
      /\ \A i \in 1 .. 1 + Len(waiters) :
            waiters'[i] = IF i <= 1 THEN p[i] ELSE waiters[i - 1]
  BY <1>2, ConcatProperties
<1>4. /\ Len(waiters) \in Nat /\ DOMAIN waiters = 1..Len(waiters)
      /\ DOMAIN waiters' = 1..(1 + Len(waiters))
  BY <1>3, LenProperties
<1>5. ASSUME NEW x PROVE Linked(x)' <=> x = e \/ Linked(x)
  <2>1. ASSUME Linked(x)' PROVE x = e \/ Linked(x)
    <3>1. PICK i \in 1..(1 + Len(waiters)) : waiters'[i] = x
      BY <1>4, <2>1 DEF Linked
    <3>2. CASE i = 1
      BY <1>2, <1>3, <3>1, <3>2
    <3>3. CASE i # 1
      <4>1. i - 1 \in 1..Len(waiters) /\ waiters[i - 1] = x
        BY <1>3, <1>4, <3>1, <3>3
      <4> QED
        BY <1>4, <4>1, Zenon DEF Linked
    <3> QED
      BY <3>2, <3>3
  <2>2. Linked(e)'
    <3>1. 1 \in 1..(1 + Len(waiters)) /\ waiters'[1] = e
      BY <1>2, <1>3, <1>4
    <3> QED
      BY <1>4, <3>1 DEF Linked
  <2>3. ASSUME Linked(x) PROVE Linked(x)'
    <3>1. PICK i \in 1..Len(waiters) : waiters[i] = x
      BY <1>4, <2>3 DEF Linked
    <3>2. i + 1 \in 1..(1 + Len(waiters)) /\ waiters'[i + 1] = x
      BY <1>3, <1>4, <3>1
    <3> QED
      BY <1>4, <3>2 DEF Linked
  <2> QED
    BY <2>1, <2>2, <2>3
<1> QED
  BY <1>3, <1>5

\* An entry that a step leaves alone stays in its phase.
Same(e) ==
  /\ memory'[e] = memory[e] /\ promise'[e] = promise[e]
  /\ settle_state'[e] = settle_state[e]
  /\ open'[e] = open[e] /\ closing'[e] = closing[e]
  /\ (e \in sent' <=> e \in sent) /\ (Linked(e)' <=> Linked(e))
LEMMA SamePhase ==
  ASSUME NEW e, InPhase(e), Same(e)
  PROVE  InPhase(e)'
<1> USE DEF Same, OffList, Settled
<1>1. Fresh(e) => Fresh(e)'
  BY DEF Fresh
<1>2. OnList(e) => OnList(e)'
  BY DEF OnList
<1>3. Settling(e) => Settling(e)'
  BY DEF Settling
<1>4. Closing(e) => Closing(e)'
  BY DEF Closing
<1>5. Freed(e) => Freed(e)'
  BY DEF Freed
<1> QED
  BY <1>1, <1>2, <1>3, <1>4, <1>5, Zenon DEF InPhase
-----------------------------------------------------------------------------
\* The number of handles of an entry.
LEMMA HandleCount ==
  /\ Cardinality({}) = 0 /\ Cardinality({"async"}) = 1
  /\ Cardinality({"async", "timer"}) = 2
<1>1. IsFiniteSet({"async"}) /\ Cardinality({"async"}) = 1
  BY FS_Singleton
<1>2. Cardinality({"async"} \cup {"timer"}) = 2
  BY <1>1, FS_AddElement
<1>3. {"async"} \cup {"timer"} = {"async", "timer"}
  OBVIOUS
<1> QED
  BY <1>1, <1>2, <1>3, FS_EmptySet

LEMMA HandlesFinite ==
  ASSUME NEW H \in SUBSET Handles
  PROVE  IsFiniteSet(H)
<1>1. IsFiniteSet({"async"} \cup {"timer"})
  BY FS_Singleton, FS_AddElement
<1>2. H \in SUBSET ({"async"} \cup {"timer"})
  BY DEF Handles
<1> QED
  BY <1>1, <1>2, FS_Subset, Zenon

\* The waiters settled with "ok", by a notify that counted them.
Ok == {e \in Waiter : promise[e] = "ok" \/ settle_state[e] = "ok"}

LEMMA WaitAsyncStep ==
  ASSUME Inv, NEW e \in Waiter, NEW a, NEW t \in BOOLEAN, js_atomics_waitAsync(e, a, t)
  PROVE  Inv'
<1> USE DEF js_atomics_waitAsync
<1>0. Types /\ Phases /\ HandlesCounted /\ NotifyCountExact
  BY DEF Inv
<1>1. waiters' \in Seq(Waiter) /\ \A x : Linked(x)' <=> x = e \/ Linked(x)
  BY <1>0, AddFacts DEF Types
<1>2. Fresh(e)
  BY <1>0 DEF Phases, InPhase, OnList, Settling, Closing, Freed
<1>3. Types'
  BY <1>0, <1>1 DEF Types, Handles
<1>4. ASSUME NEW x \in Waiter PROVE InPhase(x)'
  <2>1. CASE x = e
    BY <1>0, <1>1, <1>2, <2>1 DEF Types, InPhase, OnList, Fresh, OffList
  <2>2. CASE x # e
    <3>1. Same(x)
      BY <1>0, <1>1, <2>2 DEF Types, Same
    <3> QED
      BY <1>0, <3>1, SamePhase DEF Phases
  <2> QED
    BY <2>1, <2>2
<1>5. ASSUME NEW x \in Waiter
      PROVE  pending_handles'[x] = Cardinality(open'[x] \cup closing'[x])
  <2>1. CASE x = e
    <3>1. closing'[e] = {} /\ open'[e] \cup {} = open'[e]
      BY <1>0, <1>2 DEF Types, Fresh
    <3>2. open'[e] = (IF t THEN {"async", "timer"} ELSE {"async"})
      BY <1>0 DEF Types
    <3>3. pending_handles'[e] = IF t THEN 2 ELSE 1
      BY <1>0 DEF Types
    <3> QED
      BY <2>1, <3>1, <3>2, <3>3, HandleCount
  <2>2. CASE x # e
    BY <1>0, <2>2 DEF HandlesCounted, Types
  <2> QED
    BY <2>1, <2>2
<1>6. NotifyCountExact'
  <2>1. Ok' = Ok
    BY <1>0, <1>2 DEF Ok, Types, Fresh
  <2> QED
    BY <1>0, <2>1 DEF Ok, NotifyCountExact
<1> QED
  BY <1>3, <1>4, <1>5, <1>6 DEF Inv, Phases, HandlesCounted

LEMMA NotifyStep ==
  ASSUME Inv, IsFiniteSet(Waiter), NEW a, NEW count, js_atomics_notify(a, count)
  PROVE  Inv'
<1> DEFINE woken == {waiters[i] : i \in Chosen(a, count)}
<1>0. Types /\ Phases /\ HandlesCounted /\ NotifyCountExact
  BY DEF Inv
<1>1. /\ async_waiter_remove(woken)
      /\ settle_state' = [e \in Waiter |-> IF e \in woken THEN "ok" ELSE settle_state[e]]
      /\ sent' = sent \cup woken
      /\ notified' = notified + Cardinality(woken)
      /\ UNCHANGED <<open, closing, pending_handles, promise, memory>>
  BY DEF js_atomics_notify
<1>2. \A x \in woken : x \in Waiter /\ Linked(x)
  <2>1. \A i \in Chosen(a, count) : i \in DOMAIN waiters
    BY DEF Chosen
  <2> QED
    BY <1>0, <2>1, LenProperties DEF Linked, Types
<1> HIDE DEF woken
<1>3. waiters' \in Seq(Waiter) /\ \A x : Linked(x)' <=> Linked(x) /\ x \notin woken
  BY <1>0, <1>1, RemoveFacts DEF Types
<1>4. \A x \in woken : OnList(x)
  BY <1>0, <1>2 DEF Phases, InPhase, Fresh, Settling, Closing, Freed, OffList
<1>5. IsFiniteSet(woken) /\ Cardinality(woken) \in Nat
  BY <1>2, FS_Subset, FS_CardinalityType
<1>6. Types'
  BY <1>0, <1>1, <1>2, <1>3, <1>5 DEF Types
<1>7. ASSUME NEW x \in Waiter PROVE InPhase(x)'
  <2>1. CASE x \in woken
    BY <1>0, <1>1, <1>3, <1>4, <2>1 DEF Types, InPhase, Settling, OnList
  <2>2. CASE x \notin woken
    <3>1. Same(x)
      BY <1>0, <1>1, <1>3, <2>2 DEF Types, Same
    <3> QED
      BY <1>0, <3>1, SamePhase DEF Phases
  <2> QED
    BY <2>1, <2>2
<1>8. HandlesCounted'
  BY <1>0, <1>1 DEF HandlesCounted
<1>9. NotifyCountExact'
  <2>1. Ok' = Ok \cup woken
    BY <1>0, <1>1, <1>2 DEF Ok, Types
  <2>2. Ok \cap woken = {}
    BY <1>4 DEF Ok, OnList
  <2>3. IsFiniteSet(Ok)
    BY FS_Subset DEF Ok
  <2>4. Cardinality(Ok \cup woken) = Cardinality(Ok) + Cardinality(woken)
    <3>1. Cardinality(Ok \cup woken)
            = Cardinality(Ok) + Cardinality(woken) - Cardinality(Ok \cap woken)
      BY <1>5, <2>3, FS_Union
    <3>2. Cardinality(Ok \cap woken) = 0 /\ Cardinality(Ok) \in Nat
      BY <2>2, <2>3, FS_EmptySet, FS_CardinalityType, Zenon
    <3> QED
      BY <1>5, <3>1, <3>2
  <2> QED
    BY <1>0, <1>1, <2>1, <2>4 DEF Ok, NotifyCountExact
<1> QED
  BY <1>6, <1>7, <1>8, <1>9 DEF Inv, Phases

LEMMA TimeoutStep ==
  ASSUME Inv, NEW e \in Waiter, async_waiter_timeout_cb(e)
  PROVE  Inv'
<1> USE DEF async_waiter_timeout_cb
<1>0. Types /\ Phases /\ HandlesCounted /\ NotifyCountExact
  BY DEF Inv
<1>1. waiters' \in Seq(Waiter) /\ \A x : Linked(x)' <=> Linked(x) /\ x \notin {e}
  BY <1>0, RemoveFacts DEF Types
<1>2. OnList(e)
  BY <1>0 DEF Phases, InPhase, Fresh, Settling, Closing, Freed, OffList
<1>3. Types'
  BY <1>0, <1>1 DEF Types
<1>4. ASSUME NEW x \in Waiter PROVE InPhase(x)'
  <2>1. CASE x = e
    BY <1>0, <1>1, <1>2, <2>1 DEF Types, InPhase, Settling, OnList
  <2>2. CASE x # e
    <3>1. Same(x)
      BY <1>0, <1>1, <2>2 DEF Types, Same
    <3> QED
      BY <1>0, <3>1, SamePhase DEF Phases
  <2> QED
    BY <2>1, <2>2
<1>5. HandlesCounted'
  BY <1>0 DEF HandlesCounted
<1>6. NotifyCountExact'
  <2>1. Ok' = Ok
    BY <1>0, <1>2 DEF Ok, Types, OnList
  <2> QED
    BY <1>0, <2>1 DEF Ok, NotifyCountExact
<1> QED
  BY <1>3, <1>4, <1>5, <1>6 DEF Inv, Phases

LEMMA AsyncStep ==
  ASSUME Inv, NEW e \in Waiter, async_waiter_async_cb(e)
  PROVE  Inv'
<1> USE DEF async_waiter_async_cb
<1>0. Types /\ Phases /\ HandlesCounted /\ NotifyCountExact
  BY DEF Inv
<1>1. \A x : Linked(x)' <=> Linked(x)
  BY DEF Linked
<1>2. Settling(e)
  BY <1>0 DEF Phases, InPhase, Fresh, OnList, Closing, Freed, OffList
<1>3. Types'
  BY <1>0, <1>2 DEF Types, Settling
<1>4. ASSUME NEW x \in Waiter PROVE InPhase(x)'
  <2>1. CASE x = e
    <3>1. closing'[e] # {} /\ open'[e] = {} /\ memory'[e] = "live"
      BY <1>0, <1>2 DEF Types, Settling
    <3>2. promise'[e] \in {"ok", "timed-out"} /\ settle_state'[e] = "none"
          /\ e \notin sent' /\ ~Linked(e)'
      BY <1>0, <1>1, <1>2 DEF Types, Settling
    <3> QED
      BY <2>1, <3>1, <3>2 DEF InPhase, Closing, Settled, OffList
  <2>2. CASE x # e
    <3>1. Same(x)
      BY <1>0, <1>1, <2>2 DEF Types, Same
    <3> QED
      BY <1>0, <3>1, SamePhase DEF Phases
  <2> QED
    BY <2>1, <2>2
<1>5. ASSUME NEW x \in Waiter
      PROVE  pending_handles'[x] = Cardinality(open'[x] \cup closing'[x])
  <2>1. open'[x] \cup closing'[x] = open[x] \cup closing[x]
    BY <1>0, <1>2 DEF Types, Settling
  <2> QED
    BY <1>0, <2>1 DEF HandlesCounted
<1>6. NotifyCountExact'
  <2>1. Ok' = Ok
    BY <1>0, <1>2 DEF Ok, Types, Settling
  <2> QED
    BY <1>0, <2>1 DEF Ok, NotifyCountExact
<1> QED
  BY <1>3, <1>4, <1>5, <1>6 DEF Inv, Phases, HandlesCounted

LEMMA CloseStep ==
  ASSUME Inv, NEW e \in Waiter, NEW h \in Handles, async_waiter_close_cb(e, h)
  PROVE  Inv'
<1> USE DEF async_waiter_close_cb
<1>0. Types /\ Phases /\ HandlesCounted /\ NotifyCountExact
  BY DEF Inv
<1>1. \A x : Linked(x)' <=> Linked(x)
  BY DEF Linked
<1>2. Closing(e) /\ open[e] \cup closing[e] = closing[e]
  BY <1>0 DEF Phases, InPhase, Fresh, OnList, Settling, Freed, Closing
<1>3. /\ pending_handles[e] = Cardinality(closing[e])
      /\ IsFiniteSet(closing[e]) /\ Cardinality(closing[e]) \in Nat
      /\ Cardinality(closing[e] \ {h}) = pending_handles[e] - 1
      /\ IsFiniteSet(closing[e] \ {h}) /\ Cardinality(closing[e] \ {h}) \in Nat
  <2>1. pending_handles[e] = Cardinality(closing[e])
    BY <1>0, <1>2 DEF HandlesCounted
  <2>2. IsFiniteSet(closing[e])
    BY <1>0, HandlesFinite DEF Types
  <2>3. Cardinality(closing[e] \ {h}) = Cardinality(closing[e]) - 1
        /\ IsFiniteSet(closing[e] \ {h})
    BY <2>2, FS_RemoveElement
  <2> QED
    BY <2>1, <2>2, <2>3, FS_CardinalityType
<1>4. closing'[e] = closing[e] \ {h}
      /\ (pending_handles[e] = 1 <=> closing[e] \ {h} = {})
  <2>1. pending_handles[e] = 1 <=> Cardinality(closing[e] \ {h}) = 0
    BY <1>3
  <2> QED
    BY <1>0, <1>3, <2>1, FS_EmptySet DEF Types
<1>5. Types'
  <2>1. pending_handles' \in [Waiter -> Nat]
    BY <1>0, <1>3 DEF Types
  <2> QED
    BY <1>0, <2>1 DEF Types
<1>6. ASSUME NEW x \in Waiter PROVE InPhase(x)'
  <2>1. CASE x = e
    <3>1. memory'[e] = IF pending_handles[e] = 1 THEN "freed" ELSE "live"
      BY <1>0, <1>2 DEF Types, Closing
    <3>2. OffList(e)' /\ Settled(e)' /\ open'[e] = {}
      BY <1>1, <1>2 DEF Closing, OffList, Settled
    <3> QED
      BY <1>4, <2>1, <3>1, <3>2 DEF InPhase, Closing, Freed
  <2>2. CASE x # e
    <3>1. Same(x)
      BY <1>0, <1>1, <2>2 DEF Types, Same
    <3> QED
      BY <1>0, <3>1, SamePhase DEF Phases
  <2> QED
    BY <2>1, <2>2
<1>7. ASSUME NEW x \in Waiter
      PROVE  pending_handles'[x] = Cardinality(open'[x] \cup closing'[x])
  <2>1. CASE x = e
    <3>1. open'[e] \cup closing'[e] = closing[e] \ {h}
      BY <1>2, <1>4 DEF Closing
    <3>2. pending_handles'[e] = pending_handles[e] - 1
      BY <1>0 DEF Types
    <3> QED
      BY <1>3, <2>1, <3>1, <3>2
  <2>2. CASE x # e
    BY <1>0, <2>2 DEF Types, HandlesCounted
  <2> QED
    BY <2>1, <2>2
<1>8. NotifyCountExact'
  BY <1>0 DEF NotifyCountExact
<1> QED
  BY <1>5, <1>6, <1>7, <1>8 DEF Inv, Phases, HandlesCounted
-----------------------------------------------------------------------------
LEMMA InitInv == Init => Inv
<1> SUFFICES ASSUME Init PROVE Inv
  OBVIOUS
<1> USE DEF Init
<1>1. Types
  BY EmptySeq DEF Types
<1>2. \A e : ~Linked(e)
  BY DEF Linked
<1>3. Phases
  BY <1>2 DEF Phases, InPhase, Fresh, OffList
<1>4. HandlesCounted
  BY HandleCount DEF HandlesCounted
<1>5. NotifyCountExact
  <2>1. {e \in Waiter : promise[e] = "ok" \/ settle_state[e] = "ok"} = {}
    OBVIOUS
  <2> QED
    BY <2>1, HandleCount DEF NotifyCountExact
<1> QED
  BY <1>1, <1>3, <1>4, <1>5 DEF Inv

LEMMA InvStep == IsFiniteSet(Waiter) /\ Inv /\ [Next]_vars => Inv'
<1> SUFFICES ASSUME IsFiniteSet(Waiter), Inv, [Next]_vars PROVE Inv'
  OBVIOUS
<1>1. CASE \E e \in Waiter, a \in Address, t \in BOOLEAN : js_atomics_waitAsync(e, a, t)
  BY <1>1, WaitAsyncStep
<1>2. CASE \E a \in Address, count \in 0..Cardinality(Waiter) : js_atomics_notify(a, count)
  BY <1>2, NotifyStep
<1>3. ASSUME NEW e \in Waiter, async_waiter_timeout_cb(e) PROVE Inv'
  BY <1>3, TimeoutStep
<1>4. ASSUME NEW e \in Waiter, async_waiter_async_cb(e) PROVE Inv'
  BY <1>4, AsyncStep
<1>5. ASSUME NEW e \in Waiter, NEW h \in {"async", "timer"}, async_waiter_close_cb(e, h)
      PROVE  Inv'
  BY <1>5, CloseStep, SMTT(20) DEF Handles
<1>6. CASE UNCHANGED vars
  BY <1>6, SMTT(20) DEF vars, Inv, Types, Phases, HandlesCounted, NotifyCountExact, InPhase, Fresh,
     OnList, Settling, Closing, Freed, OffList, Settled, Linked
<1> QED
  BY <1>1, <1>2, <1>3, <1>4, <1>5, <1>6, Zenon DEF Next

LEMMA InvImplies == Inv => NotifyCountExact /\ FreedAfterHandles
<1> SUFFICES ASSUME Inv PROVE NotifyCountExact /\ FreedAfterHandles
  OBVIOUS
<1>1. ASSUME NEW e \in Waiter
      PROVE  /\ memory[e] = "live" <=> open[e] \cup closing[e] # {}
             /\ memory[e] = "freed" => /\ ~Linked(e) /\ e \notin sent
                                       /\ promise[e] \in {"ok", "timed-out"}
  <2>1. InPhase(e)
    BY DEF Inv, Phases
  <2> QED
    BY <2>1 DEF InPhase, Fresh, OnList, Settling, Closing, Freed, OffList, Settled
<1> QED
  BY <1>1 DEF Inv, HandlesCounted, FreedAfterHandles

\* Every waiter is answered once and as notify counted it, and its memory is
\* freed by the close callback of its last handle, however notifies, timeouts and
\* the callbacks of libuv follow each other (src/modules/atomics.c).
THEOREM WaitersAreSettledOnce ==
  ASSUME IsFiniteSet(Waiter)
  PROVE  Spec => [](NotifyCountExact /\ FreedAfterHandles)
<1>1. Inv /\ [Next]_vars => Inv'
  BY InvStep
<1> QED
  BY <1>1, InitInv, InvImplies, PTL DEF Spec
-----------------------------------------------------------------------------
\* A step keeps ClosesWhenDrained: a function that is closing accepts nothing
\* (napi_call_threadsafe_function), and napi_tsfn_async_cb leaves its loop only
\* with an empty queue.
LEMMA DrainedStep == Function!ClosesWhenDrained /\ [Function!Next]_(Function!vars) => Function!ClosesWhenDrained'
<1> SUFFICES ASSUME Function!ClosesWhenDrained, [Function!Next]_(Function!vars)
             PROVE  Function!ClosesWhenDrained'
  OBVIOUS
<1> USE DEF Function!ClosesWhenDrained, Function!state
<1>1. ASSUME NEW t \in Thread, Function!Call(t) PROVE Function!ClosesWhenDrained'
  BY <1>1 DEF Function!Call
<1>2. ASSUME NEW t \in Thread, Function!Send(t) PROVE Function!ClosesWhenDrained'
  BY <1>2 DEF Function!Send
<1>3. ASSUME NEW t \in Thread, Function!Acquire(t) PROVE Function!ClosesWhenDrained'
  BY <1>3 DEF Function!Acquire
<1>4. ASSUME NEW t \in Thread, NEW abort \in BOOLEAN, Function!Release(t, abort)
      PROVE  Function!ClosesWhenDrained'
  BY <1>4 DEF Function!Release
<1>5. CASE Function!Wake
  BY <1>5 DEF Function!Wake
<1>6. CASE Function!Take
  BY <1>6 DEF Function!Take
<1>7. CASE Function!Called
  BY <1>7 DEF Function!Called
<1>8. CASE Function!Drained
  BY <1>8 DEF Function!Drained
<1>9. CASE Function!CloseCb
  BY <1>9 DEF Function!CloseCb
<1>10. CASE UNCHANGED Function!vars
  BY <1>10 DEF Function!vars
<1> QED
  BY <1>1, <1>2, <1>3, <1>4, <1>5, <1>6, <1>7, <1>8, <1>9, <1>10 DEF Function!Next

\* The handle of a function is closed only when no call waits and none can come
\* (napi_tsfn_maybe_finish), whatever the other threads do.
THEOREM ClosedAfterDrain == Function!Spec => []Function!ClosesWhenDrained
<1>1. Function!Init => Function!ClosesWhenDrained
  BY DEF Function!Init, Function!ClosesWhenDrained
<1> QED
  BY <1>1, DrainedStep, PTL DEF Function!Spec

\* One step of the function, seen through Phase, is a step of the channel.
LEMMA ChannelStep ==
  Function!ClosesWhenDrained /\ [Function!Next]_(Function!vars) => [Function!Channel!Next]_(Function!Channel!vars)
<1> SUFFICES ASSUME Function!ClosesWhenDrained, [Function!Next]_(Function!vars)
             PROVE  [Function!Channel!Next]_(Function!Channel!vars)
  OBVIOUS
<1> USE DEF Function!Channel!vars, Function!Phase, Function!state
<1>1. ASSUME NEW t \in Thread, Function!Call(t) PROVE Function!Channel!Accept
  BY <1>1 DEF Function!Call, Function!Usable, Function!Total, Function!Channel!Accept
<1>2. ASSUME NEW t \in Thread, Function!Send(t) PROVE UNCHANGED Function!Channel!vars
  BY <1>2 DEF Function!Send
<1>3. ASSUME NEW t \in Thread, Function!Acquire(t) PROVE UNCHANGED Function!Channel!vars
  BY <1>3 DEF Function!Acquire
<1>4. ASSUME NEW t \in Thread, NEW abort \in BOOLEAN, Function!Release(t, abort)
      PROVE  Function!Channel!Close \/ UNCHANGED Function!Channel!vars
  BY <1>4 DEF Function!Release, Function!Usable, Function!Channel!Close, Function!ClosesWhenDrained
<1>5. CASE Function!Wake
  BY <1>5 DEF Function!Wake
<1>6. CASE Function!Take
  <2>1. Function!Channel!Make
    BY <1>6 DEF Function!Take, Function!Channel!Make, Function!ClosesWhenDrained
  <2> QED
    BY <2>1 DEF Function!Channel!Next
<1>7. CASE Function!Called
  BY <1>7 DEF Function!Called
<1>8. CASE Function!Drained
  BY <1>8 DEF Function!Drained, Function!ClosesWhenDrained
<1>9. CASE Function!CloseCb
  <2>1. Function!Channel!Finalize
    BY <1>9 DEF Function!CloseCb, Function!Channel!Finalize, Function!ClosesWhenDrained
  <2> QED
    BY <2>1 DEF Function!Channel!Next
<1>10. CASE UNCHANGED Function!vars
  BY <1>10 DEF Function!vars
<1> QED
  BY <1>1, <1>2, <1>3, <1>4, <1>5, <1>6, <1>7, <1>8, <1>9, <1>10
  DEF Function!Next, Function!Channel!Next

\* A thread-safe function is the channel of CallChannel, its liveness apart: an
\* accepted call is made once and in order, none is accepted after the close,
\* and the finaliser of napi_tsfn_close_cb comes after the last call.
THEOREM FunctionIsChannel ==
  Function!Spec => Function!Channel!Init /\ [][Function!Channel!Next]_(Function!Channel!vars)
<1>1. Function!Init => Function!Channel!Init
  BY DEF Function!Init, Function!Channel!Init, Function!Phase
<1> QED
  BY <1>1, ClosedAfterDrain, ChannelStep, PTL DEF Function!Spec
=============================================================================
