-------------------------- MODULE HandlerListProofs --------------------------
(***************************************************************************)
(* Proofs about the reaction list of a promise, for any number of          *)
(* reactions the 16-bit counter can hold (NoWrap).                         *)
(***************************************************************************)
EXTENDS HandlerList, TLAPS

\* handler_count never reaches its modulus.
NoWrap == MaxHandlers < CountMod

\* The three storage fields agree: up to one reaction lives inline, more of
\* them in the array, and the counter is their number.
StorageOK ==
  /\ handler_count \in Nat
  /\ inline_handler \in Handler
  /\ handlers \in Seq(Handler)
  /\ handler_count <= 1 => handlers = <<>>
  /\ handler_count > 1 => Len(handlers) = handler_count

\* The locals of a batch in progress describe the list it runs over.
Batch ==
  /\ i <= len
  /\ pc = "call" => i >= 1
  /\ pc # "idle" => state # 0 /\ gc_pending_rooted
  /\ pc # "idle" /\ inline_batch => len = 1
  /\ pc # "idle" /\ ~inline_batch => len >= 2 /\ len <= handler_count

\* Jobs and roots follow the settlement and the list.
Scheduling ==
  /\ trigger_queued => state # 0
  /\ state = 0 /\ handler_count # 0 => gc_pending_rooted
  /\ pc = "idle" /\ gc_pending_rooted => handler_count # 0
  /\ SettledIsScheduled
  /\ RootIsTemporary

Counted == handler_count <= attached

IInv == TypeOK /\ StorageOK /\ Counted /\ Batch /\ Scheduling

\* The invariant holds initially.
LEMMA InitIInv == Init => IInv
<1> SUFFICES ASSUME Init PROVE IInv
  OBVIOUS
<1> USE ListAssumption DEF Init
<1>1. TypeOK
  <2>1. FlagsOK
    BY DEF FlagsOK
  <2> QED BY <2>1 DEF TypeOK, Handler, Dead
<1>2. StorageOK /\ Counted /\ Batch
  BY DEF StorageOK, Counted, Batch, Handler, Dead
<1>3. Scheduling
  BY DEF Scheduling, SettledIsScheduled, OutsideBatch, RootIsTemporary
<1> QED BY <1>1, <1>2, <1>3 DEF IInv

\* The counter arithmetic of the C code is exact below the modulus.
LEMMA ModAdd ==
  ASSUME NEW m \in Nat, NEW a \in Nat, a < m
  PROVE  a % m = a
  OBVIOUS

LEMMA ModSub ==
  ASSUME NEW m \in Nat, NEW a \in Nat, NEW b \in Nat, b <= a, a < m, b > 0
  PROVE  (a + m - b) % m = a - b
  OBVIOUS

\* promise_handler_append adds one reaction and keeps the fields in agreement.
LEMMA AppendStorage ==
  ASSUME StorageOK, NEW h \in Handler, handler_count + 1 < CountMod,
         promise_handler_append(h)
  PROVE  StorageOK' /\ handler_count' = handler_count + 1
<1> USE ListAssumption DEF StorageOK, promise_handler_append
<1>1. (handler_count + 1) % CountMod = handler_count + 1
  <2>1. handler_count + 1 \in Nat /\ CountMod \in Nat
    OBVIOUS
  <2> QED BY <2>1, ModAdd
<1>2. handler_count' = handler_count + 1
  BY <1>1
<1>3. CASE handler_count = 0
  BY <1>2, <1>3
<1>4. CASE handler_count = 1
  <2>1. handlers' = <<inline_handler, h>> /\ inline_handler' = inline_handler
    BY <1>4
  <2>2. <<inline_handler, h>> \in Seq(Handler) /\ Len(<<inline_handler, h>>) = 2
    OBVIOUS
  <2> QED BY <1>2, <1>4, <2>1, <2>2
<1>5. CASE handler_count > 1
  <2>1. handlers' = Append(handlers, h) /\ inline_handler' = inline_handler
    BY <1>5
  <2> QED BY <1>2, <1>5, <2>1
<1> QED BY <1>2, <1>3, <1>4, <1>5

\* Discarding the prefix of a batch leaves the reactions behind it.
LEMMA DiscardStorage ==
  ASSUME StorageOK, NEW n \in Nat, n >= 2, n <= handler_count,
         handler_count < CountMod,
         promise_handlers_discard_processed_prefix(n)
  PROVE  StorageOK' /\ handler_count' = handler_count - n
<1> USE ListAssumption DEF StorageOK, promise_handlers_discard_processed_prefix
<1>1. CASE n = handler_count
  BY <1>1 DEF promise_handlers_clear, Handler, Dead
<1>2. CASE n # handler_count
  <2> DEFINE rest == SubSeq(handlers, n + 1, Len(handlers))
  <2>1. (handler_count + CountMod - n) % CountMod = handler_count - n
    <3>1. /\ handler_count \in Nat /\ CountMod \in Nat /\ n \in Nat
          /\ n <= handler_count /\ handler_count < CountMod /\ n > 0
      OBVIOUS
    <3> HIDE DEF StorageOK, promise_handlers_discard_processed_prefix
    <3> QED BY <3>1, ModSub
  <2>2. handler_count' = handler_count - n
    BY <1>2, <2>1
  <2>3. rest \in Seq(Handler) /\ Len(rest) = handler_count - n
    BY <1>2
  <2>4. rest[1] \in Handler
    BY <1>2, <2>3
  <2>5. handler_count' = 1 => inline_handler' = rest[1] /\ handlers' = <<>>
    BY <1>2
  <2>6. handler_count' # 1 => inline_handler' = Dead /\ handlers' = rest
    BY <1>2
  <2> HIDE DEF rest
  <2>7. Dead \in Handler /\ <<>> \in Seq(Handler)
    BY DEF Handler, Dead
  <2> HIDE DEF promise_handlers_discard_processed_prefix
  <2>8. CASE handler_count' = 1
    <3>1. inline_handler' \in Handler /\ handlers' = <<>>
      BY <2>4, <2>5, <2>8
    <3>2. handlers' \in Seq(Handler)
      BY <3>1, <2>7
    <3> QED BY <3>1, <3>2, <2>2, <2>8
  <2>9. CASE handler_count' # 1
    <3>1. handler_count' \in Nat /\ handler_count' > 1
      BY <1>2, <2>2, <2>9
    <3>2. handlers' \in Seq(Handler) /\ Len(handlers') = handler_count'
      BY <2>2, <2>3, <2>6, <2>9
    <3>3. inline_handler' \in Handler
      BY <2>6, <2>7, <2>9
    <3> QED BY <3>1, <3>2, <3>3, <2>2
  <2> QED BY <2>8, <2>9
<1> QED BY <1>1, <1>2

\* Clearing a registration changes neither the length nor the fields' agreement.
LEMMA ClearStorage ==
  ASSUME StorageOK, NEW c, js_promise_clear_await_coroutine(c)
  PROVE  StorageOK' /\ handler_count' = handler_count
<1> USE ListAssumption DEF StorageOK, js_promise_clear_await_coroutine, Clear,
      Handler, Dead
<1>1. handlers' \in Seq(Handler) /\ Len(handlers') = Len(handlers)
  <2>1. CASE handler_count > 1
    <3> DEFINE new == [k \in 1..Len(handlers) |-> Clear(handlers[k], c)]
    <3>1. handlers' = new /\ Len(handlers) \in Nat
      BY <2>1
    <3>2. \A k \in 1..Len(handlers) : Clear(handlers[k], c) \in Handler
      <4>1. handlers \in Seq(Handler) /\ Dead \in Handler
        OBVIOUS
      <4> HIDE DEF StorageOK, js_promise_clear_await_coroutine, Handler, Dead
      <4>2. \A k \in 1..Len(handlers) : handlers[k] \in Handler
        BY <4>1
      <4> QED BY <4>1, <4>2, Zenon DEF Clear
    <3> HIDE DEF StorageOK, js_promise_clear_await_coroutine, Clear, Handler, Dead
    <3>3. new \in Seq(Handler) /\ Len(new) = Len(handlers)
      BY <3>1, <3>2
    <3> QED BY <3>1, <3>3
  <2>2. CASE ~(handler_count > 1)
    BY <2>2
  <2> QED BY <2>1, <2>2
<1>2. inline_handler' \in Handler
  OBVIOUS
<1>3. handler_count' = handler_count /\ (handler_count <= 1 => handlers' = handlers)
  OBVIOUS
<1> QED BY <1>1, <1>2, <1>3

\* Every step keeps it, as long as the counter does not wrap.
LEMMA NextIInv == NoWrap /\ IInv /\ [Next]_vars => IInv'
<1> SUFFICES ASSUME NoWrap, IInv, [Next]_vars PROVE IInv'
  OBVIOUS
<1> USE ListAssumption DEF NoWrap, IInv, Counted, Handler
<1> USE DEF storage, locals, history
<1>1. CASE AttachHandler
  <2> USE <1>1 DEF AttachHandler, UserCode, RootOrTrigger
  <2>1. attached' \in Handler /\ handler_count + 1 < CountMod
    BY DEF TypeOK
  <2>2. StorageOK' /\ handler_count' = handler_count + 1
    BY <2>1, AppendStorage DEF TypeOK
  <2>3. FlagsOK'
    BY DEF TypeOK, FlagsOK
  <2>4. TypeOK' /\ Counted'
    BY <2>1, <2>2, <2>3 DEF TypeOK, StorageOK
  <2>5. Batch'
    BY <2>2 DEF Batch, TypeOK
  <2>6. Scheduling'
    BY <2>2 DEF Batch, Scheduling, SettledIsScheduled, OutsideBatch,
                RootIsTemporary, TypeOK
  <2> QED BY <2>2, <2>4, <2>5, <2>6
<1>2. CASE js_resolve_promise \/ js_reject_promise
  <2> USE <1>2 DEF js_resolve_promise, js_reject_promise, UserCode
  <2>1. FlagsOK'
    BY DEF TypeOK, FlagsOK
  <2>2. state' \in 1..2 /\ state = 0
    OBVIOUS
  <2>3. UNCHANGED <<storage, gc_pending_rooted, attached, pc, locals, current,
                    history>>
    OBVIOUS
  <2>4. handler_count # 0 => trigger_queued'
    OBVIOUS
  <2>5. TypeOK' /\ StorageOK' /\ Counted'
    BY <2>1, <2>2, <2>3 DEF TypeOK, StorageOK
  <2>6. Batch'
    BY <2>2, <2>3 DEF Batch
  <2>7. pc = "idle"
    BY <2>2 DEF Batch
  <2>8. Scheduling'
    BY <2>2, <2>3, <2>4, <2>7 DEF Scheduling, SettledIsScheduled, OutsideBatch,
           RootIsTemporary
  <2> QED BY <2>5, <2>6, <2>8
<1>3. ASSUME NEW c \in Awaits, CancelAwait(c) PROVE IInv'
  <2> USE <1>3 DEF CancelAwait, UserCode
  <2>1. StorageOK' /\ handler_count' = handler_count
    BY ClearStorage
  <2>2. FlagsOK'
    BY DEF TypeOK, FlagsOK
  <2>3. TypeOK' /\ Counted'
    BY <2>1, <2>2 DEF TypeOK, StorageOK
  <2>4. Batch'
    BY <2>1 DEF Batch
  <2>5. Scheduling'
    BY <2>1 DEF Scheduling, SettledIsScheduled, OutsideBatch, RootIsTemporary
  <2> QED BY <2>1, <2>3, <2>4, <2>5
<1>4. CASE BeginBatch
  <2> USE <1>4 DEF BeginBatch, promise_handlers_clear
  <2>1. FlagsOK'
    BY DEF TypeOK, FlagsOK
  <2>2. StorageOK' /\ Counted'
    BY DEF StorageOK, Dead, TypeOK
  <2>3. TypeOK'
    <3>1. /\ (len' = len /\ i' = i) \/ (len' = handler_count /\ i' = 0)
          /\ (handler_count' = handler_count) \/ (handler_count' = 0)
      OBVIOUS
    <3>2. batch_handler' \in Handler /\ pc' \in {"idle", "loop", "call"}
      BY DEF TypeOK, Dead, Handler
    <3>3. /\ state' = state /\ attached' = attached /\ current' = current
          /\ ran' = ran /\ withdrawn' = withdrawn
      OBVIOUS
    <3> HIDE <1>4 DEF BeginBatch, promise_handlers_clear
    <3>4. /\ handler_count' \in 0..(CountMod - 1) /\ len' \in 0..(CountMod - 1)
          /\ i' \in 0..(CountMod - 1)
      BY <3>1 DEF TypeOK
    <3>5. inline_handler' \in Handler /\ handlers' \in Seq(Handler)
      BY <2>2 DEF StorageOK
    <3> QED BY <2>1, <3>2, <3>3, <3>4, <3>5 DEF TypeOK
  <2>4. state # 0 /\ state' = state
    BY DEF Scheduling
  <2>5. CASE handler_count = 0
    <3>1. UNCHANGED <<storage, gc_pending_rooted, pc, locals>>
      BY <2>5
    <3> QED BY <2>2, <2>3, <2>4, <2>5, <3>1 DEF Batch, Scheduling,
              SettledIsScheduled, OutsideBatch, RootIsTemporary
  <2>6. CASE handler_count = 1
    <3>1. len' = 1 /\ i' = 0 /\ handler_count' = 0
      BY <2>6
    <3>2. inline_batch'
      <4>1. handler_count # 0
        BY <2>6
      <4> QED BY <2>6, <4>1, Zenon
    <3>3. gc_pending_rooted' /\ pc' = "loop" /\ ~trigger_queued'
      BY <2>6
    <3> QED BY <2>2, <2>3, <2>4, <3>1, <3>2, <3>3 DEF Batch, Scheduling,
              SettledIsScheduled, OutsideBatch, RootIsTemporary
  <2>7. CASE handler_count > 1
    <3>1. len' = handler_count /\ i' = 0 /\ handler_count' = handler_count
      BY <2>7
    <3>2. ~inline_batch'
      <4>1. handler_count # 0 /\ handler_count # 1
        BY <2>7
      <4> QED BY <4>1
    <3>3. gc_pending_rooted' /\ pc' = "loop" /\ ~trigger_queued'
      BY <2>7
    <3> QED BY <2>2, <2>3, <2>4, <2>7, <3>1, <3>2, <3>3 DEF Batch, Scheduling,
              SettledIsScheduled, OutsideBatch, RootIsTemporary, StorageOK
  <2> QED BY <2>5, <2>6, <2>7 DEF StorageOK
<1>5. CASE RunHandler
  <2> USE <1>5 DEF RunHandler
  <2> DEFINE found == LiveHandler(IF inline_batch THEN {batch_handler}
                                  ELSE promise_handler_at(i))
  <2>1. found \subseteq Handler
    <3>1. promise_handler_at(i) \subseteq Handler
      <4>1. i \in Nat
        BY DEF TypeOK
      <4> HIDE <1>5 DEF RunHandler
      <4> QED BY <4>1 DEF StorageOK, promise_handler_at
    <3>2. batch_handler \in Handler
      BY DEF TypeOK
    <3> QED BY <3>1, <3>2 DEF LiveHandler
  <2>2. /\ StorageOK' /\ handler_count' = handler_count
        /\ FlagsOK'
        /\ batch_handler' \in Handler
        /\ current' \in Handler
        /\ ran' \in Seq(1..MaxHandlers)
        /\ pc' \in {"loop", "call"}
    <3>1. CASE found = {}
      <4>1. UNCHANGED <<storage, pc, current, ran, batch_handler>>
        BY <3>1
      <4>2. FlagsOK'
        BY DEF TypeOK, FlagsOK
      <4> QED BY <4>1, <4>2 DEF TypeOK, StorageOK
    <3>2. CASE ~(found = {})
      <4> DEFINE h == CHOOSE g \in found : TRUE
      <4>1. h \in found /\ h # Dead
        <5>1. PICK g : found = {g}
          BY <3>2 DEF promise_handler_at, LiveHandler
        <5> QED BY <5>1 DEF LiveHandler
      <4> HIDE DEF found
      <4>2. h \in Handler
        BY <4>1, <2>1
      <4>3. /\ pc' = "call" /\ current' = h /\ ran' = Append(ran, h)
            /\ batch_handler' =
                 IF inline_batch /\ h \in Awaits THEN Dead ELSE batch_handler
            /\ IF ~inline_batch /\ h \in Awaits
               THEN js_promise_clear_await_coroutine(h) ELSE UNCHANGED storage
        BY <3>2 DEF found
      <4> HIDE DEF h
      <4>4. StorageOK' /\ handler_count' = handler_count
        BY <4>3, ClearStorage DEF StorageOK
      <4>5. FlagsOK'
        BY DEF TypeOK, FlagsOK
      <4> QED BY <4>1, <4>2, <4>3, <4>4, <4>5 DEF TypeOK, Dead
    <3> QED BY <3>1, <3>2
  <2>3. TypeOK' /\ Counted'
    BY <2>2 DEF TypeOK, StorageOK, Batch
  <2>4. Batch'
    <3>1. /\ i < len /\ i' = i + 1 /\ len' = len /\ i \in Nat /\ len \in Nat
          /\ pc = "loop"
      BY DEF TypeOK
    <3>2. /\ state' = state /\ gc_pending_rooted' = gc_pending_rooted
          /\ inline_batch' = inline_batch
      OBVIOUS
    <3>3. i' <= len' /\ i' >= 1
      BY <3>1
    <3>4. pc # "idle"
      BY <3>1
    <3> HIDE <1>5 DEF RunHandler
    <3> QED BY <2>2, <3>1, <3>2, <3>3, <3>4 DEF Batch
  <2>5. Scheduling'
    BY <2>2 DEF Scheduling, SettledIsScheduled, OutsideBatch, RootIsTemporary
  <2> QED BY <2>2, <2>3, <2>4, <2>5
<1>6. CASE ReturnFromHandler
  <2> USE <1>6 DEF ReturnFromHandler
  <2>1. FlagsOK'
    BY DEF TypeOK, FlagsOK
  <2>2. TypeOK' /\ StorageOK' /\ Counted'
    BY <2>1 DEF TypeOK, StorageOK
  <2>3. Batch'
    BY DEF Batch
  <2>4. Scheduling'
    BY DEF Scheduling, SettledIsScheduled, OutsideBatch, RootIsTemporary
  <2> QED BY <2>2, <2>3, <2>4
<1>7. CASE EndBatch
  <2> USE <1>7 DEF EndBatch, gc_unroot_pending_promise
  <2>1. CASE inline_batch
    <3>1. FlagsOK'
      BY DEF TypeOK, FlagsOK
    <3>2. TypeOK' /\ StorageOK' /\ Counted' /\ handler_count' = handler_count
      BY <2>1, <3>1 DEF TypeOK, StorageOK, Dead
    <3>3. Batch' /\ Scheduling'
      BY <2>1, <3>2 DEF Batch, Scheduling, SettledIsScheduled, OutsideBatch,
                        RootIsTemporary
    <3> QED BY <3>2, <3>3
  <2>2. CASE ~inline_batch
    <3>1. StorageOK' /\ handler_count' = handler_count - len
      BY <2>2, DiscardStorage DEF Batch, TypeOK
    <3>2. FlagsOK'
      BY DEF TypeOK, FlagsOK
    <3>3. TypeOK' /\ Counted'
      BY <2>2, <3>1, <3>2 DEF TypeOK, StorageOK, Dead, Batch
    <3>4. Batch' /\ Scheduling'
      BY <2>2, <3>1 DEF Batch, Scheduling, SettledIsScheduled, OutsideBatch,
                        RootIsTemporary, TypeOK
    <3> QED BY <3>1, <3>3, <3>4
  <2> QED BY <2>1, <2>2
<1>8. CASE UNCHANGED vars
  <2> USE <1>8 DEF vars
  <2>1. FlagsOK'
    BY DEF TypeOK, FlagsOK
  <2>2. TypeOK' /\ StorageOK' /\ Counted'
    BY <2>1 DEF TypeOK, StorageOK
  <2>3. Batch' /\ Scheduling'
    BY DEF Batch, Scheduling, SettledIsScheduled, OutsideBatch, RootIsTemporary
  <2> QED BY <2>2, <2>3
<1> QED
  BY <1>1, <1>2, <1>3, <1>4, <1>5, <1>6, <1>7, <1>8 DEF Next

\* The invariant of all the theorems below.
LEMMA Invariance ==
  ASSUME NoWrap
  PROVE  Spec => []IInv
<1>1. IInv /\ [Next]_vars => IInv'
  BY NextIInv
<1> QED BY InitIInv, <1>1, PTL DEF Spec

\* Every field of the promise keeps its type.
THEOREM TypeCorrect ==
  ASSUME NoWrap
  PROVE  Spec => []TypeOK
<1>1. IInv => TypeOK
  BY DEF IInv
<1> QED BY Invariance, <1>1, PTL

\* A settled promise with reactions left always has its job queued.
THEOREM ScheduledAlways ==
  ASSUME NoWrap
  PROVE  Spec => []SettledIsScheduled
<1>1. IInv => SettledIsScheduled
  BY DEF IInv, Scheduling
<1> QED BY Invariance, <1>1, PTL

\* A promise with reactions is a GC root or in the job queue, and it is a root
\* only while it is pending or its reactions are still to run.
THEOREM ReachableWhileNeeded ==
  ASSUME NoWrap
  PROVE  Spec => [](WaitingIsReachable /\ RootIsTemporary)
<1>1. IInv => WaitingIsReachable /\ RootIsTemporary
  <2> SUFFICES ASSUME IInv PROVE WaitingIsReachable
    BY DEF IInv, Scheduling
  <2> USE DEF IInv, Batch, Scheduling, SettledIsScheduled, OutsideBatch,
        WaitingIsReachable
  <2>1. CASE pc = "idle"
    BY <2>1
  <2>2. CASE pc # "idle"
    BY <2>2
  <2> QED BY <2>1, <2>2
<1> QED BY Invariance, <1>1, PTL

\* The assertion of promise_handlers_discard_processed_prefix holds.
THEOREM AssertionHolds ==
  ASSUME NoWrap
  PROVE  Spec => []PrefixInRange
<1>1. IInv => PrefixInRange
  BY DEF IInv, Batch, PrefixInRange
<1> QED BY Invariance, <1>1, PTL
-----------------------------------------------------------------------------
(* The list as a queue.                                                     *)

Indexes == 0..(handler_count - 1)
Entry(k) == IF handler_count = 1 THEN inline_handler ELSE handlers[k + 1]

\* The one reaction of the batch is in the local copy.
InCopy == pc # "idle" /\ inline_batch /\ i = 0

\* The list holds the reactions in the order of attachment, and user code does not
\* run before a copied reaction is called.
Sorted ==
  \A j, k \in Indexes : j < k /\ Entry(j) # Dead /\ Entry(k) # Dead => Entry(j) < Entry(k)
Known ==
  /\ \A k \in Indexes : Entry(k) <= attached
  /\ InCopy => pc = "loop" /\ handler_count = 0 /\ batch_handler <= attached

\* A reaction that neither ran nor was withdrawn is still to be looked at.
HasRun(h) == \E k \in DOMAIN ran : ran[k] = h
Accounted == \A h \in 1..attached : h \in Unread \/ HasRun(h) \/ h \in withdrawn

Called == current # 0 <=> pc = "call"

QInv == IInv /\ Sorted /\ Known /\ Accounted /\ Called

LEMMA EntryType ==
  ASSUME StorageOK, NEW k \in Indexes
  PROVE  Entry(k) \in Handler
BY DEF StorageOK, Indexes, Entry

\* What is unread, by positions.
IsUnread(h) == \/ \E k \in Indexes : k >= FirstUnread /\ h = Entry(k)
               \/ InCopy /\ h = batch_handler

LEMMA UnreadIs == TypeOK /\ StorageOK => \A h : h \in Unread <=> IsUnread(h)
<1> SUFFICES ASSUME TypeOK, StorageOK, NEW h PROVE h \in Unread <=> IsUnread(h)
  OBVIOUS
<1>1. handler_count \in Nat /\ FirstUnread \in Nat
  BY DEF TypeOK, StorageOK, FirstUnread
<1>2. \A k \in Indexes : promise_handler_at(k) = {Entry(k)}
  BY DEF StorageOK, Indexes, Entry, promise_handler_at
<1>3. promise_handler_at(handler_count) = {}
  BY <1>1 DEF promise_handler_at
<1>4. \A k \in FirstUnread..handler_count : k \in Indexes \/ k = handler_count
  BY <1>1 DEF Indexes
<1>5. \A k \in Indexes : k >= FirstUnread <=> k \in FirstUnread..handler_count
  BY <1>1 DEF Indexes
<1> QED
  BY <1>2, <1>3, <1>4, <1>5 DEF Unread, IsUnread, InCopy

LEMMA UnreadNext == (TypeOK /\ StorageOK)' => (\A h : h \in Unread <=> IsUnread(h))'
BY UnreadIs, PTL

\* The effect of the storage operations, position by position.
LEMMA EntryAppend ==
  ASSUME StorageOK, NEW h \in Handler, handler_count + 1 < CountMod,
         promise_handler_append(h)
  PROVE  \A k \in 0..handler_count : Entry(k)' = IF k = handler_count THEN h ELSE Entry(k)
<1>1. handler_count' = handler_count + 1 /\ handler_count \in Nat
  BY AppendStorage DEF StorageOK
<1>2. CASE handler_count = 0
  BY <1>1, <1>2 DEF StorageOK, promise_handler_append, Entry
<1>3. CASE handler_count = 1
  <2>1. handlers' = <<inline_handler, h>> /\ handler_count' = 2
    BY <1>1, <1>3 DEF StorageOK, promise_handler_append
  <2> QED
    BY <1>3, <2>1 DEF Entry
<1>4. CASE handler_count > 1
  <2>1. handlers' = Append(handlers, h) /\ Len(handlers) = handler_count /\ handlers \in Seq(Handler)
    BY <1>4 DEF StorageOK, promise_handler_append
  <2> QED
    BY <1>1, <1>4, <2>1 DEF Entry
<1> QED
  BY <1>1, <1>2, <1>3, <1>4

LEMMA EntryDiscard ==
  ASSUME StorageOK, NEW n \in Nat, n >= 2, n <= handler_count, handler_count < CountMod,
         promise_handlers_discard_processed_prefix(n)
  PROVE  \A k \in 0..(handler_count - n - 1) : Entry(k)' = Entry(k + n)
<1>1. handler_count' = handler_count - n /\ handler_count \in Nat
  BY DiscardStorage DEF StorageOK
<1>2. CASE n = handler_count
  BY <1>1, <1>2
<1>3. CASE n # handler_count
  <2> DEFINE rest == SubSeq(handlers, n + 1, Len(handlers))
  <2>1. IF handler_count' = 1 THEN inline_handler' = rest[1] ELSE handlers' = rest
    BY <1>3 DEF promise_handlers_discard_processed_prefix
  <2>2. handlers \in Seq(Handler) /\ Len(handlers) = handler_count /\ handler_count > 2
    BY <1>1, <1>3 DEF StorageOK
  <2>3. \A k \in 1..(handler_count - n) : rest[k] = handlers[k + n]
    BY <1>1, <2>2
  <2> HIDE DEF rest
  <2> QED
    BY <1>1, <1>3, <2>1, <2>2, <2>3 DEF Entry
<1> QED
  BY <1>2, <1>3

LEMMA EntryClear ==
  ASSUME StorageOK, NEW c, js_promise_clear_await_coroutine(c)
  PROVE  \A k \in Indexes : Entry(k)' = Clear(Entry(k), c)
<1>1. handler_count' = handler_count /\ handler_count \in Nat
  BY DEF StorageOK, js_promise_clear_await_coroutine
<1>2. CASE handler_count = 1
  BY <1>1, <1>2 DEF js_promise_clear_await_coroutine, Entry
<1>3. CASE handler_count > 1
  <2>1. Len(handlers) = handler_count /\ handlers \in Seq(Handler)
        /\ handlers' = [k \in DOMAIN handlers |-> Clear(handlers[k], c)]
    BY <1>3 DEF StorageOK, js_promise_clear_await_coroutine
  <2> QED
    BY <1>1, <1>3, <2>1 DEF Entry, Indexes
<1> QED
  BY <1>1, <1>2, <1>3 DEF Indexes

\* User code does not run while the reaction is in the copy, and what a batch has read
\* is a part of the list.
LEMMA ReadFacts ==
  ASSUME QInv
  PROVE  /\ handler_count \in Nat /\ attached \in Nat /\ FirstUnread \in Nat
         /\ FirstUnread <= handler_count
         /\ UserCode => ~InCopy
         /\ \A k \in Indexes : Entry(k) \in Nat
         /\ \A h : h \in Unread <=> IsUnread(h)
<1>1. TypeOK /\ StorageOK /\ Batch /\ Known
  BY DEF QInv, IInv
<1>2. handler_count \in Nat /\ attached \in Nat /\ FirstUnread \in Nat
  BY <1>1 DEF TypeOK, StorageOK, FirstUnread, Handler
<1>3. FirstUnread <= handler_count
  BY <1>1 DEF Batch, TypeOK, FirstUnread, StorageOK
<1>4. UserCode => ~InCopy
  BY <1>1 DEF Known, UserCode, InCopy
<1>5. \A k \in Indexes : Entry(k) \in Nat
  BY <1>1, EntryType DEF Handler
<1> QED
  BY <1>1, <1>2, <1>3, <1>4, <1>5, UnreadIs

LEMMA AttachQueue ==
  ASSUME NoWrap, QInv, IInv', AttachHandler
  PROVE  QInv' /\ HQ!Attach
<1>1. /\ handler_count \in Nat /\ attached \in Nat /\ FirstUnread \in Nat
      /\ FirstUnread <= handler_count /\ ~InCopy
      /\ \A k \in Indexes : Entry(k) \in Nat
      /\ \A h : h \in Unread <=> IsUnread(h)
  BY ReadFacts DEF AttachHandler
<1>2. /\ attached' = attached + 1 /\ attached < MaxHandlers /\ promise_handler_append(attached + 1)
      /\ UNCHANGED <<state, pc, locals, current, history>>
  BY DEF AttachHandler
<1>3. attached + 1 \in Handler /\ handler_count + 1 < CountMod /\ StorageOK
  BY <1>1, <1>2, ListAssumption DEF QInv, IInv, Counted, NoWrap, Handler
<1>4. handler_count' = handler_count + 1
  BY <1>2, <1>3, AppendStorage
<1>5. \A k \in 0..handler_count : Entry(k)' = IF k = handler_count THEN attached + 1 ELSE Entry(k)
  BY <1>2, <1>3, EntryAppend
<1>6. ~InCopy' /\ FirstUnread' = FirstUnread
  BY <1>1, <1>2 DEF InCopy, FirstUnread, locals
<1>7. /\ \A k : k \in Indexes' <=> k \in Indexes \/ k = handler_count
      /\ \A k \in Indexes : k \in Nat /\ k < handler_count /\ Entry(k)' = Entry(k)
      /\ \A k : k = handler_count => Entry(k)' = attached + 1
  BY <1>1, <1>4, <1>5 DEF Indexes
<1>8. \A h : h \in Unread' <=> IsUnread(h)'
  BY UnreadNext DEF IInv
<1>9. \A h : h \in Unread' <=> h \in Unread \/ h = attached + 1
  BY <1>1, <1>6, <1>7, <1>8 DEF IsUnread
<1>10. \A k \in Indexes : Entry(k) <= attached
  BY DEF QInv, Known
<1>11. Sorted'
  BY <1>1, <1>7, <1>10 DEF QInv, Sorted
<1>12. Known'
  BY <1>1, <1>2, <1>6, <1>7, <1>10 DEF Known
<1>13. Accounted'
  <2> SUFFICES ASSUME NEW h \in 1..(attached + 1) PROVE (h \in Unread \/ HasRun(h) \/ h \in withdrawn)'
    BY <1>2 DEF Accounted
  <2>1. h \in 1..attached \/ h = attached + 1
    BY <1>1
  <2> QED
    BY <1>2, <1>9, <2>1 DEF QInv, Accounted, HasRun, history
<1>14. Called'
  BY <1>2 DEF QInv, Called
<1>15. HQ!Attach
  <2>1. LiveHandler(Unread)' = LiveHandler(Unread) \cup {attached + 1}
    BY <1>1, <1>9 DEF LiveHandler, Dead
  <2> QED
    BY <1>2, <2>1 DEF HQ!Attach
<1> QED
  BY <1>11, <1>12, <1>13, <1>14, <1>15 DEF QInv

LEMMA SettleQueue ==
  ASSUME QInv, IInv', js_resolve_promise \/ js_reject_promise
  PROVE  QInv' /\ HQ!Settle
<1>1. /\ state = 0 /\ state' # 0
      /\ UNCHANGED <<storage, attached, pc, locals, current, history>>
  BY DEF js_resolve_promise, js_reject_promise
<1>2. Unread' = Unread
  BY <1>1 DEF Unread, FirstUnread, promise_handler_at, storage, locals
<1>3. Sorted' /\ Known' /\ Accounted' /\ Called'
  BY <1>1, <1>2 DEF QInv, Sorted, Known, Accounted, Called, Indexes, Entry, InCopy, HasRun,
                    storage, locals, history
<1>4. HQ!Settle
  BY <1>1, <1>2 DEF HQ!Settle
<1> QED
  BY <1>3, <1>4 DEF QInv

\* Clearing registrations keeps the order of the others.
LEMMA SortedKept ==
  ASSUME QInv, handler_count' = handler_count, attached' = attached,
         \A k \in Indexes : Entry(k)' \in {Entry(k), Dead}
  PROVE  Sorted' /\ (\A k \in Indexes : Entry(k) <= attached)'
<1>1. Indexes' = Indexes /\ attached \in Nat
  BY ReadFacts DEF Indexes
<1>2. \A k \in Indexes : Entry(k) <= attached
  BY DEF QInv, Known
<1> QED
  BY <1>1, <1>2 DEF QInv, Sorted, Dead

LEMMA WithdrawQueue ==
  ASSUME QInv, IInv', NEW c \in Awaits, CancelAwait(c)
  PROVE  QInv' /\ HQ!Withdraw(c)
<1>1. /\ handler_count \in Nat /\ attached \in Nat /\ ~InCopy
      /\ \A h : h \in Unread <=> IsUnread(h)
  BY ReadFacts DEF CancelAwait
<1>2. /\ c \in 1..attached /\ c \notin withdrawn /\ ~HasRun(c)
      /\ js_promise_clear_await_coroutine(c) /\ withdrawn' = withdrawn \cup {c}
      /\ UNCHANGED <<state, attached, pc, locals, current, ran>>
  BY DEF CancelAwait, HasRun
<1>3. /\ handler_count' = handler_count /\ Indexes' = Indexes
      /\ \A k \in Indexes : Entry(k)' = Clear(Entry(k), c)
  BY <1>2, EntryClear, ClearStorage DEF QInv, IInv, Indexes
<1>4. ~InCopy' /\ FirstUnread' = FirstUnread /\ c # Dead
  BY <1>1, <1>2 DEF InCopy, FirstUnread, locals, Dead
<1>5. \A h : h \in Unread' <=> IsUnread(h)'
  BY UnreadNext DEF IInv
<1>6. \A h : h # Dead => (h \in Unread' <=> h \in Unread /\ h # c)
  BY <1>1, <1>3, <1>4, <1>5 DEF IsUnread, Clear
<1>7. Sorted' /\ Known'
  <2>1. \A k \in Indexes : Entry(k)' \in {Entry(k), Dead}
    BY <1>3 DEF Clear
  <2> QED
    BY <1>2, <1>3, <1>4, <2>1, SortedKept DEF Known
<1>8. Accounted'
  <2>1. \A h \in 1..attached : h # Dead
    BY <1>1 DEF Dead
  <2> QED
    BY <1>2, <1>6, <2>1 DEF QInv, Accounted, HasRun
<1>9. Called'
  BY <1>2 DEF QInv, Called
<1>10. HQ!Withdraw(c)
  <2>1. c \in LiveHandler(Unread)
    BY <1>2, <1>4 DEF QInv, Accounted, LiveHandler
  <2>2. LiveHandler(Unread)' = LiveHandler(Unread) \ {c}
    BY <1>6 DEF LiveHandler
  <2> QED
    BY <1>2, <2>1, <2>2 DEF HQ!Withdraw
<1> QED
  BY <1>7, <1>8, <1>9, <1>10 DEF QInv

\* A step that reads, copies or discards nothing that is still to run.
Quiet == UNCHANGED <<state, attached, current, ran, withdrawn>> /\ LiveHandler(Unread)' = LiveHandler(Unread)

LEMMA QuietQueue ==
  ASSUME QInv, Quiet, (pc = "call")' <=> pc = "call"
  PROVE  Accounted' /\ Called' /\ UNCHANGED HQ!vars
<1>1. \A h \in 1..attached : h \in Unread' <=> h \in Unread
  <2>1. \A h \in 1..attached : h # Dead
    BY ReadFacts DEF Dead
  <2> QED
    BY <2>1 DEF Quiet, LiveHandler
<1> QED
  BY <1>1 DEF QInv, Quiet, Accounted, Called, HasRun, HQ!vars

LEMMA BeginQueue ==
  ASSUME QInv, IInv', BeginBatch
  PROVE  QInv' /\ UNCHANGED HQ!vars
<1>1. /\ handler_count \in Nat /\ attached \in Nat /\ ~InCopy /\ pc = "idle" /\ FirstUnread = 0
      /\ \A h : h \in Unread <=> IsUnread(h)
  BY ReadFacts DEF BeginBatch, UserCode, FirstUnread
<1>2. \A h : h \in Unread' <=> IsUnread(h)'
  BY UnreadNext DEF IInv
<1>3. /\ UNCHANGED <<state, attached, current, ran, withdrawn>>
      /\ (pc = "call")' <=> pc = "call"
  BY <1>1 DEF BeginBatch, history
<1>4. CASE handler_count = 0
  <2>1. UNCHANGED <<storage, pc, locals>>
    BY <1>4 DEF BeginBatch
  <2>2. Unread' = Unread /\ Sorted' /\ Known'
    BY <1>3, <2>1 DEF QInv, Unread, FirstUnread, promise_handler_at, Sorted, Known, Indexes, Entry,
                      InCopy, storage, locals
  <2> QED
    BY <1>3, <2>2, QuietQueue DEF QInv, Quiet, LiveHandler
<1>5. CASE handler_count = 1
  <2>1. /\ handler_count' = 0 /\ batch_handler' = inline_handler /\ i' = 0 /\ pc' = "loop"
    BY <1>5 DEF BeginBatch, promise_handlers_clear
  <2>2. inline_batch'
    <3>1. handler_count # 0
      BY <1>5
    <3> QED
      BY <1>5, <3>1, Zenon DEF BeginBatch
  <2>3. InCopy' /\ Indexes' = {} /\ Indexes = {0}
    BY <1>5, <2>1, <2>2 DEF InCopy, Indexes
  <2>4. Entry(0) = inline_handler
    BY <1>5 DEF Entry
  <2>5. Unread' = Unread
    BY <1>1, <1>2, <2>1, <2>3, <2>4 DEF IsUnread
  <2>6. Sorted' /\ Known'
    BY <1>3, <2>1, <2>3, <2>4 DEF QInv, Sorted, Known
  <2> QED
    BY <1>3, <2>5, <2>6, QuietQueue DEF QInv, Quiet, LiveHandler
<1>6. CASE handler_count > 1
  <2>1. UNCHANGED storage /\ i' = 0 /\ pc' = "loop"
    BY <1>6 DEF BeginBatch
  <2>2. ~inline_batch'
    <3>1. handler_count # 0 /\ handler_count # 1
      BY <1>6
    <3> QED
      BY <3>1, Zenon DEF BeginBatch
  <2>3. ~InCopy' /\ FirstUnread' = 0
    BY <2>1, <2>2 DEF InCopy, FirstUnread
  <2>4. Unread' = Unread
    BY <1>1, <2>1, <2>3 DEF Unread, InCopy, promise_handler_at, storage
  <2>5. Sorted' /\ Known'
    BY <1>3, <2>1, <2>3 DEF QInv, Sorted, Known, Indexes, Entry, storage
  <2> QED
    BY <1>3, <2>4, <2>5, QuietQueue DEF QInv, Quiet, LiveHandler
<1> QED
  BY <1>1, <1>4, <1>5, <1>6

\* A turn that finds no reaction, or a dead one.
LEMMA SkipQueue ==
  ASSUME QInv, IInv', RunHandler, pc = "loop", pc' = "loop", UNCHANGED <<storage, current, ran, batch_handler>>,
         inline_batch => batch_handler = Dead, ~inline_batch => i \in Indexes /\ Entry(i) = Dead
  PROVE  QInv' /\ UNCHANGED HQ!vars
<1>1. /\ i' = i + 1 /\ i \in Nat /\ UNCHANGED <<state, attached, inline_batch, withdrawn>>
  BY DEF RunHandler, QInv, IInv, TypeOK
<1>2. /\ handler_count \in Nat
      /\ \A h : h \in Unread <=> IsUnread(h)
      /\ \A h : h \in Unread' <=> IsUnread(h)'
  BY ReadFacts, UnreadNext DEF IInv
<1>3. ~InCopy' /\ Indexes' = Indexes /\ \A k : Entry(k)' = Entry(k)
  BY <1>1 DEF InCopy, Indexes, Entry, storage
<1>4. Sorted' /\ Known'
  BY <1>1, <1>3 DEF QInv, Sorted, Known
<1>5. \A h : h # Dead => (h \in Unread' <=> h \in Unread)
  <2>1. CASE inline_batch
    BY <1>1, <1>2, <1>3, <2>1 DEF IsUnread, FirstUnread, InCopy
  <2>2. CASE ~inline_batch
    <3>1. FirstUnread = i /\ FirstUnread' = i + 1 /\ ~InCopy
      BY <1>1, <2>2 DEF FirstUnread, InCopy
    <3>2. \A k \in Indexes : k >= i <=> k = i \/ k >= i + 1
      BY <1>1 DEF Indexes
    <3> QED
      BY <1>2, <1>3, <2>2, <3>1, <3>2 DEF IsUnread
  <2> QED
    BY <2>1, <2>2
<1>6. LiveHandler(Unread)' = LiveHandler(Unread)
  BY <1>5 DEF LiveHandler
<1> QED
  BY <1>1, <1>4, <1>6, QuietQueue DEF QInv, Quiet

\* A turn that calls reaction h: it is the first one that waits.
LEMMA CallQueue ==
  ASSUME QInv, IInv', RunHandler, NEW h \in Handler, h # Dead, current' = h, ran' = Append(ran, h),
         pc = "loop", pc' = "call", handler_count' = handler_count, Indexes' = Indexes,
         inline_batch => InCopy /\ h = batch_handler /\ UNCHANGED storage,
         ~inline_batch => i \in Indexes /\ h = Entry(i)
                          /\ \A k \in Indexes : Entry(k)' \in {Entry(k), Clear(Entry(k), h)}
  PROVE  QInv' /\ HQ!Start
<1>1. /\ i' = i + 1 /\ i \in Nat /\ UNCHANGED <<state, attached, inline_batch, withdrawn>>
      /\ ran \in Seq(1..MaxHandlers) /\ h \in Nat
  BY DEF RunHandler, QInv, IInv, TypeOK, Handler
<1>2. /\ handler_count \in Nat /\ attached \in Nat
      /\ \A k \in Indexes : Entry(k) \in Nat
      /\ \A g : g \in Unread <=> IsUnread(g)
      /\ \A g : g \in Unread' <=> IsUnread(g)'
  BY ReadFacts, UnreadNext DEF IInv
<1>3. ~InCopy'
  BY <1>1 DEF InCopy
<1>4. /\ h \in Unread
      /\ \A g \in Unread : g # Dead => h <= g
      /\ \A g : g # Dead => (g \in Unread' <=> g \in Unread /\ g # h)
  <2>1. CASE inline_batch
    <3>1. Indexes = {} /\ InCopy
      BY <2>1 DEF QInv, Known, Indexes
    <3> QED
      BY <1>1, <1>2, <1>3, <2>1, <3>1 DEF IsUnread
  <2>2. CASE ~inline_batch
    <3>1. FirstUnread = i /\ FirstUnread' = i + 1 /\ ~InCopy
      BY <1>1, <2>2 DEF FirstUnread, InCopy
    <3>2. \A k \in Indexes : k >= i <=> k = i \/ k >= i + 1
      BY <1>1 DEF Indexes
    <3>3. \A k \in Indexes : k >= i + 1 /\ Entry(k) # Dead => h < Entry(k)
      BY <1>1, <2>2 DEF QInv, Sorted, Indexes
    <3>4. \A k \in Indexes : k >= i + 1 => Entry(k) # h
      BY <1>1, <1>2, <3>3
    <3>5. \A k \in Indexes : k >= i + 1 => Entry(k)' = Entry(k)
      BY <2>2, <3>4 DEF Clear
    <3>6. h \in Unread
      BY <1>1, <1>2, <2>2, <3>1, <3>2 DEF IsUnread
    <3>7. \A g \in Unread : g # Dead => h <= g
      BY <1>1, <1>2, <2>2, <3>1, <3>2, <3>3 DEF IsUnread
    <3>8. \A g : g \in Unread' <=> \E k \in Indexes : k >= i + 1 /\ g = Entry(k)
      BY <1>2, <1>3, <3>1, <3>5 DEF IsUnread
    <3>9. \A g : g \in Unread <=> g = h \/ \E k \in Indexes : k >= i + 1 /\ g = Entry(k)
      BY <1>2, <2>2, <3>1, <3>2 DEF IsUnread
    <3> QED
      BY <3>4, <3>6, <3>7, <3>8, <3>9
  <2> QED
    BY <2>1, <2>2
<1>5. Sorted' /\ Known'
  <2>1. \A k \in Indexes : Entry(k)' \in {Entry(k), Dead}
    BY DEF Clear, Entry, storage
  <2> QED
    BY <1>1, <1>3, <2>1, SortedKept DEF Known
<1>6. \A g : HasRun(g)' <=> HasRun(g) \/ g = h
  <2>1. ran' = Append(ran, h) /\ Len(ran) \in Nat /\ DOMAIN ran = 1..Len(ran)
    BY <1>1
  <2>2. /\ DOMAIN ran' = 1..(Len(ran) + 1)
        /\ \A k \in 1..Len(ran) : ran'[k] = ran[k]
        /\ ran'[Len(ran) + 1] = h
    BY <1>1, <2>1
  <2>3. \A k : k \in 1..(Len(ran) + 1) <=> k \in 1..Len(ran) \/ k = Len(ran) + 1
    BY <2>1
  <2> QED
    BY <2>1, <2>2, <2>3 DEF HasRun
<1>7. Accounted'
  <2>1. \A g \in 1..attached : g # Dead
    BY <1>2 DEF Dead
  <2> QED
    BY <1>1, <1>4, <1>6, <2>1 DEF QInv, Accounted
<1>8. Called'
  BY DEF Called, Dead
<1>9. HQ!Start
  <2>1. state # 0 /\ current = 0
    BY DEF QInv, IInv, Batch, Called
  <2>2. h \in LiveHandler(Unread) /\ (\A g \in LiveHandler(Unread) : h <= g)
    BY <1>4 DEF LiveHandler
  <2>3. LiveHandler(Unread)' = LiveHandler(Unread) \ {h}
    BY <1>4 DEF LiveHandler
  <2> QED
    BY <1>1, <2>1, <2>2, <2>3 DEF HQ!Start
<1> QED
  BY <1>5, <1>7, <1>8, <1>9 DEF QInv

LEMMA RunQueue ==
  ASSUME QInv, IInv', RunHandler
  PROVE  QInv' /\ [HQ!Next]_(HQ!vars)
<1> DEFINE found == LiveHandler(IF inline_batch THEN {batch_handler} ELSE promise_handler_at(i))
<1>1. TypeOK /\ StorageOK /\ Batch /\ Known
  BY DEF QInv, IInv
<1>2. /\ pc = "loop" /\ i < len /\ i \in Nat /\ len \in Nat
  BY <1>1 DEF RunHandler, TypeOK
<1>3. inline_batch => InCopy
  BY <1>1, <1>2 DEF Batch, InCopy
<1>4. ~inline_batch => i \in Indexes
  BY <1>1, <1>2 DEF Batch, Indexes, StorageOK
<1>5. ~inline_batch => promise_handler_at(i) = {Entry(i)} /\ Entry(i) \in Handler
  BY <1>1, <1>4, EntryType DEF StorageOK, Indexes, Entry, promise_handler_at
<1>6. CASE found = {}
  <2>1. pc' = "loop" /\ UNCHANGED <<storage, current, ran, batch_handler>>
    BY <1>2, <1>6 DEF RunHandler
  <2>2. inline_batch => batch_handler = Dead
    BY <1>6 DEF LiveHandler
  <2>3. ~inline_batch => Entry(i) = Dead
    BY <1>5, <1>6 DEF LiveHandler
  <2> QED
    BY <1>2, <1>4, <2>1, <2>2, <2>3, SkipQueue
<1>7. CASE found # {}
  <2> DEFINE h == CHOOSE g \in found : TRUE
  <2>1. h \in found
    BY <1>7
  <2>2. /\ pc' = "call" /\ current' = h /\ ran' = Append(ran, h)
        /\ IF ~inline_batch /\ h \in Awaits
           THEN js_promise_clear_await_coroutine(h) ELSE UNCHANGED storage
    BY <1>7 DEF RunHandler
  <2>3. /\ h # Dead
        /\ inline_batch => h = batch_handler
        /\ ~inline_batch => h = Entry(i)
    BY <1>5, <2>1 DEF LiveHandler
  <2> HIDE DEF found, h
  <2>4. h \in Handler
    BY <1>1, <1>5, <2>3 DEF TypeOK
  <2>5. /\ handler_count' = handler_count
        /\ \A k \in Indexes : Entry(k)' \in {Entry(k), Clear(Entry(k), h)}
    <3>1. CASE js_promise_clear_await_coroutine(h)
      BY <1>1, <3>1, ClearStorage, EntryClear
    <3>2. CASE UNCHANGED storage
      BY <3>2 DEF storage, Entry
    <3> QED
      BY <2>2, <3>1, <3>2
  <2>6. Indexes' = Indexes
    BY <2>5 DEF Indexes
  <2>7. QInv' /\ HQ!Start
    BY <1>2, <1>3, <1>4, <2>2, <2>3, <2>4, <2>5, <2>6, CallQueue
  <2> QED
    BY <2>7 DEF HQ!Next
<1> QED
  BY <1>6, <1>7

LEMMA ReturnQueue ==
  ASSUME QInv, IInv', ReturnFromHandler
  PROVE  QInv' /\ HQ!Finish
<1>1. /\ pc = "call" /\ pc' = "loop" /\ current' = 0
      /\ UNCHANGED <<state, storage, attached, locals, history>>
  BY DEF ReturnFromHandler
<1>2. ~InCopy
  BY ReadFacts, <1>1 DEF UserCode
<1>3. /\ ~InCopy' /\ Unread' = Unread
  BY <1>1, <1>2 DEF Unread, FirstUnread, InCopy, promise_handler_at, storage, locals
<1>4. Sorted' /\ Known' /\ Accounted' /\ Called'
  BY <1>1, <1>3 DEF QInv, Sorted, Known, Accounted, Called, Indexes, Entry, HasRun, storage, history
<1>5. HQ!Finish
  BY <1>1, <1>3 DEF QInv, Called, HQ!Finish
<1> QED
  BY <1>4, <1>5 DEF QInv

LEMMA EndQueue ==
  ASSUME QInv, IInv', EndBatch
  PROVE  QInv' /\ UNCHANGED HQ!vars
<1>1. TypeOK /\ StorageOK /\ Batch
  BY DEF QInv, IInv
<1>2. /\ pc = "loop" /\ i = len /\ pc' = "idle" /\ ~InCopy'
      /\ UNCHANGED <<state, attached, current, ran, withdrawn>>
      /\ (pc = "call")' <=> pc = "call"
  BY DEF EndBatch, InCopy, history
<1>3. FirstUnread' = 0 /\ ~InCopy
  BY <1>1, <1>2 DEF FirstUnread, InCopy, Batch
<1>4. /\ handler_count \in Nat
      /\ \A h : h \in Unread <=> IsUnread(h)
      /\ \A h : h \in Unread' <=> IsUnread(h)'
  BY ReadFacts, UnreadNext DEF IInv
<1>5. Unread' = Unread /\ Sorted' /\ Known'
  <2>1. CASE inline_batch
    <3>1. Indexes' = Indexes /\ (\A k : Entry(k)' = Entry(k)) /\ FirstUnread = 0
      BY <2>1 DEF EndBatch, Indexes, Entry, storage, FirstUnread
    <3> QED
      BY <1>2, <1>3, <1>4, <3>1 DEF QInv, IsUnread, Sorted, Known
  <2>2. CASE ~inline_batch
    <3>1. /\ promise_handlers_discard_processed_prefix(len) /\ len \in Nat /\ len >= 2
          /\ len <= handler_count /\ handler_count < CountMod /\ FirstUnread = len
      BY <1>1, <1>2, <2>2, ListAssumption DEF EndBatch, TypeOK, Batch, FirstUnread
    <3>2. /\ handler_count' = handler_count - len
          /\ \A k \in 0..(handler_count - len - 1) : Entry(k)' = Entry(k + len)
      BY <1>1, <3>1, DiscardStorage, EntryDiscard
    <3>3. /\ handler_count \in Nat /\ len \in Nat /\ len <= handler_count
          /\ Indexes' = 0..(handler_count - len - 1) /\ Indexes = 0..(handler_count - 1)
      BY <1>4, <3>1, <3>2 DEF Indexes
    <3>4. \A k \in 0..(handler_count - len - 1) :
            k \in Nat /\ k + len \in 0..(handler_count - 1) /\ k + len >= len
      BY <3>3
    <3>5. \A k \in 0..(handler_count - 1) :
            k >= len => /\ k - len \in 0..(handler_count - len - 1)
                        /\ (k - len) + len = k /\ k - len >= 0
      BY <3>3
    <3>6. Unread' = Unread
      <4>1. ASSUME NEW h \in Unread' PROVE h \in Unread
        <5>1. PICK k \in Indexes' : h = Entry(k)'
          BY <1>2, <1>4 DEF IsUnread
        <5>2. k + len \in Indexes /\ k + len >= FirstUnread /\ h = Entry(k + len)
          BY <3>1, <3>2, <3>3, <3>4, <5>1
        <5> QED
          BY <1>4, <5>2 DEF IsUnread
      <4>2. ASSUME NEW h \in Unread PROVE h \in Unread'
        <5>1. PICK k \in Indexes : k >= len /\ h = Entry(k)
          BY <1>3, <1>4, <3>1 DEF IsUnread
        <5>2. PICK j \in Indexes' : j >= 0 /\ j + len = k
          BY <3>3, <3>5, <5>1
        <5>3. Entry(j)' = h
          BY <3>2, <3>3, <5>1, <5>2
        <5>4. j >= FirstUnread'
          BY <1>3, <5>2
        <5> QED
          BY <1>4, <5>3, <5>4 DEF IsUnread
      <4> QED
        BY <4>1, <4>2
    <3>7. Sorted'
      <4> SUFFICES ASSUME NEW j \in Indexes', NEW k \in Indexes', j < k,
                          Entry(j)' # Dead, Entry(k)' # Dead
                   PROVE  Entry(j)' < Entry(k)'
        BY DEF Sorted
      <4>1. j + len \in Indexes /\ k + len \in Indexes /\ j + len < k + len
        BY <3>3, <3>4
      <4>2. Entry(j)' = Entry(j + len) /\ Entry(k)' = Entry(k + len)
        BY <3>2, <3>3
      <4> QED
        BY <4>1, <4>2 DEF QInv, Sorted
    <3>8. Known'
      BY <1>2, <3>2, <3>3, <3>4 DEF QInv, Known
    <3> QED
      BY <3>6, <3>7, <3>8
  <2> QED
    BY <2>1, <2>2
<1> QED
  BY <1>2, <1>5, QuietQueue DEF QInv, Quiet, LiveHandler

LEMMA QInvInit == Init => QInv /\ HQ!Init
<1> SUFFICES ASSUME Init PROVE QInv /\ HQ!Init
  OBVIOUS
<1>1. Unread = {}
  BY DEF Init, Unread, FirstUnread, promise_handler_at
<1> QED
  BY <1>1, InitIInv DEF Init, QInv, Sorted, Known, Accounted, Called, Indexes, InCopy, HQ!Init, LiveHandler

LEMMA QInvStep == NoWrap /\ QInv /\ [Next]_vars => QInv' /\ [HQ!Next]_(HQ!vars)
<1> SUFFICES ASSUME NoWrap, QInv, [Next]_vars PROVE QInv' /\ [HQ!Next]_(HQ!vars)
  OBVIOUS
<1>1. IInv'
  BY NextIInv DEF QInv
<1>2. CASE AttachHandler
  BY <1>1, <1>2, AttachQueue DEF HQ!Next
<1>3. CASE js_resolve_promise \/ js_reject_promise
  BY <1>1, <1>3, SettleQueue DEF HQ!Next
<1>4. CASE \E c \in Awaits : CancelAwait(c)
  BY <1>1, <1>4, WithdrawQueue DEF HQ!Next
<1>5. CASE BeginBatch \/ EndBatch
  BY <1>1, <1>5, BeginQueue, EndQueue
<1>6. CASE RunHandler
  BY <1>1, <1>6, RunQueue
<1>7. CASE ReturnFromHandler
  BY <1>1, <1>7, ReturnQueue DEF HQ!Next
<1>8. CASE UNCHANGED vars
  <2>1. Unread' = Unread /\ UNCHANGED <<state, attached, current, history, storage, pc, locals>>
    BY <1>8 DEF vars, Unread, FirstUnread, promise_handler_at, storage, locals
  <2>2. Sorted' /\ Known' /\ Accounted' /\ Called'
    BY <2>1 DEF QInv, Sorted, Known, Accounted, Called, Indexes, Entry, InCopy, HasRun,
                storage, locals, history
  <2> QED
    BY <1>1, <2>1, <2>2 DEF QInv, HQ!vars
<1> QED
  BY <1>2, <1>3, <1>4, <1>5, <1>6, <1>7, <1>8 DEF Next

\* The reaction list implements the queue of HandlerQueue: js_process_promise_handlers
\* runs the reactions in the order of attachment, each once and after settlement, also
\* those attached by a callback of the batch it is running.
THEOREM ListIsQueue ==
  ASSUME NoWrap
  PROVE  Spec => HQ!Init /\ [][HQ!Next]_(HQ!vars)
<1>1. QInv /\ [Next]_vars => QInv' /\ [HQ!Next]_(HQ!vars)
  BY QInvStep
<1> QED
  BY <1>1, QInvInit, PTL DEF Spec
=============================================================================
