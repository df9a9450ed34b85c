--------------------------- MODULE LoopHandlesProofs ---------------------------
(***************************************************************************)
(* What RpcProofs and AsyncHandleProofs prove of each component, for the     *)
(* behaviours of MCLoopHandles: a step of a part is a step of its component, *)
(* and the part never changes.                                              *)
(***************************************************************************)
EXTENDS MCLoopHandles, TLAPS

RP == INSTANCE RpcProofs
AP == INSTANCE AsyncHandleProofs

ClientInv == part = "client" => RP!ClientInv
ServiceInv == part = "service" => RP!Inv
AtomicsInv == part = "atomics" => AP!Inv

LEMMA PartIsFixed == [Next]_vars => part' = part
BY DEF Next, vars, RestOfFunction, RestOfClient, RestOfService, RestOfAtomics, RestOfNet

\* A step taken by a part is a step of its component.
LEMMA PartSteps ==
  ASSUME [Next]_vars
  PROVE  /\ part = "client" => [C!Next]_(C!vars)
         /\ part = "service" => [S!Next]_(S!vars)
         /\ part = "atomics" => [A!Next]_(A!vars)
<1>1. CASE UNCHANGED vars
  BY <1>1 DEF vars, client, service, atomics, shared, C!vars, S!vars, A!vars
<1>2. CASE Next
  BY <1>2 DEF Next
<1> QED
  BY <1>1, <1>2
-----------------------------------------------------------------------------
LEMMA ClientStep ==
  [C!Next]_(C!vars) <=> [RP!Client!Next]_(RP!Client!vars)
BY DEF C!Next, C!vars, C!Kinds, C!Signalled, C!Enqueue, C!Take, C!Ends, C!Work, C!Send,
   C!Wake, C!Settle, C!Drained, C!Join,
   RP!Client!Next, RP!Client!vars, RP!Client!Kinds, RP!Client!Signalled, RP!Client!Enqueue, RP!Client!Take, RP!Client!Ends, RP!Client!Work, RP!Client!Send,
   RP!Client!Wake, RP!Client!Settle, RP!Client!Drained, RP!Client!Join

\* Promises of an RpcClient are settled in the order of the calls and none is
\* dropped, whatever rpc_client_close_impl throws away.
THEOREM NothingIsLost == Spec => []NoOperationLost
<1>1. Init => ClientInv
  <2>1. Init /\ part = "client" => C!Init
    BY DEF Init
  <2>2. C!Init <=> RP!Client!Init
    BY DEF C!Init, RP!Client!Init
  <2> QED
    BY <2>1, <2>2, RP!ClientInitInv DEF ClientInv
<1>2. ClientInv /\ [Next]_vars => ClientInv'
  BY PartIsFixed, PartSteps, ClientStep, RP!ClientInvStep DEF ClientInv
<1>3. ClientInv => NoOperationLost
  <2>1. C!NoOperationLost <=> RP!Client!NoOperationLost
    BY DEF C!NoOperationLost, C!Unanswered, RP!Client!NoOperationLost, RP!Client!Unanswered
  <2> QED
    BY <2>1, RP!ClientInvImplies DEF ClientInv, NoOperationLost
<1> QED
  BY <1>1, <1>2, <1>3, PTL DEF Spec
-----------------------------------------------------------------------------
LEMMA ServiceStep ==
  [S!Next]_(S!vars) <=> [RP!Next]_(RP!vars)
BY DEF S!Next, S!vars, S!Deferred, S!Checked, S!Queue, S!Settle, S!Wake, S!Run, S!Drained,
   S!Unregister, S!Close, S!Closed, S!Complete, S!ReleaseRoute, S!KeepRoute, S!Waiting,
   S!Cardinality, S!IsFiniteSet,
   RP!Next, RP!vars, RP!Deferred, RP!Checked, RP!Queue, RP!Settle, RP!Wake, RP!Run, RP!Drained,
   RP!Unregister, RP!Close, RP!Closed, RP!Complete, RP!ReleaseRoute, RP!KeepRoute, RP!Waiting,
   RP!Cardinality, RP!IsFiniteSet

\* A call to an RpcServer is answered at most once and its task is freed exactly when
\* it was answered and no callback refers to it, for any number of calls at a time.
THEOREM CallsAreAnsweredOnce == Spec => []AnsweredOnceThenFreed
<1>0. RP!IsFiniteSet(Incoming)
  BY FinitelyMany DEF IsFiniteSet, RP!IsFiniteSet
<1>1. Init => ServiceInv
  <2>1. Init /\ part = "service" => S!Init
    BY DEF Init
  <2>2. S!Init <=> RP!Init
    BY DEF S!Init, RP!Init
  <2> QED
    BY <1>0, <2>1, <2>2, RP!InitInv DEF ServiceInv
<1>2. ServiceInv /\ [Next]_vars => ServiceInv'
  BY <1>0, PartIsFixed, PartSteps, ServiceStep, RP!InvStep DEF ServiceInv
<1>3. ServiceInv => AnsweredOnceThenFreed
  <2>1. S!AnsweredOnceThenFreed <=> RP!AnsweredOnceThenFreed
    BY DEF S!AnsweredOnceThenFreed, RP!AnsweredOnceThenFreed
  <2> QED
    BY <1>0, <2>1, RP!InvImplies DEF ServiceInv, AnsweredOnceThenFreed
<1> QED
  BY <1>1, <1>2, <1>3, PTL DEF Spec
-----------------------------------------------------------------------------
LEMMA AtomicsStep ==
  [A!Next]_(A!vars) <=> [AP!Next]_(AP!vars)
BY DEF A!Next, A!vars, A!js_atomics_waitAsync, A!Linked, A!async_waiter_remove, A!Chosen,
   A!js_atomics_notify, A!async_waiter_timeout_cb, A!async_waiter_async_cb,
   A!async_waiter_close_cb, A!Cardinality, A!IsFiniteSet,
   AP!Next, AP!vars, AP!js_atomics_waitAsync, AP!Linked, AP!async_waiter_remove, AP!Chosen,
   AP!js_atomics_notify, AP!async_waiter_timeout_cb, AP!async_waiter_async_cb,
   AP!async_waiter_close_cb, AP!Cardinality, AP!IsFiniteSet

LEMMA AtomicsAlways == Spec => []AtomicsInv
<1>0. AP!IsFiniteSet(Waiter)
  BY FinitelyMany DEF IsFiniteSet, AP!IsFiniteSet
<1>1. Init => AtomicsInv
  <2>1. Init /\ part = "atomics" => A!Init
    BY DEF Init
  <2>2. A!Init <=> AP!Init
    BY DEF A!Init, AP!Init
  <2> QED
    BY <1>0, <2>1, <2>2, AP!InitInv DEF AtomicsInv
<1>2. AtomicsInv /\ [Next]_vars => AtomicsInv'
  BY <1>0, PartIsFixed, PartSteps, AtomicsStep, AP!InvStep DEF AtomicsInv
<1> QED
  BY <1>1, <1>2, PTL DEF Spec

\* What Atomics.notify returned is the number of waiters settled with "ok", for any
\* number of waiters, whatever timeouts fire in between.
THEOREM NotifyIsExact == Spec => []NotifyCountExact
<1>1. AtomicsInv => NotifyCountExact
  <2>1. A!NotifyCountExact <=> AP!NotifyCountExact
    BY DEF A!NotifyCountExact, AP!NotifyCountExact, A!Cardinality, A!IsFiniteSet,
           AP!Cardinality, AP!IsFiniteSet
  <2> QED
    BY <2>1, AP!InvImplies DEF AtomicsInv, NotifyCountExact
<1> QED
  BY <1>1, AtomicsAlways, PTL

\* A waiter's memory is freed when its last handle has closed and not before.
THEOREM WaitersAreFreedLast == Spec => []FreedAfterHandles
<1>1. AtomicsInv => FreedAfterHandles
  <2>1. A!FreedAfterHandles <=> AP!FreedAfterHandles
    BY DEF A!FreedAfterHandles, AP!FreedAfterHandles, A!Linked, AP!Linked, A!Cardinality,
           A!IsFiniteSet, AP!Cardinality, AP!IsFiniteSet
  <2> QED
    BY <2>1, AP!InvImplies DEF AtomicsInv, FreedAfterHandles
<1> QED
  BY <1>1, AtomicsAlways, PTL
=============================================================================
