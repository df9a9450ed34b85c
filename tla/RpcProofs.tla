------------------------------ MODULE RpcProofs ------------------------------
(***************************************************************************)
(* The two ends of the RPC module.                                          *)
(*                                                                         *)
(* Every call of an RpcServer is answered once and its task and route are    *)
(* freed when nothing refers to them, for any number of calls.  The         *)
(* argument: where a call stands tells how many references its task has,    *)
(* and the route's count is one for the server and one for each task that   *)
(* is not freed.                                                            *)
(*                                                                         *)
(* No operation of an RpcClient is lost or overtaken, for any number of     *)
(* operations.  The argument: what is not answered is one run of            *)
(* consecutive numbers, spread over the done list, the worker's hand and    *)
(* the queue; a close operation is the last one accepted, so when the loop  *)
(* has settled it nothing is left for rpc_client_close_impl to discard.     *)
(***************************************************************************)
EXTENDS RpcServer, FiniteSetTheorems, SequenceTheorems, TLAPS

\* The client.  No formula below speaks of both ends, so that the names promise,
\* signalled and loop can serve each of them.
CONSTANT MaxOps
VARIABLES kind, queue, hand, status, done, worker, closing, closed, connected, close_after_drain
Client == INSTANCE RpcClient

Stages == {"idle", "checked", "cleared", "queued", "awaiting", "off"}
Active == {"checked", "cleared", "queued", "awaiting"}
Types ==
  /\ stage \in [Incoming -> Stages] /\ answers \in [Incoming -> Nat]
  /\ completed \in [Incoming -> BOOLEAN] /\ refs \in [Incoming -> 0..2]
  /\ promise \in SUBSET Incoming /\ pending \in Seq(Incoming)
  /\ route \in {"live", "removed", "freed"} /\ route_refs \in Nat
  /\ loop \in {"idle", "drain"} /\ server \in {"open", "closing", "closed"}

\* What the stage of a call says of its task.
TaskOf(c) ==
  /\ answers[c] = IF stage[c] = "off" THEN 1 ELSE 0
  /\ completed[c] => stage[c] = "off"
  /\ stage[c] = "awaiting" => c \in promise
  /\ c \in promise => stage[c] = "awaiting" \/ completed[c]
  /\ refs[c] = (IF stage[c] \in Active THEN 1 ELSE 0) + (IF c \in promise THEN 1 ELSE 0)

\* The pending list holds queued calls, each once.
PendingQueued ==
  /\ \A i \in 1..Len(pending) : stage[pending[i]] = "queued"
  /\ \A i, j \in 1..Len(pending) : pending[i] = pending[j] => i = j

\* The server and the tasks that are not freed hold the route.
Tasks == {c \in Incoming : refs[c] > 0}
RouteCounted ==
  /\ route_refs = (IF route = "live" THEN 1 ELSE 0) + Cardinality(Tasks)
  /\ route = "freed" <=> route_refs = 0

Inv == Types /\ (\A c \in Incoming : TaskOf(c)) /\ PendingQueued /\ RouteCounted
-----------------------------------------------------------------------------
LEMMA TasksFinite ==
  ASSUME IsFiniteSet(Incoming)
  PROVE  IsFiniteSet(Tasks) /\ Cardinality(Tasks) \in Nat
BY FS_Subset, FS_CardinalityType DEF Tasks

\* rpc_route_release for the tasks of G, which are freed.
LEMMA ReleaseStep ==
  ASSUME IsFiniteSet(Incoming), Types, RouteCounted,
         NEW G \in SUBSET Tasks, Tasks' = Tasks \ G, ReleaseRoute(Cardinality(G))
  PROVE  /\ RouteCounted'
         /\ route' \in {"live", "removed", "freed"} /\ route_refs' \in Nat
<1> DEFINE n == Cardinality(G)
           t == Cardinality(Tasks)
<1>1. t \in Nat /\ n \in Nat /\ n <= t /\ Cardinality(Tasks') = t - n
  <2>1. IsFiniteSet(Tasks) /\ t \in Nat
    BY TasksFinite
  <2>2. IsFiniteSet(G) /\ n \in Nat /\ n <= t
    BY <2>1, FS_Subset, FS_CardinalityType
  <2>3. Tasks \cap G = G
    OBVIOUS
  <2>4. Cardinality(Tasks \ G) = t - n
    BY <2>1, <2>3, FS_Difference
  <2> QED
    BY <2>1, <2>2, <2>4
<1>2. route_refs' = route_refs - n /\ route' = (IF route_refs = n /\ n > 0 THEN "freed" ELSE route)
  BY DEF ReleaseRoute
<1>3. route_refs = (IF route = "live" THEN 1 ELSE 0) + t /\ (route = "freed" <=> route_refs = 0)
  BY DEF RouteCounted
<1>4. route \in {"live", "removed", "freed"}
  BY DEF Types
<1> HIDE DEF n, t
<1>5. route_refs' = (IF route' = "live" THEN 1 ELSE 0) + (t - n)
  BY <1>1, <1>2, <1>3, <1>4
<1>6. route' = "freed" <=> route_refs' = 0
  BY <1>1, <1>2, <1>3, <1>4
<1> QED
  BY <1>1, <1>2, <1>3, <1>4, <1>5, <1>6 DEF RouteCounted

\* rpc_server_unregister and rpc_server_close_impl give up the server's reference.
LEMMA GiveUpStep ==
  ASSUME IsFiniteSet(Incoming), Types, RouteCounted, Tasks' = Tasks, route = "live",
         route_refs' = route_refs - 1,
         route' = IF route_refs = 1 THEN "freed" ELSE "removed"
  PROVE  /\ RouteCounted'
         /\ route' \in {"live", "removed", "freed"} /\ route_refs' \in Nat
<1>1. Cardinality(Tasks) \in Nat
  BY TasksFinite
<1>2. route_refs = 1 + Cardinality(Tasks)
  BY DEF RouteCounted
<1>3. route_refs' = Cardinality(Tasks)
  BY <1>1, <1>2
<1> QED
  BY <1>1, <1>2, <1>3 DEF RouteCounted

\* A call that a step leaves alone.
Same(c) ==
  /\ stage'[c] = stage[c] /\ answers'[c] = answers[c] /\ completed'[c] = completed[c]
  /\ refs'[c] = refs[c] /\ (c \in promise' <=> c \in promise)
LEMMA SameTask ==
  ASSUME NEW c, TaskOf(c), Same(c)
  PROVE  TaskOf(c)'
BY DEF TaskOf, Same

\* A step of the call c that is not on the pending list, which stays as it is.
LEMMA SamePending ==
  ASSUME Types, PendingQueued, NEW c, stage[c] # "queued", UNCHANGED pending,
         \A x \in Incoming : x # c => stage'[x] = stage[x]
  PROVE  PendingQueued'
<1>1. \A i \in 1..Len(pending) : pending[i] \in Incoming /\ pending[i] # c
  BY LenProperties DEF Types, PendingQueued
<1> QED
  BY <1>1 DEF PendingQueued

\* What completing the calls of C does; `more' references of each go with it.
Completed(C, more) ==
  /\ \A x \in Incoming \ C : /\ stage'[x] = stage[x] /\ answers'[x] = answers[x]
                              /\ completed'[x] = completed[x] /\ refs'[x] = refs[x]
  /\ \A c \in C : /\ stage'[c] = "off" /\ answers'[c] = 1 /\ completed'[c]
                  /\ refs'[c] = (IF c \in promise THEN 1 ELSE 0) - more
  /\ stage' \in [Incoming -> Stages] /\ answers' \in [Incoming -> Nat]
  /\ completed' \in [Incoming -> BOOLEAN] /\ refs' \in [Incoming -> 0..2]
  /\ \E G \in SUBSET Tasks : Tasks' = Tasks \ G /\ ReleaseRoute(Cardinality(G))

Completable(C, more) ==
  /\ \A c \in C : stage[c] \in {"queued", "awaiting"} \/ (more = 1 /\ completed[c])
  /\ more = 1 => C \subseteq promise

LEMMA CompleteFacts ==
  ASSUME Types, \A c \in Incoming : TaskOf(c),
         NEW C \in SUBSET Incoming, NEW more \in {0, 1}, Completable(C, more), Complete(C, more)
  PROVE  Completed(C, more)
<1> USE DEF Completable, Completed
<1> DEFINE fresh == {c \in C : ~completed[c]}
           drop == [c \in Incoming |-> (IF c \in C THEN more ELSE 0)
                                       + (IF c \in fresh THEN 1 ELSE 0)]
           gone == {c \in C : refs[c] > 0 /\ refs[c] <= drop[c]}
<1>1. /\ answers' = [c \in Incoming |-> IF c \in fresh THEN answers[c] + 1 ELSE answers[c]]
      /\ completed' = [c \in Incoming |-> completed[c] \/ c \in C]
      /\ refs' = [c \in Incoming |-> refs[c] - drop[c]]
      /\ stage' = [c \in Incoming |-> IF c \in fresh THEN "off" ELSE stage[c]]
      /\ ReleaseRoute(Cardinality(gone))
  BY DEF Complete
<1>2. ASSUME NEW x \in Incoming, x \notin C
      PROVE  /\ stage'[x] = stage[x] /\ answers'[x] = answers[x]
             /\ completed'[x] = completed[x] /\ refs'[x] = refs[x]
  <2>1. drop[x] = 0 /\ refs[x] \in 0..2 /\ completed[x] \in BOOLEAN
    BY <1>2 DEF Types
  <2> HIDE DEF drop
  <2> QED
    BY <1>1, <1>2, <2>1
<1>3. ASSUME NEW c \in C
      PROVE  /\ stage'[c] = "off" /\ answers'[c] = 1 /\ completed'[c]
             /\ refs'[c] = (IF c \in promise THEN 1 ELSE 0) - more
             /\ drop[c] = more + (IF completed[c] THEN 0 ELSE 1)
             /\ refs[c] = (IF completed[c] THEN 0 ELSE 1) + (IF c \in promise THEN 1 ELSE 0)
  <2>1. completed'[c]
    <3>1. completed' = [x \in Incoming |-> completed[x] \/ x \in C] /\ c \in Incoming
      BY <1>1
    <3> QED
      BY <3>1, Zenon
  <2>2. TaskOf(c) /\ c \in Incoming
    OBVIOUS
  <2>3. /\ answers'[c] = IF c \in fresh THEN answers[c] + 1 ELSE answers[c]
        /\ refs'[c] = refs[c] - drop[c]
        /\ stage'[c] = IF c \in fresh THEN "off" ELSE stage[c]
    BY <1>1
  <2>4. CASE completed[c]
    <3>1. stage[c] = "off" /\ answers[c] = 1 /\ more = 1 /\ c \in promise
          /\ refs[c] = 1 /\ c \notin fresh
      BY <2>2, <2>4 DEF TaskOf, Active
    <3>2. drop[c] = 1
      BY <2>2, <3>1
    <3> HIDE DEF drop, fresh
    <3> QED
      BY <2>1, <2>3, <2>4, <3>1, <3>2
  <2>5. CASE ~completed[c]
    <3>1. /\ stage[c] \in Active /\ answers[c] = 0 /\ c \in fresh
          /\ refs[c] = 1 + (IF c \in promise THEN 1 ELSE 0)
      BY <2>2, <2>5 DEF TaskOf, Active
    <3>2. drop[c] = more + 1
      BY <2>2, <3>1
    <3> HIDE DEF drop, fresh
    <3> QED
      BY <2>1, <2>3, <2>5, <3>1, <3>2
  <2> QED
    BY <2>4, <2>5
<1> HIDE DEF drop
<1>4. /\ stage' \in [Incoming -> Stages] /\ answers' \in [Incoming -> Nat]
      /\ completed' \in [Incoming -> BOOLEAN]
  BY <1>1 DEF Types, Stages
<1>5. refs' \in [Incoming -> 0..2]
  <2>1. ASSUME NEW x \in Incoming PROVE refs'[x] \in 0..2
    <3>1. CASE x \in C
      BY <1>3, <3>1
    <3>2. CASE x \notin C
      BY <1>2, <3>2 DEF Types
    <3> QED
      BY <3>1, <3>2
  <2> QED
    BY <1>1, <2>1
<1>6. gone \in SUBSET Tasks
  BY DEF Tasks
<1>7. Tasks' = Tasks \ gone
  <2>1. ASSUME NEW x \in Incoming PROVE refs'[x] > 0 <=> refs[x] > 0 /\ x \notin gone
    <3>1. CASE x \in C
      BY <1>3, <3>1
    <3>2. CASE x \notin C
      BY <1>2, <3>2
    <3> QED
      BY <3>1, <3>2
  <2> QED
    BY <2>1 DEF Tasks
<1> QED
  BY <1>1, <1>2, <1>3, <1>4, <1>5, <1>6, <1>7
-----------------------------------------------------------------------------
LEMMA DeferredStep ==
  ASSUME IsFiniteSet(Incoming), Inv, NEW c \in Incoming, Deferred(c)
  PROVE  Inv'
<1> DEFINE seen == server = "open"
<1>0. Types /\ (\A x \in Incoming : TaskOf(x)) /\ PendingQueued /\ RouteCounted
  BY DEF Inv
<1>1. stage[c] = "idle" /\ refs[c] = 0 /\ c \notin promise /\ answers[c] = 0 /\ ~completed[c]
  BY <1>0 DEF TaskOf, Active, Deferred
<1>2. /\ stage' = [stage EXCEPT ![c] = IF seen THEN "checked" ELSE "off"]
      /\ answers' = [answers EXCEPT ![c] = IF seen THEN 0 ELSE 1]
      /\ refs' = [refs EXCEPT ![c] = IF seen THEN 1 ELSE 0]
      /\ route_refs' = (IF seen THEN route_refs + 1 ELSE route_refs)
      /\ route = "live"
      /\ UNCHANGED <<completed, promise, pending, route, loop, server>>
  <2>1. CASE seen
    BY <1>0, <1>1, <2>1 DEF Deferred, Types
  <2>2. CASE ~seen
    BY <1>0, <1>1, <2>2 DEF Deferred, Types
  <2> QED
    BY <2>1, <2>2
<1> HIDE DEF seen
<1>3. Types'
  BY <1>0, <1>2 DEF Types, Stages
<1>4. ASSUME NEW x \in Incoming PROVE TaskOf(x)'
  <2>1. CASE x = c
    BY <1>0, <1>1, <1>2, <2>1 DEF Types, TaskOf, Active
  <2>2. CASE x # c
    <3>1. Same(x)
      BY <1>0, <1>2, <2>2 DEF Types, Same
    <3> QED
      BY <1>0, <3>1, SameTask
  <2> QED
    BY <2>1, <2>2
<1>5. PendingQueued'
  BY <1>0, <1>1, <1>2, SamePending DEF Types
<1>6. RouteCounted'
  <2>1. CASE seen
    <3>1. Tasks' = Tasks \cup {c} /\ c \notin Tasks
      BY <1>0, <1>1, <1>2, <2>1 DEF Types, Tasks
    <3>2. Cardinality(Tasks') = Cardinality(Tasks) + 1 /\ Cardinality(Tasks) \in Nat
      BY <3>1, TasksFinite, FS_AddElement, Zenon
    <3> QED
      BY <1>0, <1>2, <2>1, <3>2 DEF RouteCounted, Types
  <2>2. CASE ~seen
    <3>1. Tasks' = Tasks
      BY <1>0, <1>1, <1>2, <2>2 DEF Types, Tasks
    <3> QED
      BY <1>0, <1>2, <2>2, <3>1 DEF RouteCounted
  <2> QED
    BY <2>1, <2>2
<1> QED
  BY <1>0, <1>3, <1>4, <1>5, <1>6 DEF Inv

LEMMA CheckedStep ==
  ASSUME IsFiniteSet(Incoming), Inv, NEW c \in Incoming, Checked(c)
  PROVE  Inv'
<1> DEFINE seen == server = "open"
<1>0. Types /\ (\A x \in Incoming : TaskOf(x)) /\ PendingQueued /\ RouteCounted
  BY DEF Inv
<1>1. stage[c] = "checked" /\ refs[c] = 1 /\ c \notin promise /\ answers[c] = 0 /\ ~completed[c]
  BY <1>0 DEF TaskOf, Active, Checked
<1>2. /\ stage' = [stage EXCEPT ![c] = IF seen THEN "cleared" ELSE "off"]
      /\ answers' = [answers EXCEPT ![c] = IF seen THEN 0 ELSE 1]
      /\ refs' = [refs EXCEPT ![c] = IF seen THEN 1 ELSE 0]
      /\ IF seen THEN KeepRoute ELSE ReleaseRoute(1)
      /\ UNCHANGED <<completed, promise, pending, loop, server>>
  <2>1. CASE seen
    BY <1>0, <1>1, <2>1 DEF Checked, Types
  <2>2. CASE ~seen
    BY <1>0, <1>1, <2>2 DEF Checked, Types
  <2> QED
    BY <2>1, <2>2
<1> HIDE DEF seen
<1>3. ASSUME NEW x \in Incoming PROVE TaskOf(x)'
  <2>1. CASE x = c
    BY <1>0, <1>1, <1>2, <2>1 DEF Types, TaskOf, Active
  <2>2. CASE x # c
    <3>1. Same(x)
      BY <1>0, <1>2, <2>2 DEF Types, Same
    <3> QED
      BY <1>0, <3>1, SameTask
  <2> QED
    BY <2>1, <2>2
<1>4. PendingQueued'
  BY <1>0, <1>1, <1>2, SamePending DEF Types
<1>5. RouteCounted' /\ route' \in {"live", "removed", "freed"} /\ route_refs' \in Nat
  <2>1. CASE seen
    <3>1. Tasks' = Tasks
      BY <1>0, <1>1, <1>2, <2>1 DEF Types, Tasks
    <3> QED
      BY <1>0, <1>2, <2>1, <3>1 DEF RouteCounted, KeepRoute, Types
  <2>2. CASE ~seen
    <3>1. {c} \in SUBSET Tasks /\ Tasks' = Tasks \ {c}
      BY <1>0, <1>1, <1>2, <2>2 DEF Types, Tasks
    <3>2. ReleaseRoute(Cardinality({c}))
      BY <1>2, <2>2, FS_Singleton, Zenon
    <3> QED
      BY <1>0, <3>1, <3>2, ReleaseStep
  <2> QED
    BY <2>1, <2>2
<1>6. Types'
  BY <1>0, <1>2, <1>5 DEF Types, Stages
<1> QED
  BY <1>3, <1>4, <1>5, <1>6 DEF Inv

LEMMA QueueStep ==
  ASSUME Inv, NEW c \in Incoming, Queue(c)
  PROVE  Inv'
<1> USE DEF Queue
<1>0. Types /\ (\A x \in Incoming : TaskOf(x)) /\ PendingQueued /\ RouteCounted
  BY DEF Inv
<1>1. /\ pending' \in Seq(Incoming) /\ Len(pending') = Len(pending) + 1
      /\ \A i \in 1..Len(pending) : pending'[i] = pending[i]
      /\ pending'[Len(pending) + 1] = c
      /\ Len(pending) \in Nat /\ \A i \in 1..Len(pending) : pending[i] \in Incoming
  BY <1>0, AppendProperties, LenProperties DEF Types
<1>2. Types'
  BY <1>0, <1>1 DEF Types, Stages
<1>3. ASSUME NEW x \in Incoming PROVE TaskOf(x)'
  BY <1>0 DEF Types, TaskOf, Active
<1>4. PendingQueued'
  <2>1. \A i \in 1..Len(pending) : pending[i] # c /\ stage'[pending[i]] = "queued"
    BY <1>0, <1>1 DEF PendingQueued, Types
  <2>2. stage'[c] = "queued"
    BY <1>0 DEF Types
  <2>3. \A i \in 1..(Len(pending) + 1) : i \in 1..Len(pending) \/ i = Len(pending) + 1
    BY <1>1
  <2> QED
    BY <1>0, <1>1, <2>1, <2>2, <2>3 DEF PendingQueued
<1>5. RouteCounted'
  BY <1>0 DEF RouteCounted, Tasks
<1> QED
  BY <1>2, <1>3, <1>4, <1>5 DEF Inv

LEMMA RunStep ==
  ASSUME IsFiniteSet(Incoming), Inv, Run
  PROVE  Inv'
<1> DEFINE c == Head(pending)
<1>0. Types /\ (\A x \in Incoming : TaskOf(x)) /\ PendingQueued /\ RouteCounted
  BY DEF Inv
<1>1. /\ pending # <<>> /\ pending' = Tail(pending) /\ UNCHANGED <<loop, server>>
      /\ \/ Complete({c}, 0) /\ UNCHANGED promise
         \/ /\ promise' = promise \cup {c}
            /\ stage' = [stage EXCEPT ![c] = "awaiting"]
            /\ refs' = [refs EXCEPT ![c] = @ + 1]
            /\ UNCHANGED <<answers, completed, route, route_refs>>
  BY DEF Run, KeepRoute
<1>2. /\ Len(pending) \in Nat \ {0} /\ c = pending[1] /\ c \in Incoming
      /\ pending' \in Seq(Incoming) /\ Len(pending') = Len(pending) - 1
      /\ \A i \in 1..(Len(pending) - 1) : pending'[i] = pending[i + 1]
      /\ \A i \in 1..Len(pending) : pending[i] \in Incoming
  BY <1>0, <1>1, HeadTailProperties, EmptySeq, LenProperties DEF Types
<1> HIDE DEF c
<1>3. stage[c] = "queued" /\ refs[c] = 1 /\ c \notin promise /\ answers[c] = 0 /\ ~completed[c]
  <2>1. stage[c] = "queued"
    BY <1>0, <1>2 DEF PendingQueued
  <2> QED
    BY <1>0, <1>2, <2>1 DEF TaskOf, Active
<1>4. ASSUME \A x \in Incoming : x # c => stage'[x] = stage[x] PROVE PendingQueued'
  <2>1. ASSUME NEW i \in 1..Len(pending')
        PROVE  /\ i + 1 \in 1..Len(pending) /\ pending'[i] = pending[i + 1]
               /\ stage'[pending'[i]] = "queued"
    <3>1. i + 1 \in 1..Len(pending) /\ i \in 1..(Len(pending) - 1) /\ i + 1 # 1
      BY <1>2
    <3>2. pending[i + 1] # c /\ stage[pending[i + 1]] = "queued"
      BY <1>0, <1>2, <3>1 DEF PendingQueued
    <3> QED
      BY <1>2, <1>4, <3>1, <3>2
  <2>2. ASSUME NEW i \in 1..Len(pending'), NEW j \in 1..Len(pending'),
               pending'[i] = pending'[j]
        PROVE  i = j
    <3>1. i + 1 = j + 1
      BY <1>0, <2>1, <2>2 DEF PendingQueued
    <3> QED
      BY <1>2, <3>1
  <2> QED
    BY <2>1, <2>2 DEF PendingQueued
<1>5. CASE Complete({c}, 0) /\ UNCHANGED promise
  <2>1. /\ \A x \in Incoming \ {c} :
              /\ stage'[x] = stage[x] /\ answers'[x] = answers[x]
              /\ completed'[x] = completed[x] /\ refs'[x] = refs[x]
        /\ stage'[c] = "off" /\ answers'[c] = 1 /\ completed'[c] /\ refs'[c] = 0
        /\ stage' \in [Incoming -> Stages] /\ answers' \in [Incoming -> Nat]
        /\ completed' \in [Incoming -> BOOLEAN] /\ refs' \in [Incoming -> 0..2]
        /\ \E G \in SUBSET Tasks : Tasks' = Tasks \ G /\ ReleaseRoute(Cardinality(G))
    <3>1. {c} \in SUBSET Incoming /\ Completable({c}, 0)
      BY <1>2, <1>3 DEF Completable
    <3>2. Completed({c}, 0)
      BY <1>0, <1>5, <3>1, CompleteFacts, Zenon
    <3> QED
      BY <1>3, <3>2 DEF Completed
  <2>2. RouteCounted' /\ route' \in {"live", "removed", "freed"} /\ route_refs' \in Nat
    BY <1>0, <2>1, ReleaseStep
  <2>3. Types'
    BY <1>0, <1>1, <1>2, <1>5, <2>1, <2>2 DEF Types
  <2>4. ASSUME NEW x \in Incoming PROVE TaskOf(x)'
    <3>1. CASE x = c
      BY <1>3, <1>5, <2>1, <3>1 DEF TaskOf, Active
    <3>2. CASE x # c
      <4>1. Same(x)
        BY <1>5, <2>1, <3>2 DEF Same
      <4> QED
        BY <1>0, <4>1, SameTask
    <3> QED
      BY <3>1, <3>2
  <2>5. PendingQueued'
    BY <1>4, <2>1
  <2> QED
    BY <2>2, <2>3, <2>4, <2>5 DEF Inv
<1>6. CASE /\ promise' = promise \cup {c}
           /\ stage' = [stage EXCEPT ![c] = "awaiting"]
           /\ refs' = [refs EXCEPT ![c] = @ + 1]
           /\ UNCHANGED <<answers, completed, route, route_refs>>
  <2>1. Types'
    BY <1>0, <1>1, <1>2, <1>3, <1>6 DEF Types, Stages
  <2>2. ASSUME NEW x \in Incoming PROVE TaskOf(x)'
    <3>1. CASE x = c
      BY <1>0, <1>3, <1>6, <3>1 DEF TaskOf, Active, Types
    <3>2. CASE x # c
      <4>1. Same(x)
        BY <1>0, <1>6, <3>2 DEF Same, Types
      <4> QED
        BY <1>0, <4>1, SameTask
    <3> QED
      BY <3>1, <3>2
  <2>3. PendingQueued'
    BY <1>0, <1>4, <1>6 DEF Types
  <2>4. Tasks' = Tasks
    BY <1>0, <1>3, <1>6 DEF Tasks, Types
  <2> QED
    BY <1>0, <1>6, <2>1, <2>2, <2>3, <2>4 DEF Inv, RouteCounted
<1> QED
  BY <1>1, <1>5, <1>6

LEMMA SettleStep ==
  ASSUME IsFiniteSet(Incoming), Inv, NEW c \in Incoming, Settle(c)
  PROVE  Inv'
<1>0. Types /\ (\A x \in Incoming : TaskOf(x)) /\ PendingQueued /\ RouteCounted
  BY DEF Inv
<1>1. /\ c \in promise /\ promise' = promise \ {c} /\ Complete({c}, 1)
      /\ UNCHANGED <<pending, loop, server>>
  BY DEF Settle
<1>2. stage[c] = "awaiting" \/ (stage[c] = "off" /\ completed[c])
  BY <1>0, <1>1 DEF TaskOf
<1>3. /\ \A x \in Incoming \ {c} :
            /\ stage'[x] = stage[x] /\ answers'[x] = answers[x]
            /\ completed'[x] = completed[x] /\ refs'[x] = refs[x]
      /\ stage'[c] = "off" /\ answers'[c] = 1 /\ completed'[c] /\ refs'[c] = 0
      /\ stage' \in [Incoming -> Stages] /\ answers' \in [Incoming -> Nat]
      /\ completed' \in [Incoming -> BOOLEAN] /\ refs' \in [Incoming -> 0..2]
      /\ \E G \in SUBSET Tasks : Tasks' = Tasks \ G /\ ReleaseRoute(Cardinality(G))
  <2>1. {c} \in SUBSET Incoming /\ Completable({c}, 1)
    BY <1>0, <1>1, <1>2 DEF Completable, Types
  <2>2. Completed({c}, 1)
    BY <1>0, <1>1, <2>1, CompleteFacts, Zenon
  <2> QED
    BY <1>1, <2>2 DEF Completed
<1>4. RouteCounted' /\ route' \in {"live", "removed", "freed"} /\ route_refs' \in Nat
  BY <1>0, <1>3, ReleaseStep
<1>5. Types'
  BY <1>0, <1>1, <1>3, <1>4 DEF Types
<1>6. ASSUME NEW x \in Incoming PROVE TaskOf(x)'
  <2>1. CASE x = c
    BY <1>1, <1>3, <2>1 DEF TaskOf, Active
  <2>2. CASE x # c
    <3>1. Same(x)
      BY <1>1, <1>3, <2>2 DEF Same
    <3> QED
      BY <1>0, <3>1, SameTask
  <2> QED
    BY <2>1, <2>2
<1>7. PendingQueued'
  <2>1. stage[c] # "queued"
    BY <1>2
  <2> QED
    BY <1>0, <1>1, <1>3, <2>1, SamePending
<1> QED
  BY <1>4, <1>5, <1>6, <1>7 DEF Inv

LEMMA CloseStep ==
  ASSUME IsFiniteSet(Incoming), Inv, Close
  PROVE  Inv'
<1>0. Types /\ (\A x \in Incoming : TaskOf(x)) /\ PendingQueued /\ RouteCounted
  BY DEF Inv
<1>1. /\ Complete(Waiting, 0) /\ pending' = <<>> /\ server' = "closing"
      /\ UNCHANGED <<promise, loop>>
  BY DEF Close
<1>2. /\ Waiting \in SUBSET Incoming
      /\ \A c \in Waiting : stage[c] \in {"queued", "awaiting"}
  BY DEF Waiting
<1>3. /\ \A x \in Incoming \ Waiting :
            /\ stage'[x] = stage[x] /\ answers'[x] = answers[x]
            /\ completed'[x] = completed[x] /\ refs'[x] = refs[x]
      /\ \A c \in Waiting : /\ stage'[c] = "off" /\ answers'[c] = 1 /\ completed'[c]
                            /\ refs'[c] = (IF c \in promise THEN 1 ELSE 0) - 0
      /\ stage' \in [Incoming -> Stages] /\ answers' \in [Incoming -> Nat]
      /\ completed' \in [Incoming -> BOOLEAN] /\ refs' \in [Incoming -> 0..2]
      /\ \E G \in SUBSET Tasks : Tasks' = Tasks \ G /\ ReleaseRoute(Cardinality(G))
  <2>1. Completable(Waiting, 0)
    BY <1>2 DEF Completable
  <2>2. Completed(Waiting, 0)
    BY <1>0, <1>1, <1>2, <2>1, CompleteFacts, Zenon
  <2> QED
    BY <2>2 DEF Completed
<1>4. RouteCounted' /\ route' \in {"live", "removed", "freed"} /\ route_refs' \in Nat
  BY <1>0, <1>3, ReleaseStep
<1>5. pending' \in Seq(Incoming) /\ Len(pending') = 0
  BY <1>1, EmptySeq
<1>6. Types'
  BY <1>0, <1>1, <1>3, <1>4, <1>5 DEF Types
<1>7. ASSUME NEW x \in Incoming PROVE TaskOf(x)'
  <2>1. CASE x \in Waiting
    BY <1>1, <1>3, <2>1 DEF TaskOf, Active
  <2>2. CASE x \notin Waiting
    <3>1. Same(x)
      BY <1>1, <1>3, <2>2 DEF Same
    <3> QED
      BY <1>0, <3>1, SameTask
  <2> QED
    BY <2>1, <2>2
<1>8. PendingQueued'
  BY <1>5 DEF PendingQueued
<1> QED
  BY <1>4, <1>6, <1>7, <1>8 DEF Inv

\* The steps that touch no call: those of the loop and of the server's reference.
LEMMA OtherSteps ==
  ASSUME IsFiniteSet(Incoming), Inv, Wake \/ Drained \/ Unregister \/ Closed \/ UNCHANGED vars
  PROVE  Inv'
<1>0. Types /\ (\A x \in Incoming : TaskOf(x)) /\ PendingQueued /\ RouteCounted
  BY DEF Inv
<1>1. UNCHANGED <<stage, answers, completed, refs, promise, pending>>
  BY DEF Wake, Drained, Unregister, Closed, vars
<1>2. Tasks' = Tasks /\ PendingQueued' /\ \A x \in Incoming : TaskOf(x)'
  BY <1>0, <1>1 DEF Tasks, PendingQueued, TaskOf
<1>3. \/ UNCHANGED <<route, route_refs>>
      \/ /\ route = "live" /\ route_refs' = route_refs - 1
         /\ route' = IF route_refs = 1 THEN "freed" ELSE "removed"
  BY DEF Wake, Drained, Unregister, Closed, KeepRoute, vars
<1>4. RouteCounted' /\ route' \in {"live", "removed", "freed"} /\ route_refs' \in Nat
  <2>1. CASE UNCHANGED <<route, route_refs>>
    BY <1>0, <1>2, <2>1 DEF RouteCounted, Types
  <2>2. CASE /\ route = "live" /\ route_refs' = route_refs - 1
             /\ route' = IF route_refs = 1 THEN "freed" ELSE "removed"
    BY <1>0, <1>2, <2>2, GiveUpStep
  <2> QED
    BY <1>3, <2>1, <2>2
<1>5. loop' \in {"idle", "drain"} /\ server' \in {"open", "closing", "closed"}
  BY <1>0 DEF Wake, Drained, Unregister, Closed, vars, Types
<1> QED
  BY <1>0, <1>1, <1>2, <1>4, <1>5 DEF Inv, Types
-----------------------------------------------------------------------------
LEMMA InitInv == Init => Inv
<1> SUFFICES ASSUME Init PROVE Inv
  OBVIOUS
<1> USE DEF Init
<1>1. Types
  BY EmptySeq DEF Types, Stages
<1>2. \A c \in Incoming : TaskOf(c)
  BY DEF TaskOf, Active
<1>3. PendingQueued
  BY EmptySeq DEF PendingQueued
<1>4. RouteCounted
  <2>1. Tasks = {}
    BY DEF Tasks
  <2>2. Cardinality(Tasks) = 0
    BY <2>1, FS_EmptySet, Zenon
  <2> QED
    BY <2>2 DEF RouteCounted
<1> QED
  BY <1>1, <1>2, <1>3, <1>4 DEF Inv

LEMMA InvStep == IsFiniteSet(Incoming) /\ Inv /\ [Next]_vars => Inv'
<1> SUFFICES ASSUME IsFiniteSet(Incoming), Inv, [Next]_vars PROVE Inv'
  OBVIOUS
<1>1. ASSUME NEW c \in Incoming, Deferred(c) \/ Checked(c) \/ Queue(c) \/ Settle(c)
      PROVE  Inv'
  BY <1>1, DeferredStep, CheckedStep, QueueStep, SettleStep
<1>2. CASE Run
  BY <1>2, RunStep
<1>3. CASE Close
  BY <1>3, CloseStep
<1>4. CASE Wake \/ Drained \/ Unregister \/ Closed \/ UNCHANGED vars
  BY <1>4, OtherSteps
<1> QED
  BY <1>1, <1>2, <1>3, <1>4, Zenon DEF Next

LEMMA InvImplies == IsFiniteSet(Incoming) /\ Inv => AnsweredOnceThenFreed
<1> SUFFICES ASSUME IsFiniteSet(Incoming), Inv, NEW c \in Incoming
             PROVE  /\ answers[c] <= 1
                    /\ c \in promise => refs[c] > 0 /\ route # "freed"
                    /\ refs[c] = (IF stage[c] \in Active THEN 1 ELSE 0)
                                 + (IF c \in promise THEN 1 ELSE 0)
  BY DEF AnsweredOnceThenFreed, Active
<1>1. TaskOf(c) /\ RouteCounted /\ Types
  BY DEF Inv
<1>2. answers[c] <= 1
  BY <1>1 DEF TaskOf
<1>3. ASSUME c \in promise PROVE refs[c] > 0 /\ route # "freed"
  <2>1. refs[c] > 0
    BY <1>1, <1>3 DEF TaskOf
  <2>2. Tasks # {} /\ IsFiniteSet(Tasks) /\ Cardinality(Tasks) \in Nat
    BY <2>1, TasksFinite DEF Tasks
  <2>3. Cardinality(Tasks) # 0
    BY <2>2, FS_EmptySet, Zenon
  <2> QED
    BY <1>1, <2>1, <2>2, <2>3 DEF RouteCounted
<1> QED
  BY <1>1, <1>2, <1>3 DEF TaskOf

\* A call is answered at most once, its task is counted exactly, so it is freed
\* when it was answered and the handler's promise no longer refers to it, and the
\* route outlives it, however the network threads, the loop, unregister and close
\* follow each other (rpc_complete_task, rpc_task_release, rpc_route_release).
THEOREM TasksAreCounted ==
  ASSUME IsFiniteSet(Incoming)
  PROVE  Spec => []AnsweredOnceThenFreed
<1>1. Inv /\ [Next]_vars => Inv'
  BY InvStep
<1>2. Inv => AnsweredOnceThenFreed
  BY InvImplies
<1> QED
  BY <1>1, <1>2, InitInv, PTL DEF Spec
-----------------------------------------------------------------------------
\* The number of operations in the worker's hand, and the number answered.
Held == IF hand = 0 THEN 0 ELSE 1
Answered == Len(promise) - Len(queue) - Held - Len(done)

ClientTypes ==
  /\ kind \in Seq(Client!Kinds)
  /\ promise \in Seq({"pending", "ok", "err"})
  /\ status \in Seq({"none", "ok", "err"})
  /\ Len(kind) = Len(promise) /\ Len(status) = Len(promise)
  /\ queue \in Seq(Nat \ {0}) /\ done \in Seq(Nat \ {0}) /\ hand \in Nat
  /\ closing \in BOOLEAN /\ closed \in BOOLEAN /\ close_after_drain \in BOOLEAN

\* The unanswered operations are consecutive, oldest on the done list; those
\* answered have a status.
Consecutive ==
  /\ Answered \in Nat
  /\ \A j \in 1..Len(done) : /\ done[j] = Answered + j
                             /\ status[done[j]] # "none"
  /\ hand # 0 => hand = Answered + Len(done) + 1
  /\ \A j \in 1..Len(queue) : queue[j] = Answered + Len(done) + Held + j
  /\ \A i \in 1..Len(promise) : promise[i] = "pending" <=> i > Answered

\* The worker has an operation while it works, a close operation is the last
\* one, and once it was settled everything is.
CloseIsLast ==
  /\ worker = "work" <=> hand # 0
  /\ \A i \in 1..Len(kind) : kind[i] = "close" => i = Len(kind) /\ (closing \/ closed)
  /\ loop = "join" => close_after_drain
  /\ loop # "idle" /\ close_after_drain => Answered = Len(promise)

ClientInv == ClientTypes /\ Consecutive /\ CloseIsLast
-----------------------------------------------------------------------------
\* What Append and Tail do to a list.
LEMMA AppendFacts ==
  ASSUME NEW S, NEW q \in Seq(S), NEW e \in S
  PROVE  /\ Append(q, e) \in Seq(S)
         /\ Len(q) \in Nat /\ Len(Append(q, e)) = Len(q) + 1
         /\ \A i \in 1..Len(q) : Append(q, e)[i] = q[i]
         /\ Append(q, e)[Len(q) + 1] = e
  OBVIOUS

LEMMA TailFacts ==
  ASSUME NEW S, NEW q \in Seq(S), q # <<>>
  PROVE  /\ Len(q) \in Nat \ {0} /\ Head(q) = q[1] /\ q[1] \in S
         /\ Tail(q) \in Seq(S) /\ Len(Tail(q)) = Len(q) - 1
         /\ \A i \in 1..(Len(q) - 1) : Tail(q)[i] = q[i + 1]
  OBVIOUS

\* One list after another.
LEMMA ConcatFacts ==
  ASSUME NEW S, NEW p \in Seq(S), NEW q \in Seq(S)
  PROVE  /\ p \o q \in Seq(S)
         /\ Len(p \o q) = Len(p) + Len(q)
         /\ \A j \in 1..Len(p) + Len(q) :
              (p \o q)[j] = IF j <= Len(p) THEN p[j] ELSE q[j - Len(p)]
  OBVIOUS

\* Replacing one element of a list.
LEMMA ExceptFacts ==
  ASSUME NEW S, NEW q \in Seq(S), NEW i \in 1..Len(q), NEW e \in S
  PROVE  /\ [q EXCEPT ![i] = e] \in Seq(S)
         /\ Len([q EXCEPT ![i] = e]) = Len(q)
         /\ \A j \in 1..Len(q) : [q EXCEPT ![i] = e][j] = IF j = i THEN e ELSE q[j]
  OBVIOUS

\* A call of the program: one more operation, at the end of the queue.
LEMMA EnqueueStep ==
  ASSUME ClientInv, NEW k \in Client!Kinds, Client!Enqueue(k)
  PROVE  ClientInv'
<1> USE DEF ClientInv, ClientTypes, Client!Enqueue
<1> DEFINE n == Len(kind) + 1
<1>1. ClientTypes'
  BY DEF Client!Kinds
<1>2. /\ Len(kind') = n /\ Len(promise') = n /\ Len(queue') = Len(queue) + 1
      /\ n \in Nat \ {0} /\ Len(queue) \in Nat /\ Len(done) \in Nat
  BY AppendFacts
<1>3. Held' = Held /\ Answered' = Answered /\ Held \in {0, 1}
  BY <1>2 DEF Held, Answered
<1>4. n = Answered + Len(done) + Held + Len(queue) + 1 /\ Answered \in Nat
  BY <1>2, <1>3 DEF Answered, Consecutive
<1>5. /\ \A i \in 1..Len(promise) : promise'[i] = promise[i]
      /\ promise'[n] = "pending"
      /\ \A i \in 1..Len(kind) : kind'[i] = kind[i]
      /\ kind'[n] = k
      /\ \A i \in 1..Len(status) : status'[i] = status[i]
      /\ \A i \in 1..Len(queue) : queue'[i] = queue[i]
      /\ queue'[Len(queue) + 1] = n
  BY <1>2, AppendFacts
<1>6. ASSUME NEW j \in 1..Len(done')
      PROVE  done'[j] = Answered' + j /\ status'[done'[j]] # "none"
  <2>1. /\ done' = done /\ j \in 1..Len(done)
        /\ done[j] = Answered + j /\ status[done[j]] # "none"
    BY DEF Consecutive
  <2>2. done[j] \in 1..Len(status)
    BY <1>2, <1>3, <1>4, <2>1
  <2> HIDE DEF ClientInv, ClientTypes, Client!Enqueue
  <2> QED
    BY <1>3, <1>5, <2>1, <2>2
<1>7. \A j \in 1..Len(queue') : queue'[j] = Answered' + Len(done') + Held' + j
  BY <1>2, <1>3, <1>4, <1>5 DEF Consecutive
<1>8. ASSUME NEW i \in 1..Len(promise')
      PROVE  promise'[i] = "pending" <=> i > Answered'
  <2>1. CASE i = n
    BY <1>2, <1>3, <1>4, <1>5, <2>1
  <2>2. CASE i \in 1..Len(promise)
    BY <1>3, <1>5, <2>2 DEF Consecutive
  <2> QED
    BY <1>2, <2>1, <2>2
<1>9. Consecutive'
  BY <1>3, <1>4, <1>6, <1>7, <1>8 DEF Consecutive
<1>10. CloseIsLast'
  <2>1. ASSUME NEW i \in 1..Len(kind'), kind'[i] = "close"
        PROVE  i = Len(kind') /\ (closing' \/ closed')
    <3>1. CASE i = n
      BY <1>2, <1>5, <2>1, <3>1
    <3>2. CASE i \in 1..Len(kind)
      BY <1>5, <2>1, <3>2 DEF CloseIsLast
    <3> QED
      BY <1>2, <2>1, <3>1, <3>2
  <2>2. worker' = "work" <=> hand' # 0
    BY DEF CloseIsLast, Client!Signalled
  <2> QED
    BY <2>1, <2>2 DEF CloseIsLast
<1> QED
  BY <1>1, <1>9, <1>10

\* The worker takes the head of the queue, or finds it empty.
LEMMA TakeStep ==
  ASSUME ClientInv, Client!Take
  PROVE  ClientInv'
<1> USE DEF ClientInv, ClientTypes, Client!Take
<1>0. hand = 0
  BY DEF CloseIsLast
<1>1. CASE queue # <<>>
  <2>1. /\ hand' = queue[1] /\ queue' = Tail(queue) /\ worker' = "work"
        /\ Len(queue) \in Nat \ {0} /\ queue[1] \in Nat \ {0}
        /\ queue' \in Seq(Nat \ {0}) /\ Len(queue') = Len(queue) - 1
        /\ \A i \in 1..(Len(queue) - 1) : queue'[i] = queue[i + 1]
    <3>1. hand' = Head(queue) /\ queue' = Tail(queue) /\ worker' = "work"
      BY <1>1
    <3>2. queue \in Seq(Nat \ {0})
      OBVIOUS
    <3> QED
      BY <1>1, <3>1, <3>2, TailFacts
  <2>2. Held = 0 /\ Held' = 1 /\ Answered' = Answered
    BY <1>0, <2>1 DEF Held, Answered
  <2>3. ClientTypes'
    BY <2>1
  <2>4. Consecutive'
    BY <2>1, <2>2 DEF Consecutive
  <2>5. CloseIsLast'
    BY <1>0, <2>1, <2>2 DEF CloseIsLast
  <2> QED
    BY <2>3, <2>4, <2>5
<1>2. CASE queue = <<>>
  BY <1>0, <1>2 DEF Consecutive, CloseIsLast, Answered, Held
<1> QED
  BY <1>1, <1>2

\* The worker's operation ends and goes to the end of the done list.
LEMMA WorkStep ==
  ASSUME ClientInv, Client!Work
  PROVE  ClientInv'
<1> USE DEF ClientInv, ClientTypes, Client!Work
<1>0. hand # 0 /\ hand = Answered + Len(done) + 1 /\ Answered \in Nat /\ Held = 1
  BY DEF CloseIsLast, Consecutive, Held
<1>1. hand \in 1..Len(status) /\ hand \in Nat \ {0}
  BY <1>0 DEF Answered
<1>2. PICK r \in {"ok", "err"} : status' = [status EXCEPT ![hand] = r]
  OBVIOUS
<1>3. /\ status' \in Seq({"none", "ok", "err"}) /\ Len(status') = Len(status)
      /\ \A j \in 1..Len(status) : status'[j] = IF j = hand THEN r ELSE status[j]
  BY <1>1, <1>2, ExceptFacts
<1>4. /\ done' \in Seq(Nat \ {0}) /\ Len(done') = Len(done) + 1 /\ Len(done) \in Nat
      /\ \A i \in 1..Len(done) : done'[i] = done[i]
      /\ done'[Len(done) + 1] = hand
  BY <1>1, AppendFacts
<1>5. ClientTypes'
  BY <1>3, <1>4
<1>6. Held' = 0 /\ Answered' = Answered
  BY <1>0, <1>4 DEF Held, Answered
<1>7. ASSUME NEW j \in 1..Len(done')
      PROVE  done'[j] = Answered' + j /\ status'[done'[j]] # "none"
  <2>1. CASE j = Len(done) + 1
    BY <1>0, <1>1, <1>3, <1>4, <1>6, <2>1
  <2>2. CASE j \in 1..Len(done)
    <3>1. done'[j] = Answered + j /\ status[done'[j]] # "none"
      BY <1>4, <2>2 DEF Consecutive
    <3>2. Len(status) \in Nat
      OBVIOUS
    <3> HIDE DEF ClientInv, ClientTypes, Client!Work
    <3>3. done'[j] \in 1..Len(status) /\ done'[j] # hand
      BY <1>0, <1>1, <1>4, <2>2, <3>1, <3>2
    <3> QED
      BY <1>3, <1>6, <3>1, <3>3
  <2> QED
    BY <1>4, <2>1, <2>2
<1>8. Consecutive'
  <2>1. \A j \in 1..Len(queue') : queue'[j] = Answered' + Len(done') + Held' + j
    BY <1>0, <1>4, <1>6 DEF Consecutive
  <2> QED
    BY <1>0, <1>6, <1>7, <2>1 DEF Consecutive
<1>9. CloseIsLast'
  BY <1>6 DEF CloseIsLast
<1> QED
  BY <1>5, <1>8, <1>9

\* The loop settles the head of the done list.  If that is the close operation
\* nothing is left.
LEMMA ClientSettleStep ==
  ASSUME ClientInv, Client!Settle
  PROVE  ClientInv'
<1> USE DEF ClientInv, ClientTypes, Client!Settle
<1> DEFINE op == Head(done)
<1>1. /\ op = done[1] /\ Len(done) \in Nat \ {0} /\ Len(queue) \in Nat
      /\ done' \in Seq(Nat \ {0}) /\ Len(done') = Len(done) - 1
      /\ \A i \in 1..(Len(done) - 1) : done'[i] = done[i + 1]
  BY TailFacts
<1>2. op = Answered + 1 /\ Answered \in Nat /\ status[op] # "none"
  BY <1>1 DEF Consecutive
<1>3. Held \in {0, 1} /\ Held' = Held
  BY DEF Held
<1>4. op \in 1..Len(promise)
  BY <1>1, <1>2, <1>3 DEF Answered
<1>5. status[op] \in {"ok", "err"}
  BY <1>2, <1>4
<1>6. /\ promise' \in Seq({"pending", "ok", "err"}) /\ Len(promise') = Len(promise)
      /\ \A j \in 1..Len(promise) : promise'[j] = IF j = op THEN status[op] ELSE promise[j]
  BY <1>4, <1>5, ExceptFacts
<1>7. Answered' = Answered + 1
  BY <1>1, <1>2, <1>3, <1>6 DEF Answered
<1>8. ClientTypes'
  BY <1>1, <1>6
<1>9. Consecutive'
  <2>1. \A i \in 1..Len(promise') : promise'[i] = "pending" <=> i > Answered'
    BY <1>2, <1>4, <1>5, <1>6, <1>7 DEF Consecutive
  <2>2. \A j \in 1..Len(done') : done'[j] = Answered' + j /\ status'[done'[j]] # "none"
    BY <1>1, <1>2, <1>7 DEF Consecutive
  <2>3. \A j \in 1..Len(queue') : queue'[j] = Answered' + Len(done') + Held' + j
    BY <1>1, <1>2, <1>3, <1>7 DEF Consecutive
  <2> QED
    BY <1>1, <1>2, <1>7, <2>1, <2>2, <2>3 DEF Consecutive
<1>10. CloseIsLast'
  <2>1. ASSUME kind[op] = "close" PROVE Answered' = Len(promise')
    BY <1>2, <1>4, <1>6, <1>7, <2>1 DEF CloseIsLast
  <2>2. ~close_after_drain
    BY <1>1, <1>2, <1>3, <1>4 DEF CloseIsLast
  <2> QED
    BY <2>1, <2>2 DEF CloseIsLast
<1> QED
  BY <1>8, <1>9, <1>10

\* rpc_client_close_impl discards lists that are empty.
LEMMA JoinStep ==
  ASSUME ClientInv, Client!Join
  PROVE  ClientInv'
<1> USE DEF ClientInv, ClientTypes, Client!Join
<1>1. Answered = Len(promise) /\ hand = 0
  BY DEF CloseIsLast
<1>2. Held = 0 /\ Len(queue) \in Nat /\ Len(done) \in Nat /\ Len(promise) \in Nat
  BY <1>1 DEF Held
<1>3. Len(queue) = 0 /\ Len(done) = 0
  BY <1>1, <1>2 DEF Answered
<1>4. queue = <<>> /\ done = <<>>
  BY <1>3
<1>5. queue' = queue /\ done' = done
  BY <1>4
<1>6. Answered' = Answered /\ Held' = Held
  BY <1>5 DEF Answered, Held
<1>7. ClientTypes'
  BY <1>5
<1>8. Consecutive'
  BY <1>5, <1>6 DEF Consecutive
<1>9. CloseIsLast'
  BY <1>6 DEF CloseIsLast
<1> QED
  BY <1>7, <1>8, <1>9

\* A step of either thread keeps the invariant.
LEMMA ClientInvStep == ClientInv /\ [Client!Next]_(Client!vars) => ClientInv'
<1> SUFFICES ASSUME ClientInv, [Client!Next]_(Client!vars)
             PROVE  ClientInv'
  OBVIOUS
<1> USE DEF ClientInv, ClientTypes, Consecutive, CloseIsLast, Answered, Held
<1>1. CASE Client!Send
  BY <1>1 DEF Client!Send
<1>2. CASE Client!Wake
  BY <1>2 DEF Client!Wake
<1>3. CASE Client!Drained
  BY <1>3 DEF Client!Drained, Client!Signalled
<1>4. CASE UNCHANGED Client!vars
  BY <1>4 DEF Client!vars
<1> QED
  BY <1>1, <1>2, <1>3, <1>4, EnqueueStep, TakeStep, WorkStep, ClientSettleStep, JoinStep,
     Zenon DEF Client!Next

\* The invariant says of the three places together what NoOperationLost says of
\* their concatenation.
LEMMA ClientInvImplies == ClientInv => Client!NoOperationLost
<1> SUFFICES ASSUME ClientInv PROVE Client!NoOperationLost
  OBVIOUS
<1> USE DEF ClientInv, ClientTypes
<1> DEFINE mine == IF hand = 0 THEN <<>> ELSE <<hand>>
<1>1. /\ mine \in Seq(Nat \ {0}) /\ Len(mine) = Held /\ Held \in {0, 1}
      /\ Held = 1 => mine[1] = hand /\ hand # 0
  <2>1. CASE hand = 0
    BY <2>1, EmptySeq DEF Held
  <2>2. CASE hand # 0
    BY <2>2 DEF Held
  <2> QED
    BY <2>1, <2>2
<1> HIDE DEF mine
<1>2. /\ done \o mine \in Seq(Nat \ {0}) /\ Len(done \o mine) = Len(done) + Held
      /\ Len(done) \in Nat /\ Len(queue) \in Nat
      /\ \A j \in 1..(Len(done) + Held) :
           (done \o mine)[j] = IF j <= Len(done) THEN done[j] ELSE mine[j - Len(done)]
  BY <1>1
<1> DEFINE front == done \o mine
<1> HIDE DEF front
<1>3. /\ front \o queue \in Seq(Nat \ {0})
      /\ Len(front \o queue) = Len(done) + Held + Len(queue)
      /\ \A j \in 1..(Len(done) + Held + Len(queue)) :
           (front \o queue)[j] = IF j <= Len(front) THEN front[j] ELSE queue[j - Len(front)]
  <2>1. front \in Seq(Nat \ {0}) /\ Len(front) = Len(done) + Held
    BY <1>2 DEF front
  <2>2. queue \in Seq(Nat \ {0})
    OBVIOUS
  <2>3. /\ front \o queue \in Seq(Nat \ {0})
        /\ Len(front \o queue) = Len(front) + Len(queue)
        /\ \A j \in 1..Len(front) + Len(queue) :
             (front \o queue)[j] = IF j <= Len(front) THEN front[j] ELSE queue[j - Len(front)]
    <3> HIDE DEF ClientInv, ClientTypes
    <3> QED
      BY <2>1, <2>2, ConcatFacts
  <2> QED
    BY <2>1, <2>3
<1>4. Client!Unanswered = front \o queue
  BY DEF Client!Unanswered, front, mine
<1>5. /\ Len(Client!Unanswered) = Len(done) + Held + Len(queue)
      /\ DOMAIN Client!Unanswered = 1..(Len(done) + Held + Len(queue))
      /\ Len(promise) - Len(Client!Unanswered) = Answered /\ Answered \in Nat
  <2>1. Len(Client!Unanswered) = Len(done) + Held + Len(queue)
    BY <1>3, <1>4
  <2>2. DOMAIN Client!Unanswered = 1..Len(Client!Unanswered)
    BY <1>3, <1>4, LenProperties
  <2>3. Answered \in Nat /\ Len(promise) \in Nat
    BY DEF Consecutive
  <2> QED
    BY <1>1, <1>2, <2>1, <2>2, <2>3 DEF Answered
<1>6. ASSUME NEW j \in DOMAIN Client!Unanswered PROVE Client!Unanswered[j] = Answered + j
  <2>0. Len(front) = Len(done) + Held /\ j \in 1..(Len(done) + Held + Len(queue))
    BY <1>2, <1>5 DEF front
  <2>1. CASE j <= Len(done)
    <3>1. Client!Unanswered[j] = front[j] /\ front[j] = done[j] /\ j \in 1..Len(done)
      BY <1>1, <1>2, <1>3, <1>4, <2>0, <2>1 DEF front
    <3> QED
      BY <3>1 DEF Consecutive
  <2>2. CASE j = Len(done) + 1 /\ Held = 1
    <3>1. hand = Answered + Len(done) + 1 /\ Answered \in Nat
      BY <1>1, <2>2 DEF Consecutive
    <3> HIDE DEF ClientInv, ClientTypes
    <3>2. j <= Len(front) /\ ~(j <= Len(done)) /\ j - Len(done) = 1 /\ j \in 1..(Len(done) + Held)
      BY <1>2, <2>0, <2>2
    <3>3. Client!Unanswered[j] = front[j]
      BY <1>3, <1>4, <2>0, <3>2, Zenon
    <3>4. front[j] = mine[1]
      BY <1>2, <3>2, Zenon DEF front
    <3> QED
      BY <1>1, <1>2, <2>2, <3>1, <3>3, <3>4
  <2>3. CASE j > Len(done) + Held
    <3>1. /\ Len(done) \in Nat /\ Len(queue) \in Nat /\ Held \in Nat /\ j \in Nat
          /\ Answered \in Nat
      BY <1>1, <1>2, <1>5, <2>0
    <3>2. \A k \in 1..Len(queue) : queue[k] = Answered + Len(done) + Held + k
      BY DEF Consecutive
    <3> HIDE DEF ClientInv, ClientTypes
    <3> DEFINE k == j - Len(done) - Held
    <3>3. k \in 1..Len(queue) /\ j - Len(front) = k /\ ~(j <= Len(front))
      BY <2>0, <2>3, <3>1
    <3>4. Answered + Len(done) + Held + k = Answered + j
      BY <3>1
    <3> HIDE DEF k
    <3>5. Client!Unanswered[j] = queue[j - Len(front)]
      BY <1>3, <1>4, <2>0, <3>3, Zenon
    <3>6. queue[k] = Answered + Len(done) + Held + k
      BY <3>2, <3>3, Zenon
    <3> QED
      BY <3>3, <3>4, <3>5, <3>6, Zenon
  <2>4. Len(done) \in Nat /\ Held \in {0, 1} /\ j \in Nat
    BY <1>1, <1>2, <2>0
  <2>5. \/ j <= Len(done)
        \/ j = Len(done) + 1 /\ Held = 1
        \/ j > Len(done) + Held
    <3> HIDE DEF ClientInv, ClientTypes
    <3> QED
      BY <2>4
  <2> QED
    BY <2>1, <2>2, <2>3, <2>5, Zenon
<1> QED
  BY <1>5, <1>6 DEF Client!NoOperationLost, Consecutive

LEMMA ClientInitInv == Client!Init => ClientInv
<1> SUFFICES ASSUME Client!Init PROVE ClientInv
  OBVIOUS
<1>1. \A S : <<>> \in Seq(S)
  BY EmptySeq
<1>2. Len(<<>>) = 0
  OBVIOUS
<1>3. ClientTypes
  BY <1>1 DEF Client!Init, ClientTypes
<1>4. Held = 0 /\ Answered = 0
  <2>1. Len(promise) = 0 /\ Len(queue) = 0 /\ Len(done) = 0 /\ hand = 0
    BY <1>2 DEF Client!Init
  <2> QED
    BY <2>1 DEF Held, Answered
<1>5. Consecutive
  BY <1>2, <1>4 DEF Client!Init, Consecutive
<1>6. CloseIsLast
  BY <1>2 DEF Client!Init, CloseIsLast
<1> QED
  BY <1>3, <1>5, <1>6 DEF ClientInv

\* Every promise of an RpcClient is settled in the order of the calls, and the
\* operations not settled are on the two lists or with the worker, also after
\* rpc_client_close_impl threw the lists away.
THEOREM NothingIsLost == Client!Spec => []Client!NoOperationLost
BY ClientInitInv, ClientInvStep, ClientInvImplies, PTL DEF Client!Spec
=============================================================================
