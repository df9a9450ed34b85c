---------------------------- MODULE AsyncGenerator ----------------------------
(***************************************************************************)
(* One async generator object: next(), return() and throw() calls, the     *)
(* queue of requests made while its body runs or awaits, the resumption of  *)
(* the body by the awaited promise or by an await-resume job, and the       *)
(* promise each request is answered through (src/modules/generator.c,       *)
(* src/sugar.c).                                                           *)
(*                                                                         *)
(* The k-th call is request k and a promise made for it is promise k.  The  *)
(* body is nondeterministic: it runs in segments, each of which ends in an  *)
(* await, a yield, a return or a throw.                                    *)
(*                                                                         *)
(* How body and callers behave is the usage, chosen once:                   *)
(*   "overlap"    calls are made at any time, the body awaits a promise      *)
(*                before each yield, as in the tests of overlapping calls    *)
(*   "for await"  a call is made when the one before is answered, the body   *)
(*                may also yield without an await                            *)
(*   "mixed"      calls at any time, a body that may yield without an await  *)
(*   "primitive"  as "for await", and the body may await a primitive value   *)
(*   "any"        all of these, and the body may call its own generator      *)
(***************************************************************************)
EXTENDS Naturals, Sequences

CONSTANTS
  MaxRequests,   \* bound on the number of calls
  MaxAwaits,     \* bound on the number of awaits of the body
  Kinds,         \* the methods called: a subset of {"next", "throw", "return"}
  Usages         \* the usages considered

ASSUME KindsAssumption == Kinds \subseteq {"next", "throw", "return"}
ASSUME UsagesAssumption ==
  Usages \subseteq {"overlap", "for await", "mixed", "primitive", "any"}

Request == 1..MaxRequests
None == 0

VARIABLES
  usage,
  state,          \* generator_data_t.state
  coro,           \* is generator_data_t.coro set?
  act,            \* coro->act: "null", "live" (frames captured) or "empty"
  async_promise,  \* coro->async_promise: a promise, or None for undefined
  awaited,        \* coro->awaited_promise: "promise" or "undefined"
  registered,     \* coro->await_registered
  queue,          \* requests waiting, oldest first
  resume_jobs,    \* MT_AWAIT_RESUME entries queued for the coroutine
  pc,             \* "idle", "body" or "queue": in generator_process_queue
  ctx,            \* who runs the body: a call, the queue, or an await's end
  kind,           \* method of each request made
  returned,       \* the promise each call returned; None before it does
  settled,        \* what each promise is settled with; Pending before
  outcomes,       \* what the body yielded, returned or threw, in order
  awaits          \* awaits made so far

vars == <<state, coro, act, async_promise, awaited, registered, queue,
          resume_jobs, pc, ctx, kind, returned, settled, outcomes, awaits, usage>>
generator == <<state, coro, act, async_promise, awaited, registered>>
body == <<resume_jobs, outcomes, awaits>>

SyncYield == usage # "overlap"
Overlap == usage \in {"overlap", "mixed", "any"}
Primitives == usage \in {"primitive", "any"}
Reentrant == usage = "any"

Pending == [type |-> "pending", id |-> 0]
Outcome(type, n) == [type |-> type, id |-> n]
Undefined == Outcome("yield", 0)   \* {value: undefined, done: false}
NoRun == [by |-> "none", req |-> None]

Init ==
  /\ usage \in Usages
  /\ state = "start" /\ coro = TRUE /\ act = "null" /\ async_promise = None
  /\ awaited = "undefined" /\ registered = FALSE
  /\ queue = <<>> /\ resume_jobs = 0
  /\ pc = "idle" /\ ctx = NoRun
  /\ kind = <<>> /\ outcomes = <<>> /\ awaits = 0
  /\ returned = [k \in Request |-> None]
  /\ settled = [k \in Request |-> Pending]
-----------------------------------------------------------------------------
\* js_resolve_promise or js_reject_promise of a promise of a request; a promise
\* that is settled stays as it is, and settling undefined does nothing.
Settle(p, answer) ==
  [k \in Request |-> IF k = p /\ settled[k] = Pending THEN answer ELSE settled[k]]

\* What a generator that has no body left answers.
CompletedAnswer(k, method) ==
  CASE method = "next" -> Outcome("done", 0)
    [] method = "throw" -> Outcome("thrown back", k)
    [] method = "return" -> Outcome("returned", k)

generator_clear_coro == coro' = FALSE

\* The requests that do not reach the body, with the state they leave.
NoBody == ~coro \/ (act = "null" /\ state # "start")
Unstarted(method) == state = "start" /\ method \in {"throw", "return"}

\* Does the request run the body at once, wait for it, or neither?
RunsBody(method) ==
  ~NoBody /\ state \in {"start", "yield"} /\ ~Unstarted(method)
Waits == ~NoBody /\ state = "executing"
AnsweredAtOnce(method) == ~RunsBody(method) /\ ~Waits

\* Lines 291-342: the body is not run.
AnswerWithoutBody(method) ==
  /\ state' = "completed"
  /\ IF ~NoBody /\ Unstarted(method) THEN generator_clear_coro ELSE UNCHANGED coro
  /\ UNCHANGED <<act, async_promise, awaited, registered>>

\* Lines 344-370: the body is entered, or resumed from its captured frames.
\* An activation whose frames are gone cannot be installed: LostActivation.
EnterBody(by, k) ==
  /\ state' = "executing"
  /\ act' = IF act = "null" THEN "null" ELSE "empty"
  /\ pc' = "body"
  /\ ctx' = [by |-> by, req |-> k]
  /\ UNCHANGED <<coro, awaited, registered>>

Unanswered == {k \in 1..Len(kind) : returned[k] = None \/ settled[returned[k]] = Pending}

\* Mutant: a request goes to the front.
enqueue_in_front(k) == queue' = <<k>> \o queue

generator_enqueue_request(k) == queue' = Append(queue, k)
-----------------------------------------------------------------------------
\* A call of generator_next, generator_throw or generator_return, made by other
\* code or by the body itself.
MayCall ==
  /\ Len(kind) < MaxRequests
  /\ \/ pc = "idle" /\ (Overlap \/ Unanswered = {})
     \/ pc = "body" /\ Reentrant

\* generator_async_wrap_result: a result that is not a promise becomes one.
generator_async_wrap_result(k, answer) ==
  /\ returned' = [returned EXCEPT ![k] = k]
  /\ settled' = Settle(k, answer)

CallAnswered(method) ==
  LET k == Len(kind) + 1 IN
  /\ MayCall /\ AnsweredAtOnce(method)
  /\ kind' = Append(kind, method)
  /\ AnswerWithoutBody(method)
  /\ generator_async_wrap_result(k, CompletedAnswer(k, method))
  /\ UNCHANGED <<queue, pc, ctx, body>>

CallQueued(method) ==
  LET k == Len(kind) + 1 IN
  /\ MayCall /\ Waits
  /\ kind' = Append(kind, method)
  /\ generator_enqueue_request(k)
  /\ returned' = [returned EXCEPT ![k] = k]
  /\ UNCHANGED <<generator, pc, ctx, settled, body>>

CallRuns(method) ==
  LET k == Len(kind) + 1 IN
  /\ MayCall /\ RunsBody(method) /\ act # "empty"
  /\ kind' = Append(kind, method)
  /\ EnterBody("call", k)
  /\ UNCHANGED <<async_promise, queue, returned, settled, body>>

\* "generator activation lost"
LoseActivation ==
  /\ act = "empty"
  /\ state' = "completed"
  /\ generator_clear_coro
  /\ UNCHANGED <<act, awaited, registered>>

CallLost(method) ==
  LET k == Len(kind) + 1 IN
  /\ MayCall /\ RunsBody(method)
  /\ kind' = Append(kind, method)
  /\ LoseActivation
  /\ generator_async_wrap_result(k, Outcome("lost", k))
  /\ UNCHANGED <<async_promise, queue, pc, ctx, body>>
-----------------------------------------------------------------------------
\* How a segment of the body ends.

Finish(type) ==      \* the body returns or throws
  /\ outcomes' = Append(outcomes, Outcome(type, Len(outcomes) + 1))
  /\ act' = IF act = "null" THEN "null" ELSE "empty"
  /\ UNCHANGED <<awaited, registered, resume_jobs, awaits>>

Yield ==
  /\ ctx.by = "await" \/ SyncYield
  /\ outcomes' = Append(outcomes, Outcome("yield", Len(outcomes) + 1))
  /\ act' = "live"
  /\ UNCHANGED <<awaited, registered, resume_jobs, awaits>>

\* sv_await_value of a promise, and of a primitive value.
AwaitPromise ==
  /\ awaits < MaxAwaits
  /\ awaits' = awaits + 1
  /\ act' = "live" /\ awaited' = "promise" /\ registered' = TRUE
  /\ UNCHANGED <<outcomes, resume_jobs>>

AwaitPrimitive ==
  /\ Primitives /\ awaits < MaxAwaits
  /\ awaits' = awaits + 1
  /\ act' = "live" /\ awaited' = "undefined" /\ registered' = TRUE
  /\ resume_jobs' = resume_jobs + 1
  /\ UNCHANGED outcomes

Suspend == Yield \/ AwaitPromise \/ AwaitPrimitive
Complete == Finish("return") \/ Finish("throw")

\* The {value, done} object of the segment, from what the body did; an await
\* leaves undefined.
ResultObject ==
  IF outcomes' # outcomes THEN outcomes'[Len(outcomes')] ELSE Undefined

\* Is the generator seen to be awaiting?  (Lines 237 and 409.)
AwaitIsPending == act' = "live" /\ awaited' # "undefined"
Yielded == act' = "live" /\ awaited' = "undefined"
Ended == act' # "live"
-----------------------------------------------------------------------------

\* The promise an awaiting generator answers through (lines 412-417).
PromiseFor(k) == IF async_promise = None THEN k ELSE async_promise

\* generator_resume_kind_inner after the body ran for request k (lines 401-436).
AfterBody(k) ==
  \/ /\ AwaitIsPending
     /\ state' = "executing"
     /\ async_promise' = PromiseFor(k)
     /\ UNCHANGED coro
  \/ /\ Yielded
     /\ state' = "yield"
     /\ UNCHANGED <<coro, async_promise>>
  \/ /\ Ended
     /\ state' = "completed" /\ generator_clear_coro
     /\ UNCHANGED async_promise

EndOfCall ==
  /\ pc = "body" /\ ctx.by = "call"
  /\ Suspend \/ Complete
  /\ AfterBody(ctx.req)
  /\ IF AwaitIsPending
     THEN /\ returned' = [returned EXCEPT ![ctx.req] = async_promise']
          /\ UNCHANGED settled
     ELSE generator_async_wrap_result(ctx.req, ResultObject)
  /\ pc' = "idle" /\ ctx' = NoRun
  /\ UNCHANGED <<queue, kind>>

EndOfQueued ==
  /\ pc = "body" /\ ctx.by = "queue"
  /\ Suspend \/ Complete
  /\ AfterBody(ctx.req)
  /\ settled' = IF AwaitIsPending THEN settled ELSE Settle(ctx.req, ResultObject)
  /\ pc' = "queue" /\ ctx' = NoRun
  /\ UNCHANGED <<queue, kind, returned>>
-----------------------------------------------------------------------------
\* settle_and_resume_coroutine, called for the handler of the awaited promise and
\* by an await-resume job: the registration is cleared and the body goes on.
settle_and_resume_coroutine ==
  /\ awaited' = "undefined" /\ registered' = FALSE
  /\ IF act = "live"
     THEN act' = "empty" /\ pc' = "body" /\ ctx' = [by |-> "await", req |-> None]
     ELSE UNCHANGED <<act, pc, ctx>>
  /\ UNCHANGED <<state, coro, async_promise, queue, kind, returned, settled,
                 outcomes, awaits>>

AwaitedSettles ==
  /\ pc = "idle" /\ awaited = "promise"
  /\ settle_and_resume_coroutine
  /\ UNCHANGED resume_jobs

\* process_microtask_entry of an MT_AWAIT_RESUME entry.
RunResumeJob ==
  /\ pc = "idle" /\ resume_jobs > 0
  /\ resume_jobs' = resume_jobs - 1
  /\ IF registered
     THEN settle_and_resume_coroutine
     ELSE UNCHANGED <<generator, queue, pc, ctx, kind, returned, settled,
                      outcomes, awaits>>

\* The answered promise is forgotten and the queue is processed.
ForgetPromise == async_promise' = None
ThenProcessQueue == pc' = "queue"

\* The promise that was pending is settled.  Mutant: it is forgotten before.
AnswerForgotten == Settle(async_promise', ResultObject)
AnswerPending == Settle(async_promise, ResultObject)

generator_resume_pending_request ==
  \/ /\ async_promise = None \/ ~coro
     /\ pc' = "idle"
     /\ UNCHANGED <<state, coro, async_promise, settled>>
  \/ /\ async_promise # None /\ coro
     /\ AwaitIsPending
     /\ state' = "executing" /\ pc' = "idle"
     /\ UNCHANGED <<coro, async_promise, settled>>
  \/ /\ async_promise # None /\ coro
     /\ ~AwaitIsPending
     /\ ForgetPromise
     /\ IF Yielded THEN state' = "yield" /\ UNCHANGED coro
                   ELSE state' = "completed" /\ generator_clear_coro
     /\ settled' = AnswerPending
     /\ ThenProcessQueue

EndOfResumed ==
  /\ pc = "body" /\ ctx.by = "await"
  /\ Suspend \/ Complete
  /\ generator_resume_pending_request
  /\ ctx' = NoRun
  /\ UNCHANGED <<queue, kind, returned>>
-----------------------------------------------------------------------------
\* One round of generator_process_queue: the oldest request is taken out of the
\* queue, the coroutine is told its promise, and it is answered or run.
TakeRequest(k) ==
  /\ k = Head(queue)
  /\ queue' = Tail(queue)
  /\ async_promise' = IF coro THEN k ELSE async_promise

QueueGoesOn == pc = "queue" /\ state # "executing" /\ queue # <<>>

QueueAnswers ==
  /\ QueueGoesOn
  /\ \E k \in Request :
       /\ TakeRequest(k)
       /\ \/ /\ AnsweredAtOnce(kind[k])
             /\ state' = "completed"
             /\ settled' = Settle(k, CompletedAnswer(k, kind[k]))
             /\ UNCHANGED coro
          \/ /\ RunsBody(kind[k]) /\ act = "empty"
             /\ state' = "completed" /\ generator_clear_coro
             /\ settled' = Settle(k, Outcome("lost", k))
  /\ UNCHANGED <<act, awaited, registered, pc, ctx, kind, returned, body>>

QueueRuns ==
  /\ QueueGoesOn
  /\ \E k \in Request :
       /\ TakeRequest(k)
       /\ RunsBody(kind[k]) /\ act # "empty"
       /\ EnterBody("queue", k)
  /\ UNCHANGED <<kind, returned, settled, body>>

QueueEnds ==
  /\ pc = "queue" /\ (state = "executing" \/ queue = <<>>)
  /\ pc' = "idle"
  /\ UNCHANGED <<generator, queue, ctx, kind, returned, settled, body>>

Call == \E method \in Kinds : CallAnswered(method) \/ CallQueued(method)
                                \/ CallRuns(method) \/ CallLost(method)
Step == EndOfCall \/ EndOfQueued \/ EndOfResumed \/ AwaitedSettles \/ RunResumeJob
          \/ QueueAnswers \/ QueueRuns \/ QueueEnds
Next == (Call \/ Step) /\ UNCHANGED usage

Spec == Init /\ [][Next]_vars
FairSpec == Spec /\ WF_vars(Step /\ UNCHANGED usage)
-----------------------------------------------------------------------------

\* The answer a caller is to get for request k, from what the body did.
DueAnswer(k) ==
  IF k <= Len(outcomes) THEN outcomes[k] ELSE CompletedAnswer(k, kind[k])

\* The k-th call is answered with the k-th thing the body yields, returns or
\* throws, or, once there is nothing left, as a finished generator answers:
\* whichever of the three ways (the call itself, the queue, the end of an
\* await) the answer takes, and whatever calls were made in between.  (What a
\* call the body makes on its own generator should get is left open.)  What the
\* body yields, returns or throws answers no two promises
\* (generator_resume_kind_inner, generator_process_queue).
AnswersInOrder ==
  /\ ~Reentrant => \A k \in 1..Len(kind) :
       LET p == returned[k] IN
       (p # None /\ settled[p] # Pending) => settled[p] = DueAnswer(k)
  /\ \A p, q \in Request :
       (p # q /\ settled[p].type \in {"yield", "return", "throw"} /\ settled[p].id # 0)
         => settled[p] # settled[q]

\* An await of a primitive value suspends the body; it does not answer the
\* request that runs it with {value: undefined, done: false}.
AwaitIsNoAnswer == \A p \in Request : settled[p] # Undefined

\* Every call is answered, if the awaited promises settle (the segments of the
\* body, the jobs and the queue are run by the runtime).
EveryCallAnswered ==
  \A k \in Request :
    (~Reentrant /\ Len(kind) >= k) ~> (returned[k] # None /\ settled[returned[k]] # Pending)
=============================================================================
