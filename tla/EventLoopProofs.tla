---------------------------- MODULE EventLoopProofs ----------------------------
(***************************************************************************)
(* The order in which js_run_event_loop runs what was queued, for any       *)
(* number of calls of user code and any nesting of the loop in it.  The     *)
(* argument: what may lie on what on the C stack is fixed, so that user     *)
(* code of the outermost loop is always the top of the stack and nothing    *)
(* stands between it and the drain of the microtasks.                       *)
(***************************************************************************)
EXTENDS EventLoop, FiniteSetTheorems, SequenceTheorems, TLAPS

Kinds == {"user", "drain", "immediates", "loop"}
Callbacks == {"script", "microtask", "immediate", "timer", "io", "beforeExit"}
Places == {"check", "poll", "microtasks", "choose", "nowait", "once", "uv",
           "final poll", "final microtasks", "beforeExit", "again"}
Frames == [kind : Kinds, pc : Callbacks \cup Places \cup {"run"}, batch : Nat]
Entries == [id : Nat, active : BOOLEAN]

Types ==
  /\ microtasks \in Nat /\ timers \in Nat /\ idle_timers \in Nat /\ handles \in Nat
  /\ draining \in BOOLEAN /\ immediates \in Seq(Entries) /\ stack \in Seq(Frames)
  /\ set \in Nat /\ ran \in Seq(Nat)

\* What a call of the runtime lies on.
Rests(f, g) ==
  \/ g.kind = "loop" /\ f.kind = "user"
  \/ g.kind = "immediates" /\ f.kind = "loop"
  \/ g.kind = "drain" /\ f.kind \in {"loop", "immediates"}
  \/ g.kind = "user" /\ f.kind \in {"loop", "immediates", "drain"}

Shape ==
  /\ stack # <<>> => stack[1].kind = "loop"
  /\ \A i \in 2..Len(stack) : Rests(stack[i - 1], stack[i])

Is(i, kind) == stack[i].kind = kind

\* microtasks_draining tells whether process_microtasks is on the stack.
Drains ==
  /\ draining <=> \E i \in 1..Len(stack) : Is(i, "drain")
  /\ \A i, j \in 1..Len(stack) : Is(i, "drain") /\ Is(j, "drain") => i = j

\* When the outermost loop has control no microtask is waiting.
Outermost == \A i \in 1..Len(stack) : Is(i, "loop") => i = 1
Quiet == Outermost /\ (In("loop") \/ In("immediates")) => microtasks = 0

StackInv == stack \in Seq(Frames) /\ draining \in BOOLEAN /\ Shape /\ Drains

\* The immediates waiting are numbered upwards, after the ones that ran.
Order ==
  /\ \A k \in 1..Len(immediates) : immediates[k].id <= set
  /\ \A j, k \in 1..Len(immediates) : j < k => immediates[j].id < immediates[k].id
  /\ \A j \in 1..Len(ran), k \in 1..Len(immediates) : ran[j] < immediates[k].id
  /\ \A j \in 1..Len(ran) : ran[j] <= set
Cleared ==
  /\ \A c \in cleared : c \in Nat /\ c <= set
  /\ \A k \in 1..Len(immediates) : immediates[k].id \in cleared => ~immediates[k].active

Core == Types /\ StackInv /\ Quiet /\ ReturnsWhenIdle
Numbered == Order /\ Cleared /\ ImmediatesInOrder
-----------------------------------------------------------------------------
\* What a step does to the stack, position by position.
Keeps(n) == \A i \in 1..n : stack'[i] = stack[i]
IsPop == /\ stack' \in Seq(Frames) /\ Len(stack') = Len(stack) - 1 /\ Keeps(Len(stack) - 1)
IsPush(f) ==
  /\ stack' \in Seq(Frames) /\ Len(stack') = Len(stack) + 1 /\ Keeps(Len(stack))
  /\ stack'[Len(stack) + 1] = f
IsSwap(f) ==
  /\ stack' \in Seq(Frames) /\ Len(stack') = Len(stack) /\ Keeps(Len(stack) - 1)
  /\ stack'[Len(stack)] = f
IsSwapPush(f, g) ==
  /\ stack' \in Seq(Frames) /\ Len(stack') = Len(stack) + 1 /\ Keeps(Len(stack) - 1)
  /\ stack'[Len(stack)] = f /\ stack'[Len(stack) + 1] = g

LEMMA NonEmpty ==
  ASSUME stack \in Seq(Frames), stack # <<>>
  PROVE  /\ Len(stack) \in Nat /\ Len(stack) >= 1 /\ Top \in Frames
         /\ \A i \in 1..Len(stack) : stack[i] \in Frames
<1>1. Len(stack) \in Nat \ {0}
  BY EmptySeq
<1>2. \A i \in 1..Len(stack) : stack[i] \in Frames
  BY ElementOfSeq
<1> QED
  BY <1>1, <1>2 DEF Top

LEMMA BelowFacts ==
  ASSUME stack \in Seq(Frames), stack # <<>>
  PROVE  /\ Below \in Seq(Frames) /\ Len(Below) = Len(stack) - 1
         /\ \A i \in 1..(Len(stack) - 1) : Below[i] = stack[i]
<1> DEFINE n == Len(stack) - 1
<1>1. n \in Nat /\ \A i \in 1..n : stack[i] \in Frames
  BY NonEmpty
<1> HIDE DEF n
<1>2. /\ SubSeq(stack, 1, n) \in Seq(Frames)
      /\ Len(SubSeq(stack, 1, n)) = IF 1 <= n THEN n - 1 + 1 ELSE 0
      /\ \A i \in 1..(n - 1 + 1) : SubSeq(stack, 1, n)[i] = stack[1 + i - 1]
  BY <1>1, SubSeqProperties
<1>3. \A i \in 1..n : 1 + i - 1 = i /\ i \in 1..(n - 1 + 1)
  BY <1>1
<1>4. Below = SubSeq(stack, 1, n)
  BY DEF Below, n
<1>5. Len(Below) = n
  BY <1>1, <1>2, <1>4
<1>6. \A i \in 1..n : Below[i] = stack[i]
  BY <1>2, <1>3, <1>4
<1> QED
  BY <1>2, <1>4, <1>5, <1>6 DEF n

LEMMA PopFacts ==
  ASSUME stack \in Seq(Frames), stack # <<>>, stack' = Below
  PROVE  IsPop
BY BelowFacts DEF IsPop, Keeps

LEMMA PushFacts ==
  ASSUME stack \in Seq(Frames), NEW f \in Frames, stack' = Append(stack, f)
  PROVE  IsPush(f)
BY AppendProperties DEF IsPush, Keeps

LEMMA SwapFacts ==
  ASSUME stack \in Seq(Frames), stack # <<>>, NEW f \in Frames, stack' = Append(Below, f)
  PROVE  IsSwap(f)
<1>1. Len(stack) \in Nat /\ Len(stack) >= 1
  BY NonEmpty
<1>2. /\ Below \in Seq(Frames) /\ Len(Below) = Len(stack) - 1
      /\ \A i \in 1..(Len(stack) - 1) : Below[i] = stack[i]
  BY BelowFacts
<1>3. /\ Append(Below, f) \in Seq(Frames)
      /\ Len(Append(Below, f)) = Len(Below) + 1
      /\ \A i \in 1..Len(Below) : Append(Below, f)[i] = Below[i]
      /\ Append(Below, f)[Len(Below) + 1] = f
  BY <1>2, AppendProperties
<1> QED
  BY <1>1, <1>2, <1>3 DEF IsSwap, Keeps

LEMMA SwapPushFacts ==
  ASSUME stack \in Seq(Frames), stack # <<>>, NEW f \in Frames, NEW g \in Frames,
         stack' = Below \o <<f, g>> \/ stack' = Append(Append(Below, f), g)
  PROVE  IsSwapPush(f, g)
<1> DEFINE one == Append(Below, f)
<1>1. Len(stack) \in Nat /\ Len(stack) >= 1
  BY NonEmpty
<1>2. /\ Below \in Seq(Frames) /\ Len(Below) = Len(stack) - 1
      /\ \A i \in 1..(Len(stack) - 1) : Below[i] = stack[i]
  BY BelowFacts
<1>3. /\ one \in Seq(Frames) /\ Len(one) = Len(stack)
      /\ \A i \in 1..(Len(stack) - 1) : one[i] = stack[i]
      /\ one[Len(stack)] = f
  <2>1. /\ one \in Seq(Frames) /\ Len(one) = Len(Below) + 1
        /\ \A i \in 1..Len(Below) : one[i] = Below[i]
        /\ one[Len(Below) + 1] = f
    BY <1>2, AppendProperties
  <2> QED
    BY <1>1, <1>2, <2>1
<1>4. CASE stack' = Append(one, g)
  <2> HIDE DEF one
  <2>1. /\ stack' \in Seq(Frames) /\ Len(stack') = Len(one) + 1
        /\ \A i \in 1..Len(one) : stack'[i] = one[i]
        /\ stack'[Len(one) + 1] = g
    BY <1>3, <1>4, AppendProperties
  <2> QED
    BY <1>1, <1>3, <2>1 DEF IsSwapPush, Keeps
<1>5. CASE stack' = Below \o <<f, g>>
  <2> DEFINE q == <<f, g>>
  <2>1. q \in Seq(Frames) /\ Len(q) = 2 /\ q[1] = f /\ q[2] = g
    OBVIOUS
  <2> HIDE DEF q
  <2>2. /\ Below \o q \in Seq(Frames) /\ Len(Below \o q) = Len(Below) + 2
        /\ \A i \in 1..(Len(Below) + 2) :
              (Below \o q)[i] = IF i <= Len(Below) THEN Below[i] ELSE q[i - Len(Below)]
    <3>1. /\ Below \o q \in Seq(Frames) /\ Len(Below \o q) = Len(Below) + Len(q)
          /\ \A i \in 1..(Len(Below) + Len(q)) :
                (Below \o q)[i] = IF i <= Len(Below) THEN Below[i] ELSE q[i - Len(Below)]
      BY <1>2, <2>1, ConcatProperties, Zenon
    <3> QED
      BY <2>1, <3>1
  <2>3. stack' = Below \o q
    BY <1>5 DEF q
  <2>4. Len(stack) \in 1..(Len(Below) + 2) /\ Len(stack) + 1 \in 1..(Len(Below) + 2)
        /\ ~(Len(stack) <= Len(Below)) /\ ~(Len(stack) + 1 <= Len(Below))
        /\ Len(stack) - Len(Below) = 1 /\ Len(stack) + 1 - Len(Below) = 2
    BY <1>1, <1>2
  <2>5. stack'[Len(stack)] = f /\ stack'[Len(stack) + 1] = g
    BY <2>1, <2>2, <2>3, <2>4
  <2>6. \A i \in 1..(Len(stack) - 1) : stack'[i] = stack[i]
    BY <1>1, <1>2, <2>2, <2>3
  <2> QED
    BY <1>1, <1>2, <2>2, <2>3, <2>5, <2>6 DEF IsSwapPush, Keeps
<1> QED
  BY <1>4, <1>5
-----------------------------------------------------------------------------
\* The stack keeps its shape, and microtasks_draining tells the truth.
LEMMA PushKeeps ==
  ASSUME StackInv, stack # <<>>, NEW f, IsPush(f), Rests(Top, f),
         f.kind # "drain", draining' = draining
  PROVE  StackInv'
<1>1. Len(stack) \in Nat /\ Len(stack) >= 1
  BY NonEmpty DEF StackInv
<1>2. Shape'
  <2>1. (stack' # <<>> => stack'[1].kind = "loop")
    BY <1>1 DEF StackInv, Shape, IsPush, Keeps
  <2>2. ASSUME NEW i \in 2..Len(stack') PROVE Rests(stack'[i - 1], stack'[i])
    <3>1. CASE i = Len(stack) + 1
      BY <1>1, <3>1 DEF IsPush, Keeps, Top
    <3>2. CASE i # Len(stack) + 1
      <4>1. i \in 2..Len(stack) /\ i - 1 \in 1..Len(stack) /\ i \in 1..Len(stack)
        BY <1>1, <3>2 DEF IsPush
      <4>2. stack'[i - 1] = stack[i - 1] /\ stack'[i] = stack[i]
        BY <4>1 DEF IsPush, Keeps
      <4> QED
        BY <4>1, <4>2 DEF StackInv, Shape
    <3> QED
      BY <3>1, <3>2
  <2> QED
    BY <2>1, <2>2 DEF Shape, Rests
<1>3. Drains'
  BY <1>1 DEF StackInv, Drains, Is, IsPush, Keeps
<1> QED
  BY <1>2, <1>3 DEF StackInv, IsPush

LEMMA SwapKeeps ==
  ASSUME StackInv, stack # <<>>, NEW f, IsSwap(f), f.kind = Top.kind, draining' = draining
  PROVE  StackInv'
<1>1. Len(stack) \in Nat /\ Len(stack) >= 1
  BY NonEmpty DEF StackInv
<1>2. \A i \in 1..Len(stack) : stack'[i].kind = stack[i].kind
  BY <1>1 DEF IsSwap, Keeps, Top
<1>3. Shape'
  BY <1>1, <1>2 DEF StackInv, Shape, Rests, IsSwap
<1>4. Drains'
  BY <1>1, <1>2 DEF StackInv, Drains, Is, IsSwap
<1> QED
  BY <1>3, <1>4 DEF StackInv, IsSwap

LEMMA SwapPushKeeps ==
  ASSUME StackInv, stack # <<>>, NEW f, NEW g, IsSwapPush(f, g), f.kind = Top.kind,
         Rests(f, g),
         \/ g.kind # "drain" /\ draining' = draining
         \/ g.kind = "drain" /\ draining = FALSE /\ draining' = TRUE
  PROVE  StackInv'
<1>1. Len(stack) \in Nat /\ Len(stack) >= 1
  BY NonEmpty DEF StackInv
<1>2. /\ \A i \in 1..Len(stack) : stack'[i].kind = stack[i].kind
      /\ stack'[Len(stack)] = f /\ stack'[Len(stack) + 1] = g /\ Len(stack') = Len(stack) + 1
  BY <1>1 DEF IsSwapPush, Keeps, Top
<1>3. Shape'
  <2>1. (stack' # <<>> => stack'[1].kind = "loop")
    BY <1>1, <1>2 DEF StackInv, Shape
  <2>2. ASSUME NEW i \in 2..Len(stack') PROVE Rests(stack'[i - 1], stack'[i])
    <3>1. CASE i = Len(stack) + 1
      BY <1>1, <1>2, <3>1
    <3>2. CASE i # Len(stack) + 1
      BY <1>1, <1>2, <3>2 DEF StackInv, Shape, Rests
    <3> QED
      BY <3>1, <3>2
  <2> QED
    BY <2>1, <2>2 DEF Shape, Rests
<1>4. Drains'
  <2>1. CASE g.kind # "drain" /\ draining' = draining
    BY <1>1, <1>2, <2>1 DEF StackInv, Drains, Is
  <2>2. CASE g.kind = "drain" /\ draining = FALSE /\ draining' = TRUE
    BY <1>1, <1>2, <2>2 DEF StackInv, Drains, Is
  <2> QED
    BY <2>1, <2>2
<1>5. draining' \in BOOLEAN
  BY DEF StackInv
<1> QED
  BY <1>3, <1>4, <1>5 DEF StackInv, IsSwapPush

LEMMA SwapDrain ==
  ASSUME StackInv, In("user"), NEW f, IsSwap(f), f.kind = "drain",
         draining = FALSE, draining' = TRUE
  PROVE  StackInv'
<1>1. Len(stack) \in Nat /\ Len(stack) >= 2
  BY NonEmpty DEF StackInv, Shape, In, Top
<1>2. /\ \A i \in 1..(Len(stack) - 1) : stack'[i] = stack[i]
      /\ stack'[Len(stack)] = f /\ Len(stack') = Len(stack)
  BY DEF IsSwap, Keeps
<1>3. Rests(stack[Len(stack) - 1], stack[Len(stack)]) /\ stack[Len(stack)].kind = "user"
  BY <1>1 DEF StackInv, Shape, In, Top
<1>4. \A i \in 1..Len(stack) : stack[i].kind # "drain"
  BY DEF StackInv, Drains, Is
<1>5. stack[Len(stack) - 1].kind # "drain"
  BY <1>1, <1>4
<1>6. Shape'
  <2>1. (stack' # <<>> => stack'[1].kind = "loop")
    BY <1>1, <1>2 DEF StackInv, Shape
  <2>2. ASSUME NEW i \in 2..Len(stack') PROVE Rests(stack'[i - 1], stack'[i])
    <3>1. CASE i = Len(stack)
      BY <1>1, <1>2, <1>3, <1>5, <3>1 DEF Rests
    <3>2. CASE i # Len(stack)
      BY <1>1, <1>2, <3>2 DEF StackInv, Shape
    <3> QED
      BY <3>1, <3>2
  <2> QED
    BY <2>1, <2>2 DEF Shape, Rests
<1>7. Drains'
  BY <1>1, <1>2, <1>4 DEF Drains, Is
<1> QED
  BY <1>6, <1>7 DEF StackInv, IsSwap

LEMMA PopKeeps ==
  ASSUME StackInv, stack # <<>>, IsPop,
         \/ Top.kind # "drain" /\ draining' = draining
         \/ Top.kind = "drain" /\ draining' = FALSE
  PROVE  StackInv'
<1>1. Len(stack) \in Nat /\ Len(stack) >= 1
  BY NonEmpty DEF StackInv
<1>2. /\ \A i \in 1..(Len(stack) - 1) : stack'[i] = stack[i]
      /\ Len(stack') = Len(stack) - 1 /\ stack' \in Seq(Frames)
  BY DEF IsPop, Keeps
<1>3. Shape'
  <2>1. (stack' # <<>> => stack'[1].kind = "loop")
    <3>1. stack' # <<>> => Len(stack') # 0
      BY <1>2, EmptySeq
    <3> QED
      BY <1>1, <1>2, <3>1 DEF StackInv, Shape
  <2> QED
    BY <1>1, <1>2, <2>1 DEF StackInv, Shape, Rests
<1>4. Drains'
  <2> DEFINE n == Len(stack)
  <2>1. /\ n \in Nat /\ n >= 1 /\ Len(stack') = n - 1
        /\ \A i \in 1..(n - 1) : stack'[i].kind = stack[i].kind
    BY <1>1, <1>2
  <2>2. /\ draining <=> \E i \in 1..n : stack[i].kind = "drain"
        /\ \A i, j \in 1..n : stack[i].kind = "drain" /\ stack[j].kind = "drain" => i = j
    BY DEF StackInv, Drains, Is
  <2>3. Top = stack[n]
    BY DEF Top
  <2> HIDE DEF n
  <2>4. \A i, j \in 1..(n - 1) : stack'[i].kind = "drain" /\ stack'[j].kind = "drain" => i = j
    BY <2>1, <2>2
  <2>5. draining' <=> \E i \in 1..(n - 1) : stack'[i].kind = "drain"
    <3>1. CASE Top.kind # "drain" /\ draining' = draining
      <4>1. \A i \in 1..n : stack[i].kind = "drain" => i \in 1..(n - 1)
        BY <2>1, <2>3, <3>1
      <4>2. 1..(n - 1) \subseteq 1..n
        BY <2>1
      <4> QED
        BY <2>1, <2>2, <3>1, <4>1, <4>2, Zenon
    <3>2. CASE Top.kind = "drain" /\ draining' = FALSE
      BY <2>1, <2>2, <2>3, <3>2
    <3> QED
      BY <3>1, <3>2
  <2> QED
    BY <2>1, <2>4, <2>5 DEF Drains, Is
<1>5. draining' \in BOOLEAN
  BY DEF StackInv
<1> QED
  BY <1>2, <1>3, <1>4, <1>5 DEF StackInv
-----------------------------------------------------------------------------
LEMMA FrameTypes ==
  /\ \A n \in Callbacks : User(n) \in Frames /\ User(n).kind = "user" /\ User(n).pc = n
  /\ \A n \in Nat : Drain(n) \in Frames /\ Drain(n).kind = "drain"
  /\ \A n \in Places : Loop(n) \in Frames /\ Loop(n).kind = "loop"
  /\ Immediates \in Frames /\ Immediates.kind = "immediates"
<1>1. \A n \in Callbacks : User(n) \in Frames /\ User(n).kind = "user" /\ User(n).pc = n
  BY DEF User, Frames, Kinds
<1>2. \A n \in Nat : Drain(n) \in Frames /\ Drain(n).kind = "drain"
  BY DEF Drain, Frames, Kinds
<1>3. \A n \in Places : Loop(n) \in Frames /\ Loop(n).kind = "loop"
  BY DEF Loop, Frames, Kinds
<1>4. Immediates \in Frames /\ Immediates.kind = "immediates"
  BY DEF Immediates, Frames, Kinds
<1> QED
  BY <1>1, <1>2, <1>3, <1>4

\* Inside the outermost loop only the top of the stack is user code.
LEMMA AboveUser ==
  ASSUME StackInv, NEW i \in 1..Len(stack), Is(i, "user"), i # Len(stack)
  PROVE  i + 1 \in 2..Len(stack) /\ Is(i + 1, "loop")
<1>1. Len(stack) \in Nat
  BY DEF StackInv
<1>2. i + 1 \in 2..Len(stack) /\ i + 1 - 1 = i
  BY <1>1
<1>3. Rests(stack[i], stack[i + 1])
  BY <1>2 DEF StackInv, Shape
<1> QED
  BY <1>2, <1>3 DEF Rests, Is

LEMMA AboveDrain ==
  ASSUME StackInv, NEW i \in 1..Len(stack), Is(i, "drain"), i # Len(stack)
  PROVE  i + 1 \in 1..Len(stack) /\ Is(i + 1, "user")
<1>1. Len(stack) \in Nat
  BY DEF StackInv
<1>2. i + 1 \in 2..Len(stack) /\ i + 1 \in 1..Len(stack) /\ i + 1 - 1 = i
  BY <1>1
<1>3. Rests(stack[i], stack[i + 1])
  BY <1>2 DEF StackInv, Shape
<1> QED
  BY <1>2, <1>3 DEF Rests, Is

\* User code that returns without a drain does not give the outermost loop control.
LEMMA ReturnsToDrain ==
  ASSUME StackInv, In("user"), IsPop, draining \/ Depth("user") # 1, Outermost'
  PROVE  ~(In("loop") \/ In("immediates"))'
<1> DEFINE n == Len(stack)
<1>1. n \in Nat /\ n >= 1 /\ stack # <<>>
  BY NonEmpty DEF StackInv, In
<1>2. /\ Len(stack') = n - 1 /\ \A i \in 1..(n - 1) : stack'[i] = stack[i]
      /\ Is(n, "user")
  BY DEF IsPop, Keeps, In, Top, Is
<1>3. \A i \in 1..n : Is(i, "user") => i = n
  <2> SUFFICES ASSUME NEW i \in 1..n, Is(i, "user"), i # n PROVE FALSE
    OBVIOUS
  <2>1. i + 1 \in 2..n /\ Is(i + 1, "loop")
    BY AboveUser
  <2>2. i + 1 \in 1..(n - 1) /\ i + 1 # 1
    BY <1>1, <1>2, <2>1 DEF Is
  <2> QED
    BY <1>2, <2>1, <2>2 DEF Outermost, Is
<1>4. CASE draining
  <2>1. PICK i \in 1..n : Is(i, "drain")
    BY <1>4 DEF StackInv, Drains
  <2>2. i # n
    BY <1>2, <2>1 DEF Is
  <2>3. i + 1 \in 1..n /\ Is(i + 1, "user")
    BY <2>1, <2>2, AboveDrain
  <2>4. i = n - 1 /\ i \in 1..(n - 1)
    BY <1>1, <1>3, <2>1, <2>2, <2>3
  <2>5. stack'[Len(stack')].kind = "drain"
    BY <1>2, <2>1, <2>4 DEF Is
  <2> QED
    BY <2>5 DEF In, Top
<1>5. CASE Depth("user") # 1
  <2>1. {i \in 1..Len(stack) : stack[i].kind = "user"} = {n}
    BY <1>1, <1>2, <1>3 DEF Is
  <2>2. Cardinality({n}) = 1
    BY FS_Singleton, Zenon
  <2> QED
    BY <1>5, <2>1, <2>2 DEF Depth
<1> QED
  BY <1>4, <1>5

LEMMA PopStays ==
  ASSUME StackInv, stack # <<>>, IsPop, Top.kind # "loop"
  PROVE  stack' # <<>>
<1>1. Len(stack) \in Nat /\ Len(stack) >= 1
  BY NonEmpty DEF StackInv
<1>2. Len(stack) # 1
  BY DEF StackInv, Shape, Top
<1> QED
  BY <1>1, <1>2 DEF IsPop
-----------------------------------------------------------------------------
\* Core, one lemma for each kind of step.
Queues ==
  /\ microtasks \in Nat /\ timers \in Nat /\ idle_timers \in Nat /\ handles \in Nat
  /\ immediates \in Seq(Entries) /\ set \in Nat /\ ran \in Seq(Nat)

LEMMA CoreParts ==
  ASSUME Queues', StackInv', Quiet', ReturnsWhenIdle'
  PROVE  Core'
BY DEF Core, Types, Queues, StackInv

LEMMA DeactivateType ==
  ASSUME immediates \in Seq(Entries), NEW id
  PROVE  /\ Deactivate(id) \in Seq(Entries) /\ Len(Deactivate(id)) = Len(immediates)
         /\ \A k \in 1..Len(immediates) :
              /\ Deactivate(id)[k].id = immediates[k].id
              /\ Deactivate(id)[k].active <=> immediates[k].active /\ immediates[k].id # id
<1>1. \A k \in 1..Len(immediates) : immediates[k] \in Entries
  BY ElementOfSeq
<1>2. Deactivate(id) \in [1..Len(immediates) -> Entries]
  BY <1>1 DEF Deactivate, Entries
<1>3. Len(immediates) \in Nat /\ \A m \in Nat : [1..m -> Entries] \subseteq Seq(Entries)
  BY SeqDef
<1>4. Deactivate(id) \in Seq(Entries)
  BY <1>2, <1>3
<1>5. Len(Deactivate(id)) = Len(immediates)
  BY <1>2, <1>3, <1>4, LenProperties
<1>6. ASSUME NEW k \in 1..Len(immediates)
      PROVE  /\ Deactivate(id)[k].id = immediates[k].id
             /\ Deactivate(id)[k].active <=> immediates[k].active /\ immediates[k].id # id
  BY <1>1 DEF Deactivate, Entries
<1> QED
  BY <1>4, <1>5, <1>6

LEMMA UserCore == Core /\ UserStep => Core'
<1> SUFFICES ASSUME Core, UserStep PROVE Core'
  OBVIOUS
<1>0. In("user") /\ Queues /\ StackInv /\ draining \in BOOLEAN /\ stack \in Seq(Frames)
  BY DEF UserStep, queue_microtask, js_set_immediate, js_clear_immediate, SetTimer, StartIO,
         LoadModule, UserCall, Core, Types, Queues
<1>1. ASSUME stack' = stack, draining' = draining, Queues' PROVE Core'
  <2>1. StackInv'
    BY <1>0, <1>1 DEF StackInv, Shape, Drains, Is, Rests
  <2>2. Quiet' /\ ReturnsWhenIdle'
    BY <1>0, <1>1 DEF Quiet, ReturnsWhenIdle, In, Top
  <2> QED
    BY <1>1, <2>1, <2>2, CoreParts
<1>2. CASE queue_microtask
  BY <1>0, <1>1, <1>2 DEF queue_microtask, Queues, history
<1>3. CASE js_set_immediate
  <2>1. [id |-> set + 1, active |-> TRUE] \in Entries
    BY <1>0 DEF Queues, Entries
  <2>2. immediates' \in Seq(Entries)
    BY <1>0, <1>3, <2>1, AppendProperties DEF js_set_immediate, Queues
  <2> QED
    BY <1>0, <1>1, <1>3, <2>2 DEF js_set_immediate, Queues
<1>4. CASE js_clear_immediate
  <2>1. immediates' \in Seq(Entries)
    BY <1>0, <1>4, DeactivateType DEF js_clear_immediate, Queues
  <2> QED
    BY <1>0, <1>1, <1>4, <2>1 DEF js_clear_immediate, Queues
<1>5. CASE SetTimer
  BY <1>0, <1>1, <1>5 DEF SetTimer, Queues, history
<1>6. CASE StartIO
  BY <1>0, <1>1, <1>6 DEF StartIO, Queues, history
<1>7. CASE LoadModule
  <2>1. IsPush(Loop("check"))
    BY <1>0, <1>7, PushFacts, FrameTypes DEF LoadModule, Places
  <2>2. StackInv'
    BY <1>0, <1>7, <2>1, PushKeeps, FrameTypes DEF LoadModule, Rests, In, Places
  <2>3. Queues'
    BY <1>0, <1>7 DEF LoadModule, Queues, queues, history
  <2>4. Len(stack) \in Nat /\ Len(stack) >= 1
    BY <1>0, NonEmpty DEF In
  <2>5. Len(stack') = Len(stack) + 1 /\ stack'[Len(stack) + 1].kind = "loop"
    BY <2>1, FrameTypes DEF IsPush, Places
  <2>6. ~Outermost' /\ stack' # <<>>
    <3>1. Len(stack) + 1 \in 1..Len(stack') /\ Len(stack) + 1 # 1
      BY <2>4, <2>5
    <3> QED
      BY <2>4, <2>5, <3>1 DEF Outermost, Is
  <2> QED
    BY <2>2, <2>3, <2>6, CoreParts DEF Quiet, ReturnsWhenIdle
<1> QED
  BY <1>2, <1>3, <1>4, <1>5, <1>6, <1>7 DEF UserStep

\* The loop goes on to its next place.
LEMMA SwapCore ==
  ASSUME Core, stack # <<>>, NEW f \in Frames, stack' = Append(Below, f), f.kind = Top.kind,
         draining' = draining, microtasks' = microtasks, Queues'
  PROVE  Core'
<1>0. StackInv /\ stack \in Seq(Frames) /\ Quiet
  BY DEF Core, StackInv
<1>1. IsSwap(f)
  BY <1>0, SwapFacts
<1>2. StackInv'
  BY <1>0, <1>1, SwapKeeps
<1>3. Len(stack) \in Nat /\ Len(stack) >= 1
  BY <1>0, NonEmpty
<1>4. Len(stack') = Len(stack) /\ \A i \in 1..Len(stack) : stack'[i].kind = stack[i].kind
  BY <1>1, <1>3 DEF IsSwap, Keeps, Top
<1>5. stack' # <<>>
  BY <1>3, <1>4
<1>6. (Outermost' => Outermost) /\ Top'.kind = Top.kind
  BY <1>3, <1>4 DEF Outermost, Is, Top
<1>7. Quiet'
  BY <1>0, <1>6 DEF Quiet, In
<1> QED
  BY <1>2, <1>5, <1>7, CoreParts DEF ReturnsWhenIdle

\* The loop, or a drain, calls something.
LEMMA SwapPushCore ==
  ASSUME Core, stack # <<>>, NEW f \in Frames, NEW g \in Frames,
         stack' = Below \o <<f, g>> \/ stack' = Append(Append(Below, f), g),
         f.kind = Top.kind, Rests(f, g),
         \/ g.kind # "drain" /\ draining' = draining
         \/ g.kind = "drain" /\ draining = FALSE /\ draining' = TRUE,
         f.kind = "loop" \/ g.kind = "user",
         microtasks' = microtasks, Queues'
  PROVE  Core'
<1>0. StackInv /\ stack \in Seq(Frames) /\ Quiet
  BY DEF Core, StackInv
<1>1. IsSwapPush(f, g)
  BY <1>0, SwapPushFacts
<1>2. StackInv'
  BY <1>0, <1>1, SwapPushKeeps, Zenon
<1>3. Len(stack) \in Nat /\ Len(stack) >= 1
  BY <1>0, NonEmpty
<1>4. /\ Len(stack') = Len(stack) + 1 /\ stack'[Len(stack) + 1] = g
      /\ \A i \in 1..Len(stack) : stack'[i].kind = stack[i].kind
  BY <1>1, <1>3 DEF IsSwapPush, Keeps, Top
<1>5. stack' # <<>>
  BY <1>3, <1>4
<1>6. (Outermost' => Outermost) /\ Top' = g
  BY <1>3, <1>4 DEF Outermost, Is, Top
<1>7. Quiet'
  BY <1>0, <1>6 DEF Quiet, In
<1> QED
  BY <1>2, <1>5, <1>7, CoreParts DEF ReturnsWhenIdle

LEMMA UserReturnsCore == Core /\ UserReturns => Core'
<1> SUFFICES ASSUME Core, UserReturns PROVE Core'
  OBVIOUS
<1>0. /\ In("user") /\ Queues /\ StackInv /\ stack \in Seq(Frames) /\ draining \in BOOLEAN
      /\ stack # <<>> /\ Top.kind = "user"
  BY DEF UserReturns, Core, Types, Queues, In
<1>1. Queues' /\ microtasks' = microtasks
  BY <1>0 DEF UserReturns, Queues, queues, history
<1>2. CASE stack' = Below /\ draining' = draining /\ (draining \/ Depth("user") # 1)
  <2>1. IsPop
    BY <1>0, <1>2, PopFacts
  <2>2. StackInv'
    BY <1>0, <1>2, <2>1, PopKeeps
  <2>3. stack' # <<>>
    BY <1>0, <2>1, PopStays
  <2>4. Quiet'
    BY <1>0, <1>2, <2>1, ReturnsToDrain DEF Quiet
  <2> QED
    BY <1>1, <2>2, <2>3, <2>4, CoreParts DEF ReturnsWhenIdle
<1>3. CASE stack' = Append(Below, Drain(0)) /\ draining = FALSE /\ draining' = TRUE
  <2>1. IsSwap(Drain(0)) /\ Drain(0).kind = "drain"
    BY <1>0, <1>3, SwapFacts, FrameTypes
  <2>2. StackInv'
    BY <1>0, <1>3, <2>1, SwapDrain
  <2>3. Len(stack) \in Nat /\ Len(stack) >= 1
    BY <1>0, NonEmpty
  <2>4. Len(stack') = Len(stack) /\ stack'[Len(stack)].kind = "drain"
    BY <2>1 DEF IsSwap
  <2>5. stack' # <<>> /\ Top'.kind = "drain"
    BY <2>3, <2>4 DEF Top
  <2>6. Quiet'
    BY <2>5 DEF Quiet, In
  <2> QED
    BY <1>1, <2>2, <2>5, <2>6, CoreParts DEF ReturnsWhenIdle
<1> QED
  BY <1>0, <1>2, <1>3 DEF UserReturns, process_microtasks, Checkpoint

LEMMA DrainCore == Core /\ (TakeBatch \/ RunMicrotask \/ EndDrain) => Core'
<1> SUFFICES ASSUME Core, TakeBatch \/ RunMicrotask \/ EndDrain PROVE Core'
  OBVIOUS
<1>0. /\ Queues /\ StackInv /\ stack \in Seq(Frames) /\ draining \in BOOLEAN
      /\ stack # <<>> /\ Top.kind = "drain"
  BY DEF TakeBatch, RunMicrotask, EndDrain, Core, Types, Queues, In
<1>1. CASE TakeBatch
  <2>1. Drain(microtasks) \in Frames /\ Drain(microtasks).kind = "drain"
    BY <1>0, FrameTypes DEF Queues
  <2>2. IsSwap(Drain(microtasks))
    BY <1>0, <1>1, <2>1, SwapFacts DEF TakeBatch
  <2>3. StackInv'
    BY <1>0, <1>1, <2>1, <2>2, SwapKeeps DEF TakeBatch
  <2>4. Len(stack) \in Nat /\ Len(stack) >= 1
    BY <1>0, NonEmpty
  <2>5. Len(stack') = Len(stack) /\ stack' # <<>>
    BY <2>2, <2>4 DEF IsSwap
  <2>6. Queues' /\ microtasks' = 0
    BY <1>0, <1>1 DEF TakeBatch, Queues, history
  <2> QED
    BY <2>3, <2>5, <2>6, CoreParts DEF ReturnsWhenIdle, Quiet
<1>2. CASE RunMicrotask
  <2> DEFINE f == Drain(Top.batch - 1)
             g == User("microtask")
  <2>1. Top.batch - 1 \in Nat
    <3>1. Top \in Frames
      BY <1>0, NonEmpty
    <3> QED
      BY <1>2, <3>1 DEF RunMicrotask, Frames
  <2>2. f \in Frames /\ g \in Frames /\ f.kind = "drain" /\ g.kind = "user"
    BY <2>1, FrameTypes DEF Callbacks
  <2>3. stack' = Below \o <<f, g>> /\ draining' = draining /\ microtasks' = microtasks
    BY <1>2 DEF RunMicrotask, queues
  <2>4. Queues'
    BY <1>0, <1>2 DEF RunMicrotask, queues, Queues, history
  <2> HIDE DEF f, g
  <2>5. Rests(f, g)
    BY <2>2 DEF Rests
  <2> QED
    BY <1>0, <2>2, <2>3, <2>4, <2>5, SwapPushCore
<1>3. CASE EndDrain
  <2>1. IsPop
    BY <1>0, <1>3, PopFacts DEF EndDrain
  <2>2. StackInv'
    BY <1>0, <1>3, <2>1, PopKeeps DEF EndDrain
  <2>3. stack' # <<>>
    BY <1>0, <2>1, PopStays
  <2>4. Queues' /\ microtasks' = 0
    BY <1>0, <1>3 DEF EndDrain, Queues, queues, history
  <2> QED
    BY <2>2, <2>3, <2>4, CoreParts DEF ReturnsWhenIdle, Quiet
<1> QED
  BY <1>1, <1>2, <1>3

LEMMA ImmediatesCore == Core /\ (RunImmediate \/ EndImmediates) => Core'
<1> SUFFICES ASSUME Core, RunImmediate \/ EndImmediates PROVE Core'
  OBVIOUS
<1>0. /\ Queues /\ StackInv /\ stack \in Seq(Frames) /\ draining \in BOOLEAN /\ Quiet
      /\ stack # <<>> /\ Top.kind = "immediates"
  BY DEF RunImmediate, EndImmediates, Core, Types, Queues, In
<1>00. Len(stack) \in Nat /\ Len(stack) >= 1
  BY <1>0, NonEmpty
<1>1. CASE RunImmediate
  <2>1. immediates' \in Seq(Entries) /\ Head(immediates) \in Entries
    BY <1>0, <1>1, HeadTailProperties DEF RunImmediate, Queues
  <2>2. ran' \in Seq(Nat)
    <3>1. Head(immediates).id \in Nat
      BY <2>1 DEF Entries
    <3>2. \A x \in Nat : Append(ran, x) \in Seq(Nat)
      BY <1>0, AppendProperties DEF Queues
    <3>3. ran' = ran \/ ran' = Append(ran, Head(immediates).id)
      BY <1>1 DEF RunImmediate
    <3> QED
      BY <1>0, <3>1, <3>2, <3>3 DEF Queues
  <2>3. Queues' /\ microtasks' = microtasks /\ draining' = draining
    BY <1>0, <1>1, <2>1, <2>2 DEF RunImmediate, Queues
  <2>4. CASE stack' = stack
    <3>1. StackInv'
      BY <1>0, <2>3, <2>4 DEF StackInv, Shape, Drains, Is, Rests
    <3>2. Quiet' /\ ReturnsWhenIdle'
      BY <1>0, <2>3, <2>4 DEF Quiet, ReturnsWhenIdle, In, Top, Outermost, Is
    <3> QED
      BY <2>3, <3>1, <3>2, CoreParts
  <2>5. CASE stack' = Append(stack, User("immediate"))
    <3>0. User("immediate") \in Frames /\ User("immediate").kind = "user"
      BY FrameTypes DEF Callbacks
    <3>1. IsPush(User("immediate"))
      BY <1>0, <2>5, <3>0, PushFacts
    <3>2. Rests(Top, User("immediate"))
      BY <1>0, <3>0 DEF Rests
    <3>3. StackInv'
      BY <1>0, <2>3, <3>0, <3>1, <3>2, PushKeeps
    <3>4. Len(stack') = Len(stack) + 1 /\ stack'[Len(stack) + 1].kind = "user"
      BY <3>0, <3>1 DEF IsPush
    <3>5. stack' # <<>> /\ Top'.kind = "user"
      BY <1>00, <3>4 DEF Top
    <3> QED
      BY <2>3, <3>3, <3>5, CoreParts DEF Quiet, In, ReturnsWhenIdle
  <2> QED
    BY <1>1, <2>4, <2>5 DEF RunImmediate
<1>2. CASE EndImmediates
  <2>1. IsPop
    BY <1>0, <1>2, PopFacts DEF EndImmediates
  <2>2. StackInv'
    BY <1>0, <1>2, <2>1, PopKeeps DEF EndImmediates
  <2>3. stack' # <<>>
    BY <1>0, <2>1, PopStays
  <2>4. Queues' /\ microtasks' = microtasks
    BY <1>0, <1>2 DEF EndImmediates, Queues, queues, history
  <2>5. Outermost' => Outermost
    BY <1>0, <1>00, <2>1 DEF Outermost, Is, IsPop, Keeps, Top
  <2>6. Quiet'
    BY <1>0, <2>4, <2>5 DEF Quiet, In
  <2> QED
    BY <2>2, <2>3, <2>4, <2>6, CoreParts DEF ReturnsWhenIdle
<1> QED
  BY <1>1, <1>2

LEMMA LoopCore ==
  Core /\ (LoopCheck \/ PollImmediates \/ PollMicrotasks \/ Choose \/ FireTimer \/ CompleteIO
            \/ UvReturns \/ EmitBeforeExit \/ LoopReturns) => Core'
<1> SUFFICES ASSUME Core,
                    LoopCheck \/ PollImmediates \/ PollMicrotasks \/ Choose \/ FireTimer
                      \/ CompleteIO \/ UvReturns \/ EmitBeforeExit \/ LoopReturns
             PROVE Core'
  OBVIOUS
<1>0. /\ Queues /\ StackInv /\ stack \in Seq(Frames) /\ draining \in BOOLEAN /\ Quiet
      /\ stack # <<>> /\ Top.kind = "loop"
  BY Zenon DEF LoopCheck, PollImmediates, PollMicrotasks, Choose, FireTimer, CompleteIO, UvReturns,
         EmitBeforeExit, LoopReturns, InUv, At, In, Core, Types, Queues
<1>1. ASSUME NEW f \in Places, stack' = Append(Below, Loop(f)), draining' = draining,
             microtasks' = microtasks, Queues'
      PROVE  Core'
  BY <1>0, <1>1, SwapCore, FrameTypes
<1>2. ASSUME NEW f \in Places, NEW g \in Frames, g.kind \in {"user", "immediates"},
             stack' = Below \o <<Loop(f), g>>, draining' = draining,
             microtasks' = microtasks, Queues'
      PROVE  Core'
  <2>1. Loop(f) \in Frames /\ Loop(f).kind = "loop" /\ Rests(Loop(f), g) /\ g.kind # "drain"
    BY <1>2, FrameTypes DEF Rests
  <2> QED
    BY <1>0, <1>2, <2>1, SwapPushCore, Zenon
<1>3. ASSUME NEW f \in Places, process_microtasks(Append(Below, Loop(f))),
             microtasks' = microtasks, Queues'
      PROVE  Core'
  <2>1. CASE draining
    BY <1>1, <1>3, <2>1 DEF process_microtasks
  <2>2. CASE ~draining
    <3>1. /\ stack' = Append(Append(Below, Loop(f)), Drain(0))
          /\ draining = FALSE /\ draining' = TRUE
      BY <1>0, <1>3, <2>2 DEF process_microtasks
    <3>2. /\ Loop(f) \in Frames /\ Loop(f).kind = "loop"
          /\ Drain(0) \in Frames /\ Drain(0).kind = "drain"
      BY FrameTypes
    <3>3. Rests(Loop(f), Drain(0))
      BY <3>2 DEF Rests
    <3> QED
      BY <1>0, <1>3, <3>1, <3>2, <3>3, SwapPushCore, Zenon
  <2> QED
    BY <2>1, <2>2
<1>4. CASE LoopCheck
  <2>1. Queues' /\ microtasks' = microtasks
    BY <1>0, <1>4 DEF LoopCheck, Queues, queues, history
  <2> QED
    BY <1>1, <1>4, <2>1 DEF LoopCheck, Goto, Places
<1>5. CASE PollImmediates
  <2>1. Queues' /\ microtasks' = microtasks
    BY <1>0, <1>5 DEF PollImmediates, Queues, queues, history
  <2>2. Immediates \in Frames /\ Immediates.kind = "immediates"
    BY FrameTypes
  <2> QED
    BY <1>2, <1>5, <2>1, <2>2, Zenon DEF PollImmediates, Places
<1>6. CASE PollMicrotasks
  <2>1. Queues' /\ microtasks' = microtasks
    BY <1>0, <1>6 DEF PollMicrotasks, Queues, queues, history
  <2> QED
    BY <1>3, <1>6, <2>1 DEF PollMicrotasks, Places
<1>7. CASE Choose
  <2>1. Queues' /\ microtasks' = microtasks
    BY <1>0, <1>7, Zenon DEF Choose, Queues, queues, history
  <2> QED
    BY <1>1, <1>7, <2>1 DEF Choose, Goto, Places
<1>8. CASE FireTimer \/ CompleteIO
  <2>1. /\ timers' \in Nat /\ idle_timers' \in Nat /\ handles' \in Nat
        /\ UNCHANGED <<microtasks, draining, immediates, set, ran>>
    <3>1. CASE FireTimer
      BY <1>0, <3>1 DEF FireTimer, Queues, history
    <3>2. CASE CompleteIO
      BY <1>0, <3>2 DEF CompleteIO, Queues, history
    <3> QED
      BY <1>8, <3>1, <3>2
  <2>2. Queues'
    BY <1>0, <2>1 DEF Queues
  <2>3. /\ User("timer") \in Frames /\ User("timer").kind = "user"
        /\ User("io") \in Frames /\ User("io").kind = "user"
    BY FrameTypes DEF Callbacks
  <2>4. stack' = Below \o <<Loop("uv"), User("timer")>>
          \/ stack' = Below \o <<Loop("uv"), User("io")>>
    BY <1>8 DEF FireTimer, CompleteIO
  <2>5. "uv" \in Places
    BY DEF Places
  <2> QED
    BY <1>2, <2>1, <2>2, <2>3, <2>4, <2>5, Zenon
<1>9. CASE UvReturns
  <2>1. Queues' /\ microtasks' = microtasks
    BY <1>0, <1>9 DEF UvReturns, Queues, queues, history
  <2> QED
    BY <1>1, <1>9, <2>1 DEF UvReturns, Goto, Places
<1>10. CASE EmitBeforeExit
  <2>1. Queues' /\ microtasks' = microtasks
    BY <1>0, <1>10 DEF EmitBeforeExit, Queues, queues, history
  <2>2. User("beforeExit") \in Frames /\ User("beforeExit").kind = "user"
    BY FrameTypes DEF Callbacks
  <2> QED
    BY <1>1, <1>2, <1>10, <2>1, <2>2, Zenon DEF EmitBeforeExit, Goto, Places
<1>11. CASE LoopReturns
  <2>1. Queues' /\ microtasks' = microtasks /\ draining' = draining
    BY <1>0, <1>11 DEF LoopReturns, Queues, queues, history
  <2>2. CASE Again
    BY <1>1, <1>11, <2>1, <2>2 DEF LoopReturns, Goto, Places
  <2>3. CASE ~Again
    <3>1. IsPop
      BY <1>0, <1>11, <2>3, PopFacts DEF LoopReturns
    <3>2. StackInv'
      BY <1>0, <2>1, <3>1, PopKeeps
    <3>3. microtasks = 0 /\ ~has_pending_immediates /\ timers = 0 /\ handles = 0
      BY <1>0, <2>3 DEF Again, event_loop_alive, WORK_BLOCKING, has_pending_timers,
                        uv_loop_alive, Queues
    <3>4. ReturnsWhenIdle' /\ Quiet'
      BY <1>11, <3>3 DEF LoopReturns, ReturnsWhenIdle, Quiet, has_pending_immediates, queues
    <3> QED
      BY <2>1, <3>2, <3>4, CoreParts
  <2> QED
    BY <2>2, <2>3
<1> QED
  BY <1>4, <1>5, <1>6, <1>7, <1>8, <1>9, <1>10, <1>11
-----------------------------------------------------------------------------
LEMMA CoreInit == Init => Core
<1> SUFFICES ASSUME Init PROVE Core
  OBVIOUS
<1> DEFINE f == Loop("check")
           g == User("script")
<1>1. f \in Frames /\ f.kind = "loop" /\ g \in Frames /\ g.kind = "user"
  BY FrameTypes DEF Places, Callbacks
<1>2. stack = <<f, g>>
  BY DEF Init
<1> HIDE DEF f, g
<1>3. stack \in Seq(Frames) /\ Len(stack) = 2 /\ stack[1] = f /\ stack[2] = g
  BY <1>1, <1>2
<1>4. Types
  BY <1>3, EmptySeq DEF Init, Types
<1>5. Shape
  BY <1>1, <1>3 DEF Shape, Rests
<1>6. Drains
  <2>1. \A i \in 1..Len(stack) : stack[i].kind # "drain"
    BY <1>1, <1>3
  <2> QED
    BY <2>1 DEF Init, Drains, Is
<1>7. stack # <<>>
  BY <1>3
<1> QED
  BY <1>4, <1>5, <1>6, <1>7 DEF Core, StackInv, Types, Quiet, ReturnsWhenIdle, Init

LEMMA CoreStep == Core /\ [Next]_vars => Core'
<1> SUFFICES ASSUME Core, [Next]_vars PROVE Core'
  OBVIOUS
<1>1. CASE UNCHANGED vars
  BY <1>1 DEF vars, queues, history, Core, Types, StackInv, Shape, Drains, Is, Rests, Quiet,
              Outermost, In, Top, ReturnsWhenIdle, has_pending_immediates
<1> QED
  BY <1>1, UserCore, UserReturnsCore, DrainCore, ImmediatesCore, LoopCore
     DEF Next, UserStep, RuntimeStep, Done

LEMMA NumberedInit == Init => Numbered
BY DEF Init, Numbered, Order, Cleared, ImmediatesInOrder

LEMMA NumberedSame ==
  ASSUME Numbered, UNCHANGED <<immediates, set, ran, cleared>>
  PROVE  Numbered'
BY DEF Numbered, Order, Cleared, ImmediatesInOrder

LEMMA NumberTypes ==
  ASSUME Types
  PROVE  /\ Len(immediates) \in Nat /\ set \in Nat
         /\ \A k \in 1..Len(immediates) : immediates[k] \in Entries /\ immediates[k].id \in Nat
         /\ \A j \in 1..Len(ran) : ran[j] \in Nat
<1>1. immediates \in Seq(Entries) /\ ran \in Seq(Nat) /\ set \in Nat
  BY DEF Types
<1>2. \A k \in 1..Len(immediates) : immediates[k] \in Entries
  BY <1>1, ElementOfSeq
<1>3. \A x \in Entries : x.id \in Nat
  BY DEF Entries
<1>4. \A j \in 1..Len(ran) : ran[j] \in Nat
  BY <1>1, ElementOfSeq
<1>5. Len(immediates) \in Nat
  BY <1>1
<1> QED
  BY <1>1, <1>2, <1>3, <1>4, <1>5, Zenon

LEMMA NumberedSet ==
  ASSUME Types, Numbered, js_set_immediate
  PROVE  Numbered'
<1> DEFINE e == [id |-> set + 1, active |-> TRUE]
           n == Len(immediates)
<1>1. /\ e \in Entries /\ e.id = set + 1
      /\ immediates' = Append(immediates, e) /\ set' = set + 1
      /\ ran' = ran /\ cleared' = cleared
  BY DEF js_set_immediate, Entries, Types
<1>2. n \in Nat /\ set \in Nat /\ \A k \in 1..n : immediates[k].id \in Nat
  BY NumberTypes, Zenon DEF n
<1>3. \A j \in 1..Len(ran) : ran[j] \in Nat
  BY NumberTypes, Zenon
<1>4. /\ Len(immediates') = n + 1 /\ immediates'[n + 1] = e
      /\ \A k \in 1..n : immediates'[k] = immediates[k]
  BY <1>1, AppendProperties DEF Types
<1> HIDE DEF e, n
<1>5. /\ \A k \in 1..n : immediates[k].id <= set
      /\ \A j, k \in 1..n : j < k => immediates[j].id < immediates[k].id
      /\ \A j \in 1..Len(ran), k \in 1..n : ran[j] < immediates[k].id
      /\ \A j \in 1..Len(ran) : ran[j] <= set
      /\ \A c \in cleared : c \in Nat /\ c <= set
      /\ \A k \in 1..n : immediates[k].id \in cleared => ~immediates[k].active
  BY DEF Numbered, Order, Cleared, n
<1>6. \A k \in 1..(n + 1) : k \in 1..n \/ k = n + 1
  BY <1>2
<1>7. Order'
  <2>1. \A k \in 1..(n + 1) : immediates'[k].id <= set'
    BY <1>1, <1>2, <1>4, <1>5, <1>6
  <2>2. ASSUME NEW j \in 1..(n + 1), NEW k \in 1..(n + 1), j < k
        PROVE  immediates'[j].id < immediates'[k].id
    <3>1. j \in 1..n
      BY <1>2, <2>2
    <3>2. CASE k \in 1..n
      BY <1>4, <1>5, <2>2, <3>1, <3>2, Zenon
    <3>3. CASE k = n + 1
      BY <1>1, <1>2, <1>4, <1>5, <3>1, <3>3
    <3> QED
      BY <1>6, <3>2, <3>3
  <2>3. ASSUME NEW j \in 1..Len(ran), NEW k \in 1..(n + 1)
        PROVE  ran[j] < immediates'[k].id
    <3>1. CASE k \in 1..n
      BY <1>4, <1>5, <3>1, Zenon
    <3>2. CASE k = n + 1
      <4>1. ran[j] \in Nat /\ ran[j] <= set /\ immediates'[k].id = set + 1
        BY <1>1, <1>3, <1>4, <1>5, <3>2, Zenon
      <4> QED
        BY <1>2, <4>1
    <3> QED
      BY <1>6, <3>1, <3>2
  <2>4. \A j \in 1..Len(ran) : ran[j] <= set'
    <3>1. set' = set + 1 /\ set \in Nat
      BY <1>1, <1>2
    <3>2. \A j \in 1..Len(ran) : ran[j] \in Nat /\ ran[j] <= set
      BY <1>3, <1>5, Zenon
    <3> QED
      BY <3>1, <3>2
  <2> QED
    BY <1>1, <1>4, <2>1, <2>2, <2>3, <2>4 DEF Order
<1>8. Cleared'
  <2>1. \A c \in cleared : c \in Nat /\ c <= set'
    BY <1>1, <1>2, <1>5
  <2>2. set + 1 \notin cleared
    BY <1>2, <1>5
  <2> QED
    BY <1>1, <1>4, <1>5, <1>6, <2>1, <2>2 DEF Cleared
<1> QED
  BY <1>1, <1>7, <1>8 DEF Numbered, ImmediatesInOrder

LEMMA NumberedClear ==
  ASSUME ClearBy = {"id"}, Types, Numbered, js_clear_immediate
  PROVE  Numbered'
<1>1. PICK k \in 1..Len(immediates) :
        /\ immediates' = Deactivate(immediates[k].id)
        /\ cleared' = cleared \cup {immediates[k].id}
  BY DEF js_clear_immediate, timer_id_from_arg
<1> DEFINE id == immediates[k].id
<1>2. set' = set /\ ran' = ran
  BY DEF js_clear_immediate
<1>3. /\ Len(immediates') = Len(immediates)
      /\ \A i \in 1..Len(immediates) :
           /\ immediates'[i].id = immediates[i].id
           /\ immediates'[i].active <=> immediates[i].active /\ immediates[i].id # id
  BY <1>1, DeactivateType DEF Types
<1>4. id \in Nat /\ id <= set
  BY NumberTypes, Zenon DEF Numbered, Order
<1>5. \A j \in 1..Len(ran) : ran[j] \in Nat /\ ran[j] # id
  <2>1. \A j \in 1..Len(ran) : ran[j] \in Nat /\ ran[j] < id
    BY NumberTypes, Zenon DEF Numbered, Order
  <2> HIDE DEF id
  <2> QED
    BY <1>4, <2>1
<1> HIDE DEF id
<1>6. cleared' = cleared \cup {id}
  BY <1>1 DEF id
<1>7. Order'
  BY <1>2, <1>3 DEF Numbered, Order
<1>8. Cleared'
  BY <1>2, <1>3, <1>4, <1>6 DEF Numbered, Cleared
<1>9. ImmediatesInOrder'
  BY <1>2, <1>5, <1>6 DEF Numbered, ImmediatesInOrder
<1> QED
  BY <1>7, <1>8, <1>9 DEF Numbered

LEMMA NumberedRun ==
  ASSUME Types, Numbered, RunImmediate
  PROVE  Numbered'
<1> DEFINE n == Len(immediates)
           h == immediates[1]
<1>1. /\ n \in Nat /\ set \in Nat /\ \A k \in 1..n : immediates[k].id \in Nat
      /\ \A j \in 1..Len(ran) : ran[j] \in Nat
  BY NumberTypes, Zenon
<1>2. /\ immediates \in Seq(Entries) /\ immediates # <<>> /\ ran \in Seq(Nat)
      /\ Len(ran) \in Nat
  BY DEF RunImmediate, Types
<1>3. /\ n >= 1 /\ Head(immediates) = h /\ Len(immediates') = n - 1
      /\ \A k \in 1..(n - 1) : immediates'[k] = immediates[k + 1]
  <2>1. n # 0
    BY <1>2, EmptySeq
  <2>2. immediates' = Tail(immediates)
    BY DEF RunImmediate
  <2> QED
    BY <1>1, <1>2, <2>1, <2>2, HeadTailProperties
<1>4. set' = set /\ cleared' = cleared
  BY DEF RunImmediate
<1>5. ran' = ran \/ (h.active /\ ran' = Append(ran, h.id))
  BY <1>3 DEF RunImmediate
<1>6. /\ \A k \in 1..n : immediates[k].id <= set
      /\ \A j, k \in 1..n : j < k => immediates[j].id < immediates[k].id
      /\ \A j \in 1..Len(ran), k \in 1..n : ran[j] < immediates[k].id
      /\ \A j \in 1..Len(ran) : ran[j] <= set
      /\ \A c \in cleared : c \in Nat /\ c <= set
      /\ \A k \in 1..n : immediates[k].id \in cleared => ~immediates[k].active
      /\ \A j, k \in 1..Len(ran) : j < k => ran[j] < ran[k]
      /\ \A j \in 1..Len(ran) : ran[j] \notin cleared
  BY DEF Numbered, Order, Cleared, ImmediatesInOrder
<1>7. h.id \in Nat /\ 1 \in 1..n /\ h.id <= set
  <2>1. 1 \in 1..n
    BY <1>1, <1>3
  <2> QED
    BY <1>1, <1>6, <2>1, Zenon
<1>8. \A k \in 1..(n - 1) : k + 1 \in 1..n /\ 1 < k + 1
  BY <1>1
<1>9. \A k \in 1..(n - 1) : immediates'[k].id \in Nat /\ h.id < immediates'[k].id
  BY <1>1, <1>3, <1>6, <1>7, <1>8
<1>10. Cleared'
  BY <1>3, <1>4, <1>6, <1>8 DEF Cleared
<1>11. /\ \A k \in 1..(n - 1) : immediates'[k].id <= set
       /\ \A j, k \in 1..(n - 1) : j < k => immediates'[j].id < immediates'[k].id
  <2>1. \A j, k \in 1..(n - 1) : j < k => j + 1 < k + 1
    BY <1>1
  <2> HIDE DEF n
  <2>2. \A j, k \in 1..(n - 1) : j < k => immediates[j + 1].id < immediates[k + 1].id
    BY <1>6, <1>8, <2>1, Zenon DEF n
  <2>3. \A k \in 1..(n - 1) : immediates[k + 1].id <= set
    BY <1>6, <1>8, Zenon DEF n
  <2> QED
    BY <1>3, <2>2, <2>3, Zenon DEF n
<1>12. \A j \in 1..Len(ran), k \in 1..(n - 1) : ran[j] < immediates'[k].id
  BY <1>3, <1>6, <1>8
<1>13. CASE ran' = ran
  BY <1>3, <1>4, <1>6, <1>10, <1>11, <1>12, <1>13 DEF Numbered, Order, ImmediatesInOrder
<1>14. CASE h.active /\ ran' = Append(ran, h.id)
  <2> DEFINE m == Len(ran)
  <2>1. h.id \notin cleared /\ \A j \in 1..m : ran[j] < h.id
    BY <1>6, <1>7, <1>14
  <2> DEFINE x == h.id
  <2>2. x \in Nat /\ x <= set /\ ran' = Append(ran, x)
    BY <1>7, <1>14
  <2> HIDE DEF x, h
  <2>3. Len(ran') = m + 1 /\ ran'[m + 1] = x /\ \A j \in 1..m : ran'[j] = ran[j]
    BY <1>2, <2>2, AppendProperties
  <2>4. m \in Nat /\ \A j \in 1..(m + 1) : j \in 1..m \/ j = m + 1
    BY <1>2
  <2>5. /\ \A j \in 1..m : ran[j] < x /\ ran[j] \in Nat /\ ran[j] <= set /\ ran[j] \notin cleared
        /\ x \notin cleared /\ \A k \in 1..(n - 1) : x < immediates'[k].id
    BY <1>1, <1>6, <1>9, <2>1 DEF x
  <2> HIDE DEF m, n
  <2>6. \A j \in 1..(m + 1), k \in 1..(n - 1) : ran'[j] < immediates'[k].id
    BY <1>12, <2>3, <2>4, <2>5 DEF m
  <2>7. \A j \in 1..(m + 1) : ran'[j] <= set /\ ran'[j] \notin cleared
    BY <2>2, <2>3, <2>4, <2>5
  <2>8. \A j, k \in 1..(m + 1) : j < k => ran'[j] < ran'[k]
    <3> TAKE j, k \in 1..(m + 1)
    <3> HAVE j < k
    <3>1. j \in 1..m
      BY <2>4
    <3>2. CASE k \in 1..m
      BY <1>6, <2>3, <3>1, <3>2 DEF m
    <3>3. CASE k = m + 1
      BY <2>3, <2>5, <3>1, <3>3
    <3> QED
      BY <2>4, <3>2, <3>3
  <2> QED
    BY <1>3, <1>4, <1>10, <1>11, <2>3, <2>6, <2>7, <2>8 DEF Numbered, Order, ImmediatesInOrder, n
<1> QED
  BY <1>5, <1>13, <1>14

LEMMA NumberedStep ==
  ASSUME ClearBy = {"id"}, Types, Numbered, [Next]_vars
  PROVE  Numbered'
<1>1. UNCHANGED <<immediates, set, ran, cleared>> \/ js_set_immediate \/ js_clear_immediate
        \/ RunImmediate
  BY Zenon DEF Next, UserStep, RuntimeStep, Done, vars, queues, history, queue_microtask, SetTimer,
         StartIO, LoadModule, UserReturns, TakeBatch, RunMicrotask, EndDrain, EndImmediates,
         LoopCheck, PollImmediates, PollMicrotasks, Choose, FireTimer, CompleteIO, UvReturns,
         EmitBeforeExit, LoopReturns
<1> QED
  BY <1>1, NumberedSame, NumberedSet, NumberedClear, NumberedRun
-----------------------------------------------------------------------------
LEMMA DepthIsOne ==
  ASSUME NEW kind, Depth(kind) = 1, stack \in Seq(Frames)
  PROVE  \A i, j \in 1..Len(stack) : Is(i, kind) /\ Is(j, kind) => i = j
<1> DEFINE D == {i \in 1..Len(stack) : stack[i].kind = kind}
<1>1. IsFiniteSet(D)
  <2>1. Len(stack) \in Nat
    OBVIOUS
  <2>2. IsFiniteSet(1..Len(stack))
    BY <2>1, FS_Interval
  <2> QED
    BY <2>2, FS_Subset
<1>2. Cardinality(D) = 1
  BY DEF Depth
<1>3. PICK x : D = {x}
  BY <1>1, <1>2, FS_Singleton, Zenon
<1>4. \A i \in 1..Len(stack) : Is(i, kind) => i \in D
  BY DEF Is
<1> HIDE DEF D
<1> QED
  BY <1>3, <1>4

LEMMA DrainDepth == StackInv => Depth("drain") <= 1 /\ (draining <=> Depth("drain") = 1)
<1> SUFFICES ASSUME StackInv
             PROVE  Depth("drain") <= 1 /\ (draining <=> Depth("drain") = 1)
  OBVIOUS
<1> DEFINE D == {i \in 1..Len(stack) : stack[i].kind = "drain"}
<1>1. Depth("drain") = Cardinality(D)
  BY DEF Depth
<1>2. CASE draining
  <2>1. PICK x \in 1..Len(stack) : Is(x, "drain")
    BY <1>2 DEF StackInv, Drains
  <2>2. D = {x}
    BY <2>1, Zenon DEF StackInv, Drains, Is
  <2>3. Cardinality(D) = 1
    BY <2>2, FS_Singleton, Zenon
  <2> QED
    BY <1>1, <1>2, <2>3
<1>3. CASE ~draining
  <2>1. D = {}
    BY <1>3, Zenon DEF StackInv, Drains, Is
  <2>2. Cardinality(D) = 0
    BY <2>1, FS_EmptySet, Zenon
  <2> QED
    BY <1>1, <1>3, <2>2
<1> QED
  BY <1>2, <1>3 DEF StackInv

LEMMA Grows ==
  ASSUME Core, [Next]_vars, Len(stack') > Len(stack), Macrotask(Top')
  PROVE  In("loop") \/ In("immediates")
<1>0. stack \in Seq(Frames) /\ Len(stack) \in Nat /\ draining \in BOOLEAN
  BY DEF Core, StackInv
<1>1. CASE UserStep
  <2>1. stack' = stack \/ LoadModule
    BY <1>1 DEF UserStep, queue_microtask, js_set_immediate, js_clear_immediate, SetTimer, StartIO
  <2>2. CASE LoadModule
    <3>1. IsPush(Loop("check")) /\ Loop("check").kind = "loop"
      BY <1>0, <2>2, PushFacts, FrameTypes DEF LoadModule, Places
    <3>2. Top'.kind = "loop"
      BY <3>1 DEF IsPush, Top
    <3> QED
      BY <3>2 DEF Macrotask
  <2> QED
    BY <1>0, <2>1, <2>2
<1>2. CASE UserReturns \/ TakeBatch \/ EndDrain
  <2>1. stack # <<>> /\ (stack' = Below \/ \E n \in Nat : stack' = Append(Below, Drain(n)))
    <3>1. microtasks \in Nat /\ 0 \in Nat
      BY DEF Core, Types
    <3> QED
      BY <1>2, <3>1 DEF UserReturns, TakeBatch, EndDrain, process_microtasks, In
  <2>2. CASE stack' = Below
    BY <1>0, <2>1, <2>2, PopFacts DEF IsPop
  <2>3. ASSUME NEW n \in Nat, stack' = Append(Below, Drain(n)) PROVE FALSE
    <3>1. IsSwap(Drain(n))
      BY <1>0, <2>1, <2>3, SwapFacts, FrameTypes
    <3> QED
      BY <1>0, <3>1 DEF IsSwap
  <2> QED
    BY <2>1, <2>2, <2>3
<1>3. CASE RunMicrotask
  <2> DEFINE f == Drain(Top.batch - 1)
             g == User("microtask")
  <2>1. stack # <<>> /\ Top.batch - 1 \in Nat
    <3>1. stack # <<>> /\ Top.batch > 0
      BY <1>3 DEF RunMicrotask, In
    <3>2. Top \in Frames
      BY <1>0, <3>1, NonEmpty
    <3> QED
      BY <3>1, <3>2 DEF Frames
  <2>2. f \in Frames /\ g \in Frames /\ g.pc = "microtask"
    BY <2>1, FrameTypes DEF Callbacks
  <2>3. stack' = Below \o <<f, g>>
    BY <1>3 DEF RunMicrotask
  <2> HIDE DEF f, g
  <2>4. IsSwapPush(f, g)
    BY <1>0, <2>1, <2>2, <2>3, SwapPushFacts
  <2>5. Top' = g
    BY <2>4 DEF IsSwapPush, Top
  <2> QED
    BY <2>2, <2>5 DEF Macrotask
<1>4. CASE RunImmediate \/ EndImmediates \/ LoopCheck \/ PollImmediates \/ PollMicrotasks
             \/ Choose \/ FireTimer \/ CompleteIO \/ UvReturns \/ EmitBeforeExit \/ LoopReturns
  BY <1>4, Zenon DEF RunImmediate, EndImmediates, LoopCheck, PollImmediates, PollMicrotasks, Choose,
              FireTimer, CompleteIO, UvReturns, EmitBeforeExit, LoopReturns, InUv, At
<1>5. CASE UNCHANGED vars
  BY <1>0, <1>5 DEF vars
<1> QED
  BY <1>1, <1>2, <1>3, <1>4, <1>5 DEF Next, RuntimeStep, Done

LEMMA MacrotaskStep ==
  Core /\ [Next]_vars => [(Depth("loop") = 1 /\ Len(stack') > Len(stack) /\ Macrotask(Top'))
                            => microtasks = 0]_vars
<1> SUFFICES ASSUME Core, [Next]_vars, Depth("loop") = 1, Len(stack') > Len(stack),
                    Macrotask(Top')
             PROVE  microtasks = 0
  OBVIOUS
<1>1. In("loop") \/ In("immediates")
  BY Grows
<1>2. StackInv /\ Quiet /\ stack \in Seq(Frames) /\ stack # <<>>
  BY <1>1 DEF Core, StackInv, In
<1>3. Is(1, "loop") /\ 1 \in 1..Len(stack)
  BY <1>2, NonEmpty DEF StackInv, Shape, Is
<1>4. Outermost
  BY <1>2, <1>3, DepthIsOne, Zenon DEF Outermost
<1> QED
  BY <1>1, <1>2, <1>4 DEF Quiet

\* js_run_event_loop returns only when nothing that keeps the process alive is left,
\* whatever a beforeExit listener started and however often the loop was entered.
THEOREM LoopReturnsIdle == Spec => []ReturnsWhenIdle
<1>1. Core => ReturnsWhenIdle
  BY DEF Core
<1> QED
  BY <1>1, CoreInit, CoreStep, PTL DEF Spec

\* process_microtasks is on the stack at most once, exactly while microtasks_draining
\* is set, and a timer, an immediate or I/O that the outermost loop calls back finds
\* no microtask waiting.
THEOREM RunToCompletion == Spec => MicrotasksFirst
<1>1. Core => Depth("drain") <= 1 /\ (draining <=> Depth("drain") = 1)
  BY DrainDepth DEF Core
<1> QED
  BY <1>1, CoreInit, CoreStep, MacrotaskStep, PTL DEF Spec, MicrotasksFirst

\* process_immediates runs the immediates in the order they were set, each once, and
\* none that clearImmediate was given the id of, also when one of them enters the loop.
THEOREM ImmediatesRunInOrder ==
  ASSUME ClearBy = {"id"}
  PROVE  Spec => []ImmediatesInOrder
<1>1. Core /\ Numbered /\ [Next]_vars => (Core /\ Numbered)'
  BY CoreStep, NumberedStep DEF Core
<1>2. Numbered => ImmediatesInOrder
  BY DEF Numbered
<1> QED
  BY <1>1, <1>2, CoreInit, NumberedInit, PTL DEF Spec
=============================================================================
