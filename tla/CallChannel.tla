------------------------------ MODULE CallChannel ------------------------------
(***************************************************************************)
(* What a thread-safe function promises to native threads: a bounded,       *)
(* closable queue of calls.  A call that was accepted is made exactly once, *)
(* in the order of acceptance; after the channel is closed no call is       *)
(* accepted, the accepted ones are still made, and then the finaliser runs, *)
(* once and last.                                                          *)
(***************************************************************************)
EXTENDS Naturals, Sequences

CONSTANTS
  MaxQueue,   \* bound of the queue, 0 for none
  MaxCalls    \* bound on the calls of a behaviour

VARIABLES
  waiting,    \* calls accepted and not yet made, oldest first
  made,       \* calls made, oldest first
  phase       \* "open", "closed" or "final"

vars == <<waiting, made, phase>>

Init == waiting = <<>> /\ made = <<>> /\ phase = "open"

Accept ==
  /\ phase = "open"
  /\ MaxQueue > 0 => Len(waiting) < MaxQueue
  /\ Len(waiting) + Len(made) < MaxCalls
  /\ waiting' = Append(waiting, Len(waiting) + Len(made) + 1)
  /\ UNCHANGED <<made, phase>>

Make ==
  /\ phase # "final" /\ waiting # <<>>
  /\ waiting' = Tail(waiting)
  /\ made' = Append(made, Head(waiting))
  /\ UNCHANGED phase

Close == phase = "open" /\ phase' = "closed" /\ UNCHANGED <<waiting, made>>

Finalize ==
  /\ phase = "closed" /\ waiting = <<>>
  /\ phase' = "final"
  /\ UNCHANGED <<waiting, made>>

Next == Accept \/ Make \/ Close \/ Finalize

Spec == Init /\ [][Next]_vars /\ WF_vars(Make) /\ WF_vars(Finalize)
=============================================================================
