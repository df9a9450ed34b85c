---------------------------- MODULE HandlerQueue ----------------------------
(***************************************************************************)
(* What a promise owes the reactions attached to it: they run in the order *)
(* they were attached, none before the promise is settled, each one once,  *)
(* one at a time, and a reaction may attach further reactions to the same  *)
(* promise while it runs.  An await registration can be withdrawn while it *)
(* waits.  A reaction is the number of its attachment, so the first one    *)
(* attached is the least.  HandlerList is the storage of ant.c that        *)
(* implements this.                                                        *)
(***************************************************************************)
EXTENDS Naturals

CONSTANTS
  MaxHandlers,  \* bound on the number of reactions ever attached
  Awaits        \* the reactions that are await registrations

VARIABLES
  settled,      \* the promise has left the pending state
  attached,     \* number of reactions attached so far; they are 1..attached
  waiting,      \* the set of reactions that have neither run nor been withdrawn
  current       \* the reaction that is running, 0 when there is none

vars == <<settled, attached, waiting, current>>

Init ==
  /\ settled = FALSE
  /\ attached = 0
  /\ waiting = {}
  /\ current = 0

Attach ==
  /\ attached < MaxHandlers
  /\ attached' = attached + 1
  /\ waiting' = waiting \cup {attached + 1}
  /\ UNCHANGED <<settled, current>>

Settle ==
  /\ ~settled
  /\ settled' = TRUE
  /\ UNCHANGED <<attached, waiting, current>>

Withdraw(h) ==
  /\ h \in waiting
  /\ waiting' = waiting \ {h}
  /\ UNCHANGED <<settled, attached, current>>

Start ==
  /\ settled
  /\ current = 0
  /\ current' \in waiting
  /\ \A h \in waiting : current' <= h
  /\ waiting' = waiting \ {current'}
  /\ UNCHANGED <<settled, attached>>

Finish ==
  /\ current # 0
  /\ current' = 0
  /\ UNCHANGED <<settled, attached, waiting>>

Next ==
  \/ Attach
  \/ Settle
  \/ \E h \in Awaits : Withdraw(h)
  \/ Start
  \/ Finish

Spec == Init /\ [][Next]_vars /\ WF_vars(Start) /\ WF_vars(Finish)
=============================================================================
