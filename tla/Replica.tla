------------------------------ MODULE Replica ------------------------------
(***************************************************************************)
(* What a client's order book promises: it shows nothing, or a version of  *)
(* the exchange's book as a whole, and while it shows something it never   *)
(* goes back to an older version.                                          *)
(***************************************************************************)
EXTENDS Naturals, Sequences

CONSTANTS Data,   \* what a version may be
          None    \* what is shown when there is no version to show

VARIABLES
  log,    \* the versions published so far, oldest first
  view,   \* number of the version shown, 0 if none
  shown   \* what is shown

vars == <<log, view, shown>>

Init ==
  /\ Len(log) = 1 /\ log[1] \in Data
  /\ view = 0 /\ shown = None

Publish ==
  /\ Len(log') = Len(log) + 1
  /\ log'[Len(log')] \in Data
  /\ \A v \in 1..Len(log) : log'[v] = log[v]
  /\ UNCHANGED <<view, shown>>

\* The first version after a loss may be any.
Acquire ==
  /\ view = 0
  /\ view' \in 1..Len(log)
  /\ shown' = log[view']
  /\ UNCHANGED log

Advance ==
  /\ view # 0
  /\ view' \in view..Len(log)
  /\ shown' = log[view']
  /\ UNCHANGED log

Lose ==
  /\ view' = 0 /\ shown' = None
  /\ UNCHANGED log

Next == Publish \/ Acquire \/ Advance \/ Lose

Spec == Init /\ [][Next]_vars
=============================================================================
