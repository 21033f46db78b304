---------------------------- MODULE MCEventStream ----------------------------
(***************************************************************************)
(* Instances of EventStream for TLC.                                        *)
(***************************************************************************)
EXTENDS EventStream

CONSTANTS c1, c2

\* One client with a slot of its own, through two deliveries or a longer log, and
\* two that compete for it.
Single  == [clients |-> {c1}, claims |-> 2, events |-> 2, unstarted |-> 0]
Long    == [clients |-> {c1}, claims |-> 1, events |-> 3, unstarted |-> 0]
Crowded == [clients |-> {c1, c2}, claims |-> 1, events |-> 2, unstarted |-> 1]
AllAudiences == {Single, Long, Crowded}
=============================================================================
