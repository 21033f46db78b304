----------------------------- MODULE MCRunQueue -----------------------------
(***************************************************************************)
(* Instances of RunQueue for TLC.                                           *)
(***************************************************************************)
EXTENDS RunQueue

\* Everybody is alive and goes on claiming.
Calm == \A w \in Workers : pc[w] # "dead" /\ ~draining[w]

\* Two runs of one thread with faults, those after a redrive without crashes, and
\* one run whose graph trips the token; three runs of any thread, each delivered
\* once, without.
Scope ==
  \/ /\ created <= 2 /\ \A r \in 1 .. created : thread[r] # NoThread
     /\ redrives = 0 \/ Calm
     /\ tripped = {} \/ created = 1
  \/ /\ lapses = 0 /\ redrives = 0 /\ tripped = {} /\ Calm
     /\ \A r \in Runs : attempt[r] <= 1
=============================================================================
