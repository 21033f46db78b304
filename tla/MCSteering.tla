----------------------------- MODULE MCSteering -----------------------------
(***************************************************************************)
(* Instances of Steering for TLC.                                           *)
(***************************************************************************)
EXTENDS Steering

\* Safety runs only: workers and keys are interchangeable.
SteeringSymmetry ==
  Permutations(Mortal) \cup Permutations(Workers \ Mortal) \cup Permutations(Keys)

Ends(outcome) ==
  (\E w \in Workers : intent[w] = outcome) \/ (\E r \in Runs : status[r] = outcome)

OneAtATime == Cardinality({w \in Workers : pc[w] # "idle"}) <= 1

\* One run with faults and lost leases that never pauses; its redrive, delivered by
\* one worker at a time without faults; two runs, the second resuming the first,
\* likewise and without lost leases.
Scope ==
  \/ created <= 1 /\ redrives = 0 /\ ~Ends("paused")
  \/ created <= 1 /\ faults = 0 /\ OneAtATime /\ ~Ends("paused") /\ ~Ends("succeeded")
  \/ /\ lapses = 0 /\ faults = 0 /\ redrives = 0 /\ OneAtATime /\ ~Ends("succeeded")
     /\ \A r \in Runs : attempt[r] <= 1
=============================================================================
