---------------------------- MODULE RunContract ----------------------------
(***************************************************************************)
(* What the run API of the Agent Server promises a client about its runs,  *)
(* with every worker, lease and delivery attempt hidden.                    *)
(*                                                                         *)
(* A client sees a status per run and knows which cancel requests were      *)
(* accepted.  RunQueue implements this specification.                       *)
(***************************************************************************)
CONSTANT Runs                  \* identities of the runs a client may create

VARIABLES status,              \* status the API reports for each run
          asked                \* runs with an accepted cancel request

vars == <<status, asked>>

Ended == {"succeeded", "failed", "cancelled", "timed_out", "dead_letter"}
Open     == {"pending", "running", "paused"}
Statuses == {"absent", "cancelling"} \cup Open \cup Ended

Init == /\ status = [r \in Runs |-> "absent"]
        /\ asked = {}

-----------------------------------------------------------------------------
(* The moves of one run.  A step of the server may move several runs: the   *)
(* sweep of claim_run and multitask_strategy = cancel_previous both do.     *)

Stays(r) == /\ status'[r] = status[r]
            /\ r \in asked' <=> r \in asked

Moves(r, from, to) == /\ status[r] \in from
                      /\ status'[r] \in to
                      /\ r \in asked' <=> r \in asked

Submitted(r)  == Moves(r, {"absent"}, {"pending"})
Started(r)    == Moves(r, {"pending"}, {"running"})
Requeued(r)   == Moves(r, {"running"}, {"pending"})
Left(r)       == Moves(r, {"running"}, {"paused"} \cup Ended)
Redriven(r)   == Moves(r, {"failed", "dead_letter"}, {"pending"})
CancelDone(r) == Moves(r, {"cancelling"}, {"cancelled"})

\* A cancel request is accepted: at once when nobody executes the run.
Asked(r) == /\ r \notin asked
            /\ r \in asked'
            /\ \/ status[r] \in {"pending", "paused"} /\ status'[r] = "cancelled"
               \/ status[r] = "running" /\ status'[r] = "cancelling"

Next == /\ status' \in [Runs -> Statuses]
        /\ asked' \in SUBSET Runs
        /\ \A r \in Runs :
             \/ Stays(r) \/ Submitted(r) \/ Started(r) \/ Requeued(r)
             \/ Left(r) \/ Redriven(r) \/ CancelDone(r) \/ Asked(r)

Spec == Init /\ [][Next]_vars
=============================================================================
