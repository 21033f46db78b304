---------------------------- MODULE QueueProofs ----------------------------
(***************************************************************************)
(* Proofs about RunQueue and Steering for every number of runs, workers,    *)
(* threads, keys and rows.                                                  *)
(*                                                                         *)
(* The first part is about the run queue: IndInv of module RunQueue is      *)
(* inductive.  It is preserved conjunct by conjunct: each lemma takes one   *)
(* part of the invariant through one step, with one proof step per action   *)
(* that can disturb it.  The second part is about the inboxes: every step   *)
(* of Steering is a step of the run queue or leaves it alone, which carries *)
(* the theorems of the first part over; SteeringInv is then preserved       *)
(* conjunct by conjunct.                                                    *)
(***************************************************************************)
EXTENDS Steering, OrderLemmas

-----------------------------------------------------------------------------
(* The run queue: type correctness                                          *)

\* Ending a delivery keeps the worker's variables well typed.
LEMMA DoneType ==
  ASSUME TypeOK, NEW w \in Workers, Done(w)
  PROVE  /\ pc' \in [Workers -> Phases]
         /\ held' \in [Workers -> 0 .. MaxRuns]
         /\ heldAttempt' \in [Workers -> Nat]
         /\ token' \in [Workers -> BOOLEAN]
         /\ intent' \in [Workers -> Intents \cup {"none"}]
         /\ draining' = draining
         /\ tripped' \in SUBSET Workers
<1> USE BoundsAssumption DEF TypeOK, Done
<1>1. pc' \in [Workers -> Phases]
  BY DEF Phases
<1>2. held' \in [Workers -> 0 .. MaxRuns] /\ heldAttempt' \in [Workers -> Nat]
  OBVIOUS
<1>3. token' \in [Workers -> BOOLEAN] /\ intent' \in [Workers -> Intents \cup {"none"}]
  OBVIOUS
<1>4. draining' = draining /\ tripped' \in SUBSET Workers
  OBVIOUS
<1> QED
  BY <1>1, <1>2, <1>3, <1>4

\* Giving the run back does too: the status is one the code knows, and lease
\* and owner are cleared.
LEMMA ReleaseType ==
  ASSUME TypeOK, NEW w \in Workers, NEW s \in Statuses,
         held[w] # 0, Release(held[w], s), Done(w), closed' \in [Runs -> BOOLEAN]
  PROVE  TypeOK'
<1> USE BoundsAssumption, NamesAssumption DEF TypeOK, Runs
<1>1. held[w] \in Runs
  OBVIOUS
<1>2. status' \in [Runs -> Statuses]
  BY <1>1 DEF Release
<1>3. owner' \in [Runs -> Workers \cup {NoWorker}]
  BY <1>1 DEF Release
<1>4. lease' \in [Runs -> {"none", "live", "expired"}]
  BY <1>1 DEF Release
<1>5. UNCHANGED <<created, thread, attempt, successor, origin, asked,
                  lapses, redrives>>
  BY DEF Release, boundVars
<1> QED
  BY <1>2, <1>3, <1>4, <1>5, DoneType

\* The type of the state, and every step of the specification keeps it:
\* no action writes a status, a lease, a phase or a counter that the code
\* does not know.
LEMMA TypeStep == TypeOK /\ [Next]_vars => TypeOK'
<1> SUFFICES ASSUME TypeOK, [Next]_vars PROVE TypeOK'
  OBVIOUS
<1> USE BoundsAssumption, NamesAssumption
<1> USE DEF TypeOK, Runs, ACTIVE, TERMINAL, Statuses, Intents, Phases,
            runVars, workerVars, boundVars
<1>1. ASSUME NEW t \in Threads, NEW s \in Strategies, CreateRun(t, s)
      PROVE  TypeOK'
  <2> USE DEF CreateRun
  <2>1. created + 1 \in Runs /\ created' \in 0 .. MaxRuns
    BY <1>1
  <2>2. status' \in [Runs -> Statuses]
    BY <1>1
  <2>3. thread' \in [Runs -> Threads \cup {NoThread}]
    BY <1>1
  <2>4. asked' \in SUBSET Runs
    BY <1>1 DEF ActiveOn, ActiveRuns
  <2> QED
    BY <1>1, <2>1, <2>2, <2>3, <2>4
<1>2. ASSUME NEW r \in Runs, Resume(r) PROVE TypeOK'
  <2>1. created + 1 \in Runs /\ created' \in 0 .. MaxRuns
    BY <1>2 DEF Resume
  <2>2. status' \in [Runs -> Statuses] /\ thread' \in [Runs -> Threads \cup {NoThread}]
    BY <1>2, <2>1 DEF Resume
  <2>3. origin' \in [Runs -> 0 .. MaxRuns] /\ successor' \in [Runs -> 0 .. MaxRuns]
    BY <1>2, <2>1 DEF Resume
  <2> QED
    BY <1>2, <2>1, <2>2, <2>3 DEF Resume
<1>3. ASSUME NEW r \in Runs, RequestCancel(r) PROVE TypeOK'
  BY <1>3 DEF RequestCancel
<1>4. ASSUME NEW r \in Runs, Redrive(r) PROVE TypeOK'
  BY <1>4 DEF Redrive
<1>5. ASSUME NEW r \in Runs, OrphanLapses(r) PROVE TypeOK'
  BY <1>5 DEF OrphanLapses, Expire
<1>6. ASSUME NEW r \in Runs, StalledLapses(r) PROVE TypeOK'
  <2>1. lease' \in [Runs -> {"none", "live", "expired"}] /\ lapses' \in Nat
    BY <1>6 DEF StalledLapses, Expire
  <2> QED
    BY <1>6, <2>1 DEF StalledLapses, Expire
<1>7. ASSUME NEW w \in Mortal, Crash(w) PROVE TypeOK'
  <2>1. w \in Workers
    OBVIOUS
  <2>2. pc' \in [Workers -> Phases] /\ intent' \in [Workers -> Intents \cup {"none"}]
    BY <1>7, <2>1 DEF Crash
  <2>3. held' \in [Workers -> 0 .. MaxRuns] /\ heldAttempt' \in [Workers -> Nat]
    BY <1>7, <2>1 DEF Crash
  <2>4. token' \in [Workers -> BOOLEAN]
    BY <1>7, <2>1 DEF Crash
  <2> QED
    BY <1>7, <2>2, <2>3, <2>4 DEF Crash
<1>8. ASSUME NEW w \in Mortal, Drain(w) PROVE TypeOK'
  BY <1>8 DEF Drain
<1>9. ASSUME NEW w \in Workers, ClaimRun(w) PROVE TypeOK'
  <2>1. PICK r \in Runs :
          /\ status' = [SweptStatus EXCEPT ![r] = "running"]
          /\ owner' = [q \in Runs |-> IF q = r THEN w
                                      ELSE IF q \in Recovered THEN NoWorker
                                      ELSE owner[q]]
          /\ lease' = [q \in Runs |-> IF q = r THEN "live"
                                      ELSE IF q \in Recovered THEN "none"
                                      ELSE lease[q]]
          /\ attempt' = [attempt EXCEPT ![r] = attempt[r] + 1]
          /\ held' = [held EXCEPT ![w] = r]
          /\ heldAttempt' = [heldAttempt EXCEPT ![w] = attempt[r] + 1]
    BY <1>9 DEF ClaimRun
  <2>2. status' \in [Runs -> Statuses]
    BY <2>1 DEF SweptStatus
  <2>3. owner' \in [Runs -> Workers \cup {NoWorker}]
    BY <2>1
  <2>4. lease' \in [Runs -> {"none", "live", "expired"}]
    BY <2>1
  <2>5. attempt' \in [Runs -> Nat] /\ heldAttempt' \in [Workers -> Nat]
    BY <2>1
  <2>6. held' \in [Workers -> 0 .. MaxRuns] /\ pc' \in [Workers -> Phases]
    BY <1>9, <2>1 DEF ClaimRun
  <2>7. closed' \in [Runs -> BOOLEAN]
    BY <1>9 DEF ClaimRun
  <2> QED
    BY <1>9, <2>2, <2>3, <2>4, <2>5, <2>6, <2>7 DEF ClaimRun
<1>10. ASSUME NEW w \in Workers, SweepOnly(w) PROVE TypeOK'
  BY <1>10 DEF SweepOnly, SweptStatus, Recovered, Lapsed
<1>11. ASSUME NEW w \in Workers, GraphEnds(w) PROVE TypeOK'
  <2>1. PICK i \in Endings(w) :
          /\ At(w, "executing", IF Closing(i) THEN "closing" ELSE "flushing")
          /\ intent' = [intent EXCEPT ![w] = i]
    BY <1>11 DEF GraphEnds
  <2>2. i \in Intents
    BY DEF Endings
  <2>3. pc' \in [Workers -> Phases] /\ intent' \in [Workers -> Intents \cup {"none"}]
    BY <2>1, <2>2 DEF At
  <2>4. UNCHANGED <<runVars, held, heldAttempt, token, draining, tripped, boundVars>>
    BY <1>11 DEF GraphEnds, At
  <2> QED
    BY <2>3, <2>4
<1>12. ASSUME NEW w \in Workers, CloseSteering(w) PROVE TypeOK'
  BY <1>12 DEF CloseSteering, At
<1>13. ASSUME NEW w \in Workers, FlushDone(w) PROVE TypeOK'
  BY <1>13 DEF FlushDone, At
<1>14. ASSUME NEW w \in Workers, FlushGivesUp(w) PROVE TypeOK'
  BY <1>14 DEF FlushGivesUp, At
<1>15. ASSUME NEW w \in Workers, FinalizeRun(w) PROVE TypeOK'
  <2>1. CancelWins(held[w], intent[w]) \in Statuses
    BY <1>15 DEF FinalizeRun, CancelWins, Closing, TERMINAL
  <2> QED
    BY <1>15, <2>1, ReleaseType DEF FinalizeRun, FinishIfOwned, Owns
<1>16. ASSUME NEW w \in Workers, PauseRun(w) PROVE TypeOK'
  <2>1. CancelWins(held[w], "paused") \in Statuses
    BY DEF CancelWins
  <2> QED
    BY <1>16, <2>1, ReleaseType DEF PauseRun, FinishIfOwned, Owns
<1>17. ASSUME NEW w \in Workers, RetryRun(w) PROVE TypeOK'
  <2>1. CancelWins(held[w], "pending") \in Statuses
    BY DEF CancelWins
  <2> QED
    BY <1>17, <2>1, ReleaseType DEF RetryRun, RetryIfOwned, Owns
<1>18. ASSUME NEW w \in Workers, DeadLetter(w) PROVE TypeOK'
  <2>1. CancelWins(held[w], "dead_letter") \in Statuses
    BY DEF CancelWins
  <2> QED
    BY <1>18, <2>1, ReleaseType DEF DeadLetter, FinishIfOwned, Owns
<1>19. ASSUME NEW w \in Workers, Abandon(w) PROVE TypeOK'
  BY <1>19, DoneType DEF Abandon
<1>20. ASSUME NEW w \in Workers, RenewLease(w) PROVE TypeOK'
  BY <1>20 DEF RenewLease
<1>21. ASSUME NEW w \in Workers, NoticeCancel(w) PROVE TypeOK'
  BY <1>21 DEF NoticeCancel
<1>22. ASSUME NEW w \in Workers, TripToken(w) PROVE TypeOK'
  BY <1>22 DEF TripToken
<1>23. CASE UNCHANGED vars
  BY <1>23 DEF vars
<1> QED
  BY <1>1, <1>2, <1>3, <1>4, <1>5, <1>6, <1>7, <1>8, <1>9, <1>10, <1>11,
     <1>12, <1>13, <1>14, <1>15, <1>16, <1>17, <1>18, <1>19, <1>20, <1>21,
     <1>22, <1>23 DEF Next, Client, Environment, Worker, Progress

\* Every state of the run table and of the workers is well typed.
THEOREM Typing == Spec => []TypeOK
<1>1. Init => TypeOK
  BY BoundsAssumption, NamesAssumption
     DEF Init, TypeOK, Runs, Statuses, ACTIVE, TERMINAL, Intents, Phases
<1>2. QED
  BY <1>1, TypeStep, PTL DEF Spec, SafetySpec

-----------------------------------------------------------------------------
(* What a step does to the run table, as far as the invariant can tell      *)

\* The fenced writes: the worker gives its run back with status s.
HandsBack(w, s) ==
  /\ Owns(w)
  /\ s \in TERMINAL \cup {"paused", "pending"}
  /\ Release(held[w], s)
  /\ Done(w)
  /\ status[held[w]] = "cancelling" => s = "cancelled"
  /\ s = "cancelled" => status[held[w]] = "cancelling" \/ intent[w] = "cancelled"
  /\ \/ closed' = closed
     \/ closed' = [closed EXCEPT ![held[w]] = @ /\ status[held[w]] = "cancelling"]
  /\ s \in {"paused", "pending"} => ~closed'[held[w]]

\* Nothing moves but a lease that is renewed or expires.
TableStays ==
  /\ UNCHANGED <<created, status, thread, owner, attempt, closed, successor,
                 origin, asked>>
  /\ \A r \in Runs : lease'[r] = "none" <=> lease[r] = "none"

\* The worker moves on inside its delivery.
Advances(w) == GraphEnds(w) \/ FlushDone(w) \/ FlushGivesUp(w)

\* All four ways of writing an outcome are such a fenced write.
LEMMA OutcomesAreFenced ==
  ASSUME IndInv, NEW w \in Workers,
         FinalizeRun(w) \/ PauseRun(w) \/ RetryRun(w) \/ DeadLetter(w)
  PROVE  \E s \in Statuses : HandsBack(w, s)
<1> USE BoundsAssumption, NamesAssumption DEF IndInv, TypeOK, Runs
<1> USE DEF HandsBack, CancelWins, TERMINAL, Statuses
<1>1. CASE FinalizeRun(w)
  <2>1. HandsBack(w, CancelWins(held[w], intent[w]))
    BY <1>1 DEF FinalizeRun, FinishIfOwned, Closing
  <2> QED
    BY <2>1
<1>2. CASE PauseRun(w)
  <2>1. ~closed[held[w]]
    BY <1>2 DEF PauseRun, FinishIfOwned, GateShutByFinalizer, Closing
  <2>2. HandsBack(w, CancelWins(held[w], "paused"))
    BY <1>2, <2>1 DEF PauseRun, FinishIfOwned
  <2> QED
    BY <2>2
<1>3. CASE RetryRun(w)
  <2>1. held[w] \in Runs
    BY <1>3 DEF RetryRun, RetryIfOwned, Owns
  <2>2. /\ closed' = [closed EXCEPT ![held[w]] = @ /\ status[held[w]] = "cancelling"]
        /\ Owns(w) /\ Done(w) /\ Release(held[w], CancelWins(held[w], "pending"))
    BY <1>3 DEF RetryRun, RetryIfOwned
  <2>3. closed'[held[w]] = (closed[held[w]] /\ status[held[w]] = "cancelling")
    BY <2>1, <2>2
  <2>4. HandsBack(w, CancelWins(held[w], "pending"))
    BY <2>2, <2>3
  <2> QED
    BY <2>4
<1>4. CASE DeadLetter(w)
  <2>1. HandsBack(w, CancelWins(held[w], "dead_letter"))
    BY <1>4 DEF DeadLetter, FinishIfOwned
  <2> QED
    BY <2>1
<1> QED
  BY <1>1, <1>2, <1>3, <1>4

\* The actions that leave the table alone, leases apart.
LEMMA QuietActions ==
  ASSUME IndInv
  PROVE  /\ \A r \in Runs : OrphanLapses(r) \/ StalledLapses(r) => TableStays
         /\ \A w \in Workers :
              \/ Advances(w) \/ Abandon(w) \/ RenewLease(w)
              \/ NoticeCancel(w) \/ TripToken(w)
              => TableStays
         /\ \A w \in Mortal : Crash(w) \/ Drain(w) => TableStays
         /\ UNCHANGED vars => TableStays
<1> USE DEF IndInv, TypeOK, Runs, TableStays, runVars
<1>1. ASSUME NEW r \in Runs, OrphanLapses(r) \/ StalledLapses(r) PROVE TableStays
  BY <1>1 DEF OrphanLapses, StalledLapses, Expire
<1>2. ASSUME NEW w \in Workers, Advances(w) PROVE TableStays
  BY <1>2 DEF Advances, GraphEnds, FlushDone, FlushGivesUp
<1>3. ASSUME NEW w \in Workers, Abandon(w) \/ NoticeCancel(w) \/ TripToken(w)
      PROVE  TableStays
  BY <1>3 DEF Abandon, NoticeCancel, TripToken
<1>4. ASSUME NEW w \in Workers, RenewLease(w) PROVE TableStays
  <2>1. held[w] \in Runs /\ lease[held[w]] # "none"
    BY <1>4, BoundsAssumption DEF RenewLease, Beats, ActiveIffLeased
  <2> QED
    BY <1>4, <2>1 DEF RenewLease
<1>5. ASSUME NEW w \in Mortal, Crash(w) \/ Drain(w) PROVE TableStays
  BY <1>5 DEF Crash, Drain
<1>6. ASSUME UNCHANGED vars PROVE TableStays
  BY <1>6 DEF vars
<1> QED
  BY <1>1, <1>2, <1>3, <1>4, <1>5, <1>6

\* Every step is a client's request, a claim, a fenced write, or quiet.
LEMMA Steps ==
  ASSUME IndInv, [Next]_vars
  PROVE  \/ \E t \in Threads, s \in Strategies : CreateRun(t, s)
         \/ \E r \in Runs : Resume(r) \/ RequestCancel(r) \/ Redrive(r)
         \/ \E w \in Workers : ClaimRun(w) \/ SweepOnly(w) \/ CloseSteering(w)
         \/ \E w \in Workers, s \in Statuses : HandsBack(w, s)
         \/ TableStays
<1>1. ASSUME NEW w \in Workers, Progress(w)
      PROVE  \/ ClaimRun(w) \/ SweepOnly(w) \/ CloseSteering(w)
             \/ \E s \in Statuses : HandsBack(w, s)
             \/ Advances(w) \/ Abandon(w)
  BY <1>1, OutcomesAreFenced DEF Progress, Advances
<1> QED
  BY <1>1, QuietActions DEF Next, Client, Environment, Worker

-----------------------------------------------------------------------------
(* The parts of the invariant that speak of the run table only              *)

\* What the sweep of claim_run does to each run.
LEMMA Sweep ==
  ASSUME TypeOK, NEW r \in Runs
  PROVE  /\ r \in Recovered =>
              /\ status[r] \in ACTIVE /\ lease[r] = "expired"
              /\ SweptStatus[r] =
                   IF status[r] = "running" THEN "pending" ELSE "cancelled"
         /\ r \notin Recovered =>
              /\ SweptStatus[r] = status[r]
              /\ status[r] \in ACTIVE => lease[r] # "expired"
         /\ Lapsed(r, "running") <=> r \in Recovered /\ status[r] = "running"
BY DEF TypeOK, Recovered, SweptStatus, Lapsed, ACTIVE

\* What a claim writes, with the run it hands out made explicit.
LEMMA ClaimWrites ==
  ASSUME TypeOK, NEW w \in Workers, ClaimRun(w)
  PROVE  \E r \in Runs :
           /\ Claimable(r)
           /\ status' = [SweptStatus EXCEPT ![r] = "running"]
           /\ \A q \in Runs :
                /\ status'[q] = IF q = r THEN "running" ELSE SweptStatus[q]
                /\ owner'[q] = IF q = r THEN w
                               ELSE IF q \in Recovered THEN NoWorker ELSE owner[q]
                /\ lease'[q] = IF q = r THEN "live"
                               ELSE IF q \in Recovered THEN "none" ELSE lease[q]
                /\ closed'[q] = (closed[q] /\ ~Lapsed(q, "running"))
                /\ attempt'[q] = IF q = r THEN attempt[r] + 1 ELSE attempt[q]
           /\ held' = [held EXCEPT ![w] = r]
           /\ heldAttempt' = [heldAttempt EXCEPT ![w] = attempt[r] + 1]
<1>1. PICK r \in Runs :
        /\ Claimable(r)
        /\ status' = [SweptStatus EXCEPT ![r] = "running"]
        /\ owner' = [q \in Runs |-> IF q = r THEN w
                                    ELSE IF q \in Recovered THEN NoWorker
                                    ELSE owner[q]]
        /\ lease' = [q \in Runs |-> IF q = r THEN "live"
                                    ELSE IF q \in Recovered THEN "none"
                                    ELSE lease[q]]
        /\ closed' = [q \in Runs |-> closed[q] /\ ~Lapsed(q, "running")]
        /\ attempt' = [attempt EXCEPT ![r] = attempt[r] + 1]
        /\ held' = [held EXCEPT ![w] = r]
        /\ heldAttempt' = [heldAttempt EXCEPT ![w] = attempt[r] + 1]
  BY DEF ClaimRun
<1>2. ASSUME NEW q \in Runs
      PROVE  /\ status'[q] = IF q = r THEN "running" ELSE SweptStatus[q]
             /\ attempt'[q] = IF q = r THEN attempt[r] + 1 ELSE attempt[q]
  BY <1>1 DEF TypeOK, SweptStatus
<1>3. ASSUME NEW q \in Runs
      PROVE  /\ owner'[q] = IF q = r THEN w
                            ELSE IF q \in Recovered THEN NoWorker ELSE owner[q]
             /\ lease'[q] = IF q = r THEN "live"
                            ELSE IF q \in Recovered THEN "none" ELSE lease[q]
             /\ closed'[q] = (closed[q] /\ ~Lapsed(q, "running"))
  BY <1>1
<1> QED
  BY <1>1, <1>2, <1>3

\* Runs beyond created stay blank: only a creation touches the next of them.
LEMMA BlankStep == IndInv /\ [Next]_vars => UncreatedIsBlank'
<1> SUFFICES ASSUME IndInv, [Next]_vars PROVE UncreatedIsBlank'
  OBVIOUS
<1>0. TypeOK /\ UncreatedIsBlank
  BY DEF IndInv
<1> USE BoundsAssumption DEF ACTIVE
\* No run is created, and none is linked to another.
<1>a. ASSUME UNCHANGED <<created, successor, origin>>,
             \A q \in Runs : status'[q] = "absent" <=> status[q] = "absent"
      PROVE  UncreatedIsBlank'
  BY <1>0, <1>a DEF UncreatedIsBlank
<1>1. ASSUME NEW t \in Threads, NEW s \in Strategies, CreateRun(t, s)
      PROVE  UncreatedIsBlank'
  BY <1>0, <1>1 DEF CreateRun, ActiveOn, ActiveRuns, UncreatedIsBlank, TypeOK, Runs
<1>2. ASSUME NEW r \in Runs, Resume(r) PROVE UncreatedIsBlank'
  BY <1>0, <1>2 DEF Resume, Resumable, UncreatedIsBlank, TypeOK, Runs
<1>3. ASSUME NEW r \in Runs, RequestCancel(r) PROVE UncreatedIsBlank'
  BY <1>0, <1>3, <1>a DEF RequestCancel, TypeOK
<1>4. ASSUME NEW r \in Runs, Redrive(r) PROVE UncreatedIsBlank'
  BY <1>0, <1>4, <1>a DEF Redrive, TypeOK
<1>5. ASSUME NEW w \in Workers, ClaimRun(w) PROVE UncreatedIsBlank'
  <2>1. PICK r \in Runs :
          /\ Claimable(r)
          /\ \A q \in Runs :
               status'[q] = IF q = r THEN "running" ELSE SweptStatus[q]
    BY <1>0, <1>5, ClaimWrites
  <2>2. \A q \in Runs : SweptStatus[q] = "absent" <=> status[q] = "absent"
    BY <1>0, Sweep
  <2>3. \A q \in Runs : status'[q] = "absent" <=> status[q] = "absent"
    BY <2>1, <2>2 DEF Claimable
  <2> QED
    BY <1>5, <1>a, <2>3 DEF ClaimRun
<1>6. ASSUME NEW w \in Workers, SweepOnly(w) PROVE UncreatedIsBlank'
  BY <1>0, <1>6, <1>a, Sweep DEF SweepOnly
<1>7. ASSUME NEW w \in Workers, CloseSteering(w) PROVE UncreatedIsBlank'
  BY <1>7, <1>a DEF CloseSteering
<1>8. ASSUME NEW w \in Workers, NEW s \in Statuses, HandsBack(w, s)
      PROVE  UncreatedIsBlank'
  BY <1>0, <1>8, <1>a DEF HandsBack, Release, Owns, TERMINAL, TypeOK
<1>9. CASE TableStays
  BY <1>9, <1>a DEF TableStays
<1> QED
  BY <1>1, <1>2, <1>3, <1>4, <1>5, <1>6, <1>7, <1>8, <1>9, Steps

\* A thread never gets a second active run: claim_run looks at every active
\* run of the thread after its sweep.
LEMMA ThreadStep == IndInv /\ [Next]_vars => OneActivePerThread'
<1> SUFFICES ASSUME IndInv, [Next]_vars PROVE OneActivePerThread'
  OBVIOUS
<1>0. TypeOK /\ UncreatedIsBlank /\ OneActivePerThread
  BY DEF IndInv
<1> USE BoundsAssumption DEF ACTIVE
\* No run becomes active and none of the active ones changes its thread.
<1>a. ASSUME \A q \in Runs : status'[q] \in ACTIVE =>
                               status[q] \in ACTIVE /\ thread'[q] = thread[q]
      PROVE  OneActivePerThread'
  BY <1>0, <1>a DEF OneActivePerThread
<1>1. ASSUME NEW t \in Threads, NEW s \in Strategies, CreateRun(t, s)
      PROVE  OneActivePerThread'
  BY <1>0, <1>1, <1>a
     DEF CreateRun, ActiveOn, ActiveRuns, UncreatedIsBlank, TypeOK, Runs
<1>2. ASSUME NEW r \in Runs, Resume(r) PROVE OneActivePerThread'
  BY <1>0, <1>2, <1>a DEF Resume, UncreatedIsBlank, TypeOK, Runs
<1>3. ASSUME NEW r \in Runs, RequestCancel(r) PROVE OneActivePerThread'
  BY <1>0, <1>3, <1>a DEF RequestCancel, TypeOK
<1>4. ASSUME NEW r \in Runs, Redrive(r) PROVE OneActivePerThread'
  BY <1>0, <1>4, <1>a DEF Redrive, TypeOK
<1>5. ASSUME NEW w \in Workers, ClaimRun(w) PROVE OneActivePerThread'
  <2>1. PICK r \in Runs :
          /\ Claimable(r)
          /\ \A q \in Runs :
               status'[q] = IF q = r THEN "running" ELSE SweptStatus[q]
    BY <1>0, <1>5, ClaimWrites
  <2>2. \A q \in Runs : SweptStatus[q] \in ACTIVE => status[q] \in ACTIVE
    BY <1>0, Sweep
  <2>3. thread' = thread
    BY <1>5 DEF ClaimRun
  <2> QED
    BY <1>0, <2>1, <2>2, <2>3 DEF Claimable, OneActivePerThread
<1>6. ASSUME NEW w \in Workers, SweepOnly(w) PROVE OneActivePerThread'
  BY <1>0, <1>6, <1>a, Sweep DEF SweepOnly
<1>7. ASSUME NEW w \in Workers, CloseSteering(w) PROVE OneActivePerThread'
  BY <1>7, <1>a DEF CloseSteering
<1>8. ASSUME NEW w \in Workers, NEW s \in Statuses, HandsBack(w, s)
      PROVE  OneActivePerThread'
  BY <1>0, <1>8, <1>a DEF HandsBack, Release, TERMINAL, TypeOK
<1>9. CASE TableStays
  BY <1>9, <1>a DEF TableStays
<1> QED
  BY <1>1, <1>2, <1>3, <1>4, <1>5, <1>6, <1>7, <1>8, <1>9, Steps

\* Lease and active status come and go together.
LEMMA LeaseStep == IndInv /\ [Next]_vars => ActiveIffLeased'
<1> SUFFICES ASSUME IndInv, [Next]_vars, NEW q \in Runs
             PROVE  /\ (status[q] \in ACTIVE <=> owner[q] # NoWorker)'
                    /\ (status[q] \in ACTIVE <=> lease[q] # "none")'
  BY DEF ActiveIffLeased
<1> DEFINE Goal == /\ (status[q] \in ACTIVE <=> owner[q] # NoWorker)'
                   /\ (status[q] \in ACTIVE <=> lease[q] # "none")'
<1>0. /\ TypeOK /\ UncreatedIsBlank /\ ActiveIffLeased
      /\ status[q] \in ACTIVE <=> owner[q] # NoWorker
      /\ status[q] \in ACTIVE <=> lease[q] # "none"
  BY DEF IndInv, ActiveIffLeased
<1> USE BoundsAssumption, NamesAssumption DEF ACTIVE
<1>1. ASSUME NEW t \in Threads, NEW s \in Strategies, CreateRun(t, s) PROVE Goal
  BY <1>0, <1>1 DEF CreateRun, ActiveOn, ActiveRuns, UncreatedIsBlank, TypeOK, Runs
<1>2. ASSUME NEW r \in Runs, Resume(r) PROVE Goal
  <2>1. created + 1 \in Runs /\ status[created + 1] = "absent"
    BY <1>0, <1>2 DEF Resume, UncreatedIsBlank, TypeOK, Runs
  <2>2. /\ status'[q] = IF q = created + 1 THEN "pending" ELSE status[q]
        /\ UNCHANGED <<owner, lease>>
    BY <1>0, <1>2 DEF Resume, TypeOK
  <2> QED
    BY <1>0, <2>1, <2>2
<1>3. ASSUME NEW r \in Runs, RequestCancel(r) PROVE Goal
  BY <1>0, <1>3 DEF RequestCancel, TypeOK
<1>4. ASSUME NEW r \in Runs, Redrive(r) PROVE Goal
  BY <1>0, <1>4 DEF Redrive, TypeOK
<1>5. ASSUME NEW w \in Workers, ClaimRun(w) PROVE Goal
  BY <1>0, <1>5, ClaimWrites, Sweep
<1>6. ASSUME NEW w \in Workers, SweepOnly(w) PROVE Goal
  BY <1>0, <1>6, Sweep DEF SweepOnly
<1>7. ASSUME NEW w \in Workers, CloseSteering(w) PROVE Goal
  BY <1>0, <1>7 DEF CloseSteering
<1>8. ASSUME NEW w \in Workers, NEW s \in Statuses, HandsBack(w, s) PROVE Goal
  BY <1>0, <1>8 DEF HandsBack, Release, TERMINAL, TypeOK
<1>9. CASE TableStays
  BY <1>0, <1>9 DEF TableStays
<1> QED
  BY <1>1, <1>2, <1>3, <1>4, <1>5, <1>6, <1>7, <1>8, <1>9, Steps

\* A cancel request reaches the status of its run and never gets lost.
LEMMA CancelStep == IndInv /\ [Next]_vars => CancelTracked'
<1> SUFFICES ASSUME IndInv, [Next]_vars, NEW q \in Runs
             PROVE  /\ (q \in asked => status[q] \in {"cancelling", "cancelled"})'
                    /\ (status[q] = "cancelling" => q \in asked)'
  BY DEF CancelTracked
<1> DEFINE Goal ==
      /\ (q \in asked => status[q] \in {"cancelling", "cancelled"})'
      /\ (status[q] = "cancelling" => q \in asked)'
<1>0. /\ TypeOK /\ UncreatedIsBlank
      /\ q \in asked => status[q] \in {"cancelling", "cancelled"}
      /\ status[q] = "cancelling" => q \in asked
  BY DEF IndInv, CancelTracked
<1> USE BoundsAssumption, NamesAssumption DEF ACTIVE
<1>1. ASSUME NEW t \in Threads, NEW s \in Strategies, CreateRun(t, s) PROVE Goal
  BY <1>0, <1>1 DEF CreateRun, ActiveOn, ActiveRuns, UncreatedIsBlank, TypeOK, Runs
<1>2. ASSUME NEW r \in Runs, Resume(r) PROVE Goal
  BY <1>0, <1>2 DEF Resume, UncreatedIsBlank, TypeOK, Runs
<1>3. ASSUME NEW r \in Runs, RequestCancel(r) PROVE Goal
  BY <1>0, <1>3 DEF RequestCancel, TypeOK
<1>4. ASSUME NEW r \in Runs, Redrive(r) PROVE Goal
  BY <1>0, <1>4 DEF Redrive, TypeOK
<1>5. ASSUME NEW w \in Workers, ClaimRun(w) PROVE Goal
  <2>1. PICK r \in Runs :
          /\ SweptStatus[r] = "pending"
          /\ status'[q] = IF q = r THEN "running" ELSE SweptStatus[q]
    BY <1>5, <1>0, ClaimWrites DEF Claimable
  <2>2. asked' = asked
    BY <1>5 DEF ClaimRun
  <2> QED
    BY <1>0, <2>1, <2>2, Sweep
<1>6. ASSUME NEW w \in Workers, SweepOnly(w) PROVE Goal
  BY <1>0, <1>6, Sweep DEF SweepOnly
<1>7. ASSUME NEW w \in Workers, CloseSteering(w) PROVE Goal
  BY <1>0, <1>7 DEF CloseSteering
<1>8. ASSUME NEW w \in Workers, NEW s \in Statuses, HandsBack(w, s) PROVE Goal
  <2>1. /\ status' = [status EXCEPT ![held[w]] = s]
        /\ asked' = asked
        /\ s # "cancelling" /\ status[held[w]] \in ACTIVE
        /\ status[held[w]] = "cancelling" => s = "cancelled"
    BY <1>8 DEF HandsBack, Release, Owns, TERMINAL
  <2> QED
    BY <1>0, <2>1 DEF TypeOK
<1>9. CASE TableStays
  BY <1>0, <1>9 DEF TableStays
<1> QED
  BY <1>1, <1>2, <1>3, <1>4, <1>5, <1>6, <1>7, <1>8, <1>9, Steps

\* A run that was resumed and the run that continues it stay tied together.
LEMMA LineageStep == IndInv /\ [Next]_vars => LineageIsMutual'
<1> SUFFICES ASSUME IndInv, [Next]_vars, NEW q \in Runs
             PROVE  /\ (successor[q] # 0 =>
                          status[q] = "paused" /\ origin[successor[q]] = q)'
                    /\ (origin[q] # 0 => successor[origin[q]] = q)'
  BY DEF LineageIsMutual
<1> DEFINE Goal == /\ (successor[q] # 0 =>
                         status[q] = "paused" /\ origin[successor[q]] = q)'
                   /\ (origin[q] # 0 => successor[origin[q]] = q)'
<1>0. /\ TypeOK /\ UncreatedIsBlank /\ LineageIsMutual
      /\ successor[q] # 0 => status[q] = "paused" /\ origin[successor[q]] = q
      /\ origin[q] # 0 => successor[origin[q]] = q
  BY DEF IndInv, LineageIsMutual
\* No run that was resumed changes its status.
<1>a. ASSUME UNCHANGED <<successor, origin>>,
             status[q] = "paused" /\ successor[q] # 0 => status'[q] = "paused"
      PROVE  Goal
  BY <1>0, <1>a
<1> USE BoundsAssumption, NamesAssumption DEF ACTIVE
<1>1. ASSUME NEW t \in Threads, NEW s \in Strategies, CreateRun(t, s) PROVE Goal
  <2>1. status[q] = "paused" => status'[q] = "paused"
    BY <1>0, <1>1 DEF CreateRun, ActiveOn, ActiveRuns, UncreatedIsBlank, Runs, TypeOK
  <2> QED
    BY <1>1, <1>a, <2>1 DEF CreateRun
<1>2. ASSUME NEW r \in Runs, Resume(r) PROVE Goal
  <2>0. /\ created + 1 \in Runs /\ status[created + 1] = "absent"
        /\ origin[created + 1] = 0 /\ successor[created + 1] = 0
        /\ status[r] = "paused" /\ successor[r] = 0
    BY <1>0, <1>2 DEF Resume, Resumable, UncreatedIsBlank, TypeOK, Runs
  <2>1. created + 1 # r /\ \A p \in Runs : origin[p] # r
    BY <1>0, <2>0 DEF LineageIsMutual, Runs
  <2>2. /\ status' = [status EXCEPT ![created + 1] = "pending"]
        /\ origin' = [origin EXCEPT ![created + 1] = r]
        /\ successor' = [successor EXCEPT ![r] = created + 1]
    BY <1>2 DEF Resume
  <2>3. CASE q = created + 1
    BY <1>0, <2>0, <2>1, <2>2, <2>3 DEF TypeOK, Runs
  <2>4. CASE q = r
    BY <1>0, <2>0, <2>1, <2>2, <2>4 DEF TypeOK, Runs
  <2>5. CASE q # created + 1 /\ q # r
    <3>1. /\ status'[q] = status[q]
          /\ origin'[q] = origin[q] /\ successor'[q] = successor[q]
      BY <1>0, <2>2, <2>5 DEF TypeOK
    <3>2. ASSUME successor[q] # 0 PROVE origin'[successor[q]] = q
      <4>1. successor[q] \in Runs /\ origin[successor[q]] = q /\ q # 0
        BY <1>0, <3>2 DEF TypeOK, Runs
      <4>2. successor[q] # created + 1
        BY <4>1, <2>0
      <4> QED
        BY <4>1, <4>2, <2>2, <1>0 DEF TypeOK
    <3>3. ASSUME origin[q] # 0 PROVE successor'[origin[q]] = q
      <4>1. origin[q] \in Runs /\ successor[origin[q]] = q /\ origin[q] # r
        BY <1>0, <2>1, <3>3 DEF TypeOK, Runs
      <4> QED
        BY <4>1, <2>2, <1>0 DEF TypeOK
    <3> QED
      BY <1>0, <3>1, <3>2, <3>3
  <2> QED
    BY <2>3, <2>4, <2>5
<1>3. ASSUME NEW r \in Runs, RequestCancel(r) PROVE Goal
  BY <1>0, <1>3, <1>a DEF RequestCancel, TypeOK
<1>4. ASSUME NEW r \in Runs, Redrive(r) PROVE Goal
  BY <1>0, <1>4, <1>a DEF Redrive, TypeOK
<1>5. ASSUME NEW w \in Workers, ClaimRun(w) PROVE Goal
  <2>1. PICK r \in Runs :
          /\ SweptStatus[r] = "pending"
          /\ status'[q] = IF q = r THEN "running" ELSE SweptStatus[q]
    BY <1>5, <1>0, ClaimWrites DEF Claimable
  <2>2. UNCHANGED <<successor, origin>>
    BY <1>5 DEF ClaimRun
  <2>3. status[q] = "paused" => status'[q] = "paused"
    BY <1>0, <2>1, Sweep
  <2> QED
    BY <1>a, <2>2, <2>3
<1>6. ASSUME NEW w \in Workers, SweepOnly(w) PROVE Goal
  BY <1>0, <1>6, <1>a, Sweep DEF SweepOnly
<1>7. ASSUME NEW w \in Workers, CloseSteering(w) PROVE Goal
  BY <1>0, <1>7, <1>a DEF CloseSteering
<1>8. ASSUME NEW w \in Workers, NEW s \in Statuses, HandsBack(w, s) PROVE Goal
  BY <1>0, <1>8, <1>a DEF HandsBack, Release, Owns, TypeOK
<1>9. CASE TableStays
  BY <1>0, <1>9, <1>a DEF TableStays
<1> QED
  BY <1>1, <1>2, <1>3, <1>4, <1>5, <1>6, <1>7, <1>8, <1>9, Steps

-----------------------------------------------------------------------------
(* The parts of the invariant that relate workers to the table              *)

\* A step that leaves a worker's own state alone.
Still(v) == /\ pc'[v] = pc[v] /\ held'[v] = held[v]
            /\ heldAttempt'[v] = heldAttempt[v]
            /\ token'[v] = token[v] /\ intent'[v] = intent[v]
            /\ (v \in tripped' <=> v \in tripped)

\* A worker that finished a delivery, or died in it, keeps nothing of it.
Leaves(v) == /\ pc'[v] \in {"idle", "dead"} /\ held'[v] = 0
             /\ ~token'[v] /\ intent'[v] = "none"

\* What a step may be from the point of view of one worker.
LEMMA WorkerSteps ==
  ASSUME IndInv, [Next]_vars, NEW v \in Workers
  PROVE  \/ Still(v)
         \/ ClaimRun(v)
         \/ CloseSteering(v)
         \/ \E s \in Statuses : HandsBack(v, s)
         \/ TableStays /\ (Advances(v) \/ NoticeCancel(v) \/ TripToken(v))
         \/ TableStays /\ pc'[v] = "dead" /\ Leaves(v)
         \/ Abandon(v)
<1>0. TypeOK
  BY DEF IndInv
<1> USE DEF TypeOK, workerVars
<1>1. ASSUME NEW t \in Threads, NEW s \in Strategies, CreateRun(t, s) PROVE Still(v)
  BY <1>1 DEF CreateRun, Still
<1>2. ASSUME NEW r \in Runs, Resume(r) \/ RequestCancel(r) \/ Redrive(r)
      PROVE  Still(v)
  BY <1>2 DEF Resume, RequestCancel, Redrive, Still
<1>3. ASSUME NEW r \in Runs, OrphanLapses(r) \/ StalledLapses(r) PROVE Still(v)
  BY <1>3 DEF OrphanLapses, StalledLapses, Expire, Still
<1>4. ASSUME NEW w \in Mortal, Crash(w)
      PROVE  Still(v) \/ (TableStays /\ pc'[v] = "dead" /\ Leaves(v))
  <2>1. TableStays
    BY <1>4, QuietActions
  <2>2. CASE v = w
    BY <1>0, <1>4, <2>1, <2>2 DEF Crash, Leaves
  <2>3. CASE v # w
    BY <1>0, <1>4, <2>3 DEF Crash, Still
  <2> QED
    BY <2>2, <2>3
<1>5. ASSUME NEW w \in Mortal, Drain(w) PROVE Still(v)
  BY <1>5 DEF Drain, Still
<1>6. ASSUME NEW w \in Workers, Worker(w)
      PROVE  \/ ClaimRun(w) \/ CloseSteering(w)
             \/ \E s \in Statuses : HandsBack(w, s)
             \/ TableStays /\ (Advances(w) \/ NoticeCancel(w) \/ TripToken(w))
             \/ Abandon(w)
             \/ Still(v)
  <2>1. SweepOnly(w) \/ RenewLease(w) => Still(v)
    BY DEF SweepOnly, RenewLease, Still
  <2> QED
    BY <1>6, <2>1, OutcomesAreFenced, QuietActions
       DEF Worker, Progress, Advances
<1>7. ASSUME NEW w \in Workers, w # v,
             \/ ClaimRun(w) \/ CloseSteering(w)
             \/ \E s \in Statuses : HandsBack(w, s)
             \/ Advances(w) \/ NoticeCancel(w) \/ TripToken(w)
             \/ Abandon(w)
      PROVE  Still(v)
  <2>1. ClaimRun(w) => Still(v)
    BY <1>0, <1>7 DEF ClaimRun, Still
  <2>2. Done(w) => Still(v)
    <3>1. w # v
      BY <1>7
    <3>2. Done(w) => (v \in tripped' <=> v \in tripped)
      BY <3>1 DEF Done
    <3> QED
      BY <1>0, <3>1, <3>2 DEF Done, Still
  <2>3. CloseSteering(w) \/ Advances(w) => Still(v)
    BY <1>0, <1>7 DEF CloseSteering, Advances, GraphEnds, FlushDone, FlushGivesUp, At, Still
  <2>4. NoticeCancel(w) \/ TripToken(w) => Still(v)
    BY <1>0, <1>7 DEF NoticeCancel, TripToken, Still
  <2> QED
    BY <1>7, <2>1, <2>2, <2>3, <2>4 DEF HandsBack, Abandon
<1>8. CASE UNCHANGED vars
  BY <1>8 DEF vars, Still
<1> QED
  BY <1>1, <1>2, <1>3, <1>4, <1>5, <1>6, <1>7, <1>8 DEF Next, Client, Environment

\* What the others may do to a run that a worker still owns after the step:
\* a cancel request is all that can happen to it.
LEMMA OwnedRun ==
  ASSUME IndInv, [Next]_vars, NEW v \in Workers, NEW q \in Runs,
         Still(v), owner'[q] = v
  PROVE  /\ owner[q] = v
         /\ attempt'[q] = attempt[q] /\ closed'[q] = closed[q]
         /\ status[q] = "cancelling" => status'[q] = "cancelling"
<1> DEFINE Goal == /\ owner[q] = v
                   /\ attempt'[q] = attempt[q] /\ closed'[q] = closed[q]
                   /\ status[q] = "cancelling" => status'[q] = "cancelling"
<1>0. /\ TypeOK /\ UncreatedIsBlank /\ ActiveIffLeased
      /\ status[q] \in ACTIVE <=> owner[q] # NoWorker
      /\ v # NoWorker
  BY NamesAssumption DEF IndInv, ActiveIffLeased
<1> USE BoundsAssumption DEF ACTIVE
<1>1. ASSUME NEW t \in Threads, NEW s \in Strategies, CreateRun(t, s) PROVE Goal
  BY <1>0, <1>1 DEF CreateRun, UncreatedIsBlank, TypeOK, Runs
<1>2. ASSUME NEW r \in Runs, Resume(r) PROVE Goal
  BY <1>0, <1>2 DEF Resume, UncreatedIsBlank, TypeOK, Runs
<1>3. ASSUME NEW r \in Runs, RequestCancel(r) PROVE Goal
  BY <1>0, <1>3 DEF RequestCancel, TypeOK
<1>4. ASSUME NEW r \in Runs, Redrive(r) PROVE Goal
  BY <1>0, <1>4 DEF Redrive, TypeOK
<1>5. ASSUME NEW w \in Workers, ClaimRun(w) PROVE Goal
  <2>1. w # v
    BY <1>0, <1>5 DEF ClaimRun, Still, TypeOK
  <2>2. PICK r \in Runs :
          /\ status'[q] = IF q = r THEN "running" ELSE SweptStatus[q]
          /\ owner'[q] = IF q = r THEN w
                         ELSE IF q \in Recovered THEN NoWorker ELSE owner[q]
          /\ closed'[q] = (closed[q] /\ ~Lapsed(q, "running"))
          /\ attempt'[q] = IF q = r THEN attempt[r] + 1 ELSE attempt[q]
    BY <1>5, <1>0, ClaimWrites
  <2>3. q # r /\ q \notin Recovered
    BY <1>0, <2>1, <2>2
  <2>4. SweptStatus[q] = status[q] /\ ~Lapsed(q, "running")
    BY <1>0, <2>3, Sweep
  <2>5. closed'[q] = closed[q]
    BY <2>2, <2>4, <1>0 DEF TypeOK
  <2> QED
    BY <2>2, <2>3, <2>4, <2>5
<1>6. ASSUME NEW w \in Workers, SweepOnly(w) PROVE Goal
  <2>1. q \notin Recovered /\ owner[q] = v
    BY <1>0, <1>6 DEF SweepOnly
  <2>2. SweptStatus[q] = status[q] /\ ~Lapsed(q, "running")
    BY <1>0, <2>1, Sweep
  <2>3. closed'[q] = closed[q]
    BY <1>0, <1>6, <2>2 DEF SweepOnly, TypeOK
  <2> QED
    BY <1>6, <2>1, <2>2, <2>3 DEF SweepOnly
<1>7. ASSUME NEW w \in Workers, CloseSteering(w) PROVE Goal
  <2>1. w # v
    BY <1>0, <1>7 DEF CloseSteering, At, Still, TypeOK
  <2> QED
    BY <1>0, <1>7, <2>1 DEF CloseSteering, Owns, TypeOK
<1>8. ASSUME NEW w \in Workers, NEW s \in Statuses, HandsBack(w, s) PROVE Goal
  BY <1>0, <1>8 DEF HandsBack, Release, TypeOK
<1>9. CASE TableStays
  BY <1>9 DEF TableStays
<1> QED
  BY <1>1, <1>2, <1>3, <1>4, <1>5, <1>6, <1>7, <1>8, <1>9, Steps

\* A worker is busy exactly while it holds a run, and starts with its token
\* untripped.
LEMMA BusyStep == IndInv /\ [Next]_vars => BusyIffHolding'
<1> SUFFICES ASSUME IndInv, [Next]_vars, NEW v \in Workers
             PROVE  /\ (pc[v] \in {"idle", "dead"} <=> held[v] = 0)'
                    /\ (pc[v] = "idle" => ~token[v])'
  BY DEF BusyIffHolding
<1> DEFINE Goal == /\ (pc[v] \in {"idle", "dead"} <=> held[v] = 0)'
                   /\ (pc[v] = "idle" => ~token[v])'
<1>0. /\ TypeOK
      /\ pc[v] \in {"idle", "dead"} <=> held[v] = 0
      /\ pc[v] = "idle" => ~token[v]
  BY DEF IndInv, BusyIffHolding
<1>1. CASE Still(v)
  BY <1>0, <1>1 DEF Still
<1>2. CASE ClaimRun(v)
  BY <1>0, <1>2, ClaimWrites DEF ClaimRun, TypeOK, Runs
<1>3. CASE CloseSteering(v) \/ Advances(v)
  BY <1>0, <1>3
     DEF CloseSteering, Advances, GraphEnds, FlushDone, FlushGivesUp, At, TypeOK
<1>4. CASE (\E s \in Statuses : HandsBack(v, s)) \/ Abandon(v)
  BY <1>0, <1>4 DEF HandsBack, Abandon, Done, TypeOK
<1>5. CASE NoticeCancel(v) \/ TripToken(v)
  BY <1>0, <1>5 DEF NoticeCancel, TripToken, TypeOK
<1>6. CASE Leaves(v)
  BY <1>6 DEF Leaves
<1> QED
  BY <1>1, <1>2, <1>3, <1>4, <1>5, <1>6, WorkerSteps

\* The owner of a run keeps delivering the attempt it claimed.
LEMMA OwnerStep == IndInv /\ [Next]_vars => OwnerIsDelivering'
<1> SUFFICES ASSUME IndInv, [Next]_vars, NEW q \in Runs, NEW v \in Workers,
                    owner'[q] = v, pc'[v] # "dead"
             PROVE  held'[v] = q /\ heldAttempt'[v] = attempt'[q]
  BY DEF OwnerIsDelivering
<1> DEFINE Goal == held'[v] = q /\ heldAttempt'[v] = attempt'[q]
<1>0. /\ TypeOK /\ v # NoWorker
      /\ owner[q] = v /\ pc[v] # "dead" => held[v] = q /\ heldAttempt[v] = attempt[q]
      /\ pc[v] \in {"idle", "dead"} <=> held[v] = 0
  BY NamesAssumption DEF IndInv, OwnerIsDelivering, BusyIffHolding
<1>1. CASE Still(v)
  BY <1>0, <1>1, OwnedRun DEF Still
<1>2. CASE ClaimRun(v)
  <2>1. PICK r \in Runs :
          /\ owner'[q] = IF q = r THEN v
                         ELSE IF q \in Recovered THEN NoWorker ELSE owner[q]
          /\ attempt'[q] = IF q = r THEN attempt[r] + 1 ELSE attempt[q]
          /\ held' = [held EXCEPT ![v] = r]
          /\ heldAttempt' = [heldAttempt EXCEPT ![v] = attempt[r] + 1]
    BY <1>0, <1>2, ClaimWrites
  <2>2. pc[v] = "idle"
    BY <1>2 DEF ClaimRun
  <2>3. q = r
    BY <1>0, <2>1, <2>2 DEF TypeOK, Runs
  <2> QED
    BY <1>0, <2>1, <2>3 DEF TypeOK
<1>3. CASE CloseSteering(v) \/ Advances(v)
  BY <1>0, <1>3
     DEF CloseSteering, Advances, GraphEnds, FlushDone, FlushGivesUp, At,
         runVars, TypeOK
<1>4. CASE \E s \in Statuses : HandsBack(v, s)
  <2>1. /\ owner' = [owner EXCEPT ![held[v]] = NoWorker]
        /\ owner[held[v]] = v /\ pc[v] # "dead"
    BY <1>0, <1>4 DEF HandsBack, Release, Owns
  <2> QED
    BY <1>0, <2>1 DEF TypeOK
<1>5. CASE NoticeCancel(v) \/ TripToken(v)
  BY <1>0, <1>5 DEF NoticeCancel, TripToken, runVars
<1>6. CASE pc'[v] = "dead"
  BY <1>6
<1>7. CASE Abandon(v)
  <2>1. owner[q] = v /\ pc[v] # "dead" /\ status[q] \in ACTIVE
    BY <1>0, <1>7 DEF Abandon, runVars, IndInv, ActiveIffLeased
  <2>2. Owns(v)
    BY <1>0, <2>1 DEF Owns, TypeOK, Runs
  <2> QED
    BY <1>7, <2>2 DEF Abandon
<1> QED
  BY <1>1, <1>2, <1>3, <1>4, <1>5, <1>6, <1>7, WorkerSteps

\* Passing the fence after a step means having passed it before, for a worker
\* that did not claim in this step.
LEMMA FenceKept ==
  ASSUME IndInv, [Next]_vars, NEW v \in Workers, Still(v), Owns(v)'
  PROVE  /\ Owns(v)
         /\ closed'[held[v]] = closed[held[v]]
         /\ status[held[v]] = "cancelling" => status'[held[v]] = "cancelling"
<1>1. held[v] \in Runs /\ owner'[held[v]] = v
  BY BoundsAssumption DEF IndInv, TypeOK, Runs, Owns, Still
<1>2. /\ owner[held[v]] = v /\ attempt'[held[v]] = attempt[held[v]]
      /\ closed'[held[v]] = closed[held[v]]
      /\ status[held[v]] = "cancelling" => status'[held[v]] = "cancelling"
  BY <1>1, OwnedRun
<1>3. status[held[v]] \in ACTIVE
  BY <1>1, <1>2, NamesAssumption DEF IndInv, ActiveIffLeased
<1> QED
  BY <1>1, <1>2, <1>3 DEF Owns, Still

\* The steering gate of a run is shut only behind a finalizing delivery.
LEMMA GateStep == IndInv /\ [Next]_vars => GateShutByFinalizer'
<1> SUFFICES ASSUME IndInv, [Next]_vars PROVE GateShutByFinalizer'
  OBVIOUS
<1>0. TypeOK /\ UncreatedIsBlank /\ GateShutByFinalizer /\ BusyIffHolding
  BY DEF IndInv
<1> USE BoundsAssumption
<1> DEFINE Waiting == {"absent", "pending", "paused"}
<1>1. ASSUME NEW q \in Runs, status'[q] \in Waiting PROVE ~closed'[q]
  <2>0. status[q] \in Waiting => ~closed[q]
    BY <1>0 DEF GateShutByFinalizer
  <2>1. ASSUME NEW t \in Threads, NEW s \in Strategies, CreateRun(t, s)
        PROVE  ~closed'[q]
    BY <1>0, <1>1, <2>0, <2>1 DEF CreateRun, UncreatedIsBlank, TypeOK, Runs
  <2>2. ASSUME NEW r \in Runs, Resume(r) PROVE ~closed'[q]
    BY <1>0, <1>1, <2>0, <2>2 DEF Resume, UncreatedIsBlank, TypeOK, Runs
  <2>3. ASSUME NEW r \in Runs, RequestCancel(r) PROVE ~closed'[q]
    BY <1>0, <1>1, <2>0, <2>3 DEF RequestCancel, TypeOK
  <2>4. ASSUME NEW r \in Runs, Redrive(r) PROVE ~closed'[q]
    BY <1>0, <1>1, <2>0, <2>4 DEF Redrive, TypeOK
  <2>5. ASSUME NEW w \in Workers, ClaimRun(w) PROVE ~closed'[q]
    <3>1. PICK r \in Runs :
            /\ status'[q] = IF q = r THEN "running" ELSE SweptStatus[q]
            /\ closed'[q] = (closed[q] /\ ~Lapsed(q, "running"))
      BY <1>0, <2>5, ClaimWrites
    <3>2. q \in Recovered /\ status[q] # "running" => SweptStatus[q] = "cancelled"
      BY <1>0, Sweep
    <3>3. q \notin Recovered => SweptStatus[q] = status[q]
      BY <1>0, Sweep
    <3> QED
      BY <1>0, <1>1, <2>0, <3>1, <3>2, <3>3, Sweep
  <2>6. ASSUME NEW w \in Workers, SweepOnly(w) PROVE ~closed'[q]
    BY <1>0, <1>1, <2>0, <2>6, Sweep DEF SweepOnly
  <2>7. ASSUME NEW w \in Workers, CloseSteering(w) PROVE ~closed'[q]
    BY <1>0, <1>1, <2>0, <2>7 DEF CloseSteering, Owns, ACTIVE, TypeOK
  <2>8. ASSUME NEW w \in Workers, NEW s \in Statuses, HandsBack(w, s)
        PROVE  ~closed'[q]
    <3>1. /\ status' = [status EXCEPT ![held[w]] = s]
          /\ s \in TERMINAL \cup {"paused", "pending"}
          /\ s \in {"paused", "pending"} => ~closed'[held[w]]
          /\ \/ closed' = closed
             \/ closed' = [closed EXCEPT
                             ![held[w]] = @ /\ status[held[w]] = "cancelling"]
      BY <2>8 DEF HandsBack, Release
    <3>2. CASE q = held[w]
      BY <1>0, <1>1, <3>1, <3>2 DEF TypeOK, TERMINAL
    <3>3. CASE q # held[w]
      BY <1>0, <1>1, <2>0, <3>1, <3>3 DEF TypeOK
    <3> QED
      BY <3>2, <3>3
  <2>9. CASE TableStays
    BY <1>1, <2>0, <2>9 DEF TableStays
  <2> QED
    BY <2>1, <2>2, <2>3, <2>4, <2>5, <2>6, <2>7, <2>8, <2>9, Steps
<1>2. ASSUME NEW v \in Workers
      PROVE  /\ (pc[v] = "closing" => Closing(intent[v]))'
             /\ (Owns(v) /\ closed[held[v]]
                 => /\ pc[v] \in {"flushing", "committing", "bailing"}
                    /\ Closing(intent[v]))'
  <2> DEFINE Goal ==
        /\ (pc[v] = "closing" => Closing(intent[v]))'
        /\ (Owns(v) /\ closed[held[v]]
            => /\ pc[v] \in {"flushing", "committing", "bailing"}
               /\ Closing(intent[v]))'
  <2>0. /\ pc[v] = "closing" => Closing(intent[v])
        /\ Owns(v) /\ closed[held[v]]
           => pc[v] \in {"flushing", "committing", "bailing"} /\ Closing(intent[v])
    BY <1>0 DEF GateShutByFinalizer
  <2>1. CASE Still(v)
    BY <2>0, <2>1, FenceKept DEF Still, Closing
  <2>2. CASE ClaimRun(v)
    <3>1. PICK r \in Runs :
            /\ Claimable(r)
            /\ closed'[r] = (closed[r] /\ ~Lapsed(r, "running"))
            /\ held' = [held EXCEPT ![v] = r]
      BY <1>0, <2>2, ClaimWrites
    <3>2. SweptStatus[r] = "pending"
      BY <3>1 DEF Claimable
    <3>3. status[r] = "pending" \/ Lapsed(r, "running")
      BY <1>0, <3>2, Sweep
    <3>4. ~closed'[r]
      BY <1>0, <3>1, <3>3 DEF GateShutByFinalizer
    <3> QED
      BY <1>0, <2>2, <3>1, <3>4 DEF ClaimRun, TypeOK
  <2>3. CASE CloseSteering(v)
    BY <1>0, <2>0, <2>3 DEF CloseSteering, At, Closing, TypeOK
  <2>4. CASE Advances(v)
    <3>1. Owns(v)' /\ closed'[held'[v]] => Owns(v) /\ closed[held[v]]
      BY <2>4 DEF Advances, GraphEnds, FlushDone, FlushGivesUp, At, runVars, Owns
    <3>2. CASE GraphEnds(v)
      BY <1>0, <2>0, <3>1, <3>2 DEF GraphEnds, At, Closing, TypeOK
    <3>3. CASE FlushDone(v) \/ FlushGivesUp(v)
      BY <1>0, <2>0, <3>1, <3>3 DEF FlushDone, FlushGivesUp, At, Closing, TypeOK
    <3> QED
      BY <2>4, <3>2, <3>3 DEF Advances
  <2>5. CASE (\E s \in Statuses : HandsBack(v, s)) \/ Abandon(v)
    BY <1>0, <2>5 DEF HandsBack, Abandon, Done, Owns, TypeOK
  <2>6. CASE NoticeCancel(v) \/ TripToken(v)
    BY <1>0, <2>0, <2>6 DEF NoticeCancel, TripToken, runVars, Owns, Closing
  <2>7. CASE Leaves(v)
    BY <2>7 DEF Leaves, Owns
  <2> QED
    BY <2>1, <2>2, <2>3, <2>4, <2>5, <2>6, <2>7, WorkerSteps
<1> QED
  BY <1>1, <1>2 DEF GateShutByFinalizer

\* The token of an owner is tripped by a cancel request, which the run cannot
\* lose any more.
LEMMA TokenStep == IndInv /\ [Next]_vars => TokenMeansCancel'
<1> SUFFICES ASSUME IndInv, [Next]_vars, NEW v \in Workers
             PROVE  /\ (intent[v] = "cancelled" => token[v])'
                    /\ (Owns(v) /\ token[v]
                        => status[held[v]] = "cancelling" \/ v \in tripped)'
  BY DEF TokenMeansCancel
<1> DEFINE Goal == /\ (intent[v] = "cancelled" => token[v])'
                   /\ (Owns(v) /\ token[v]
                       => status[held[v]] = "cancelling" \/ v \in tripped)'
<1>0. /\ TypeOK /\ BusyIffHolding
      /\ intent[v] = "cancelled" => token[v]
      /\ Owns(v) /\ token[v] => status[held[v]] = "cancelling" \/ v \in tripped
  BY DEF IndInv, TokenMeansCancel
<1>1. CASE Still(v)
  BY <1>0, <1>1, FenceKept DEF Still
<1>2. CASE ClaimRun(v)
  BY <1>0, <1>2 DEF ClaimRun, BusyIffHolding
<1>3. CASE CloseSteering(v)
  BY <1>0, <1>3 DEF CloseSteering, At, Owns
<1>4. CASE Advances(v)
  <2>1. Owns(v)' => Owns(v) /\ status'[held'[v]] = status[held[v]]
    BY <1>4 DEF Advances, GraphEnds, FlushDone, FlushGivesUp, At, runVars, Owns
  <2>2. token' = token /\ held' = held /\ tripped' = tripped
    BY <1>4 DEF Advances, GraphEnds, FlushDone, FlushGivesUp, At
  <2>3. intent'[v] = "cancelled" => token[v]
    BY <1>0, <1>4, NamesAssumption
       DEF Advances, GraphEnds, FlushDone, FlushGivesUp, Endings, TypeOK
  <2> QED
    BY <1>0, <2>1, <2>2, <2>3
<1>5. CASE (\E s \in Statuses : HandsBack(v, s)) \/ Abandon(v)
  BY <1>0, <1>5 DEF HandsBack, Abandon, Done, Owns, TypeOK
<1>6. CASE NoticeCancel(v)
  BY <1>0, <1>6 DEF NoticeCancel, runVars, Owns, Beats, ACTIVE, TypeOK
<1>7. CASE TripToken(v)
  BY <1>0, <1>7 DEF TripToken, TypeOK
<1>8. CASE Leaves(v)
  BY <1>8 DEF Leaves
<1> QED
  BY <1>1, <1>2, <1>3, <1>4, <1>5, <1>6, <1>7, <1>8, WorkerSteps

-----------------------------------------------------------------------------
(* The theorems                                                             *)

\* The initial table is empty and no worker has started.
LEMMA InitInv == Init => IndInv
<1> SUFFICES ASSUME Init PROVE IndInv
  OBVIOUS
<1> USE BoundsAssumption, NamesAssumption DEF Init, Runs
<1>1. TypeOK
  BY DEF TypeOK, Statuses, ACTIVE, TERMINAL, Intents, Phases
<1>2. UncreatedIsBlank /\ BusyIffHolding
  BY DEF UncreatedIsBlank, BusyIffHolding
<1>3. OneActivePerThread /\ ActiveIffLeased /\ OwnerIsDelivering
  BY DEF OneActivePerThread, ActiveIffLeased, OwnerIsDelivering, ACTIVE
<1>4. GateShutByFinalizer /\ TokenMeansCancel /\ CancelTracked /\ LineageIsMutual
  BY DEF GateShutByFinalizer, TokenMeansCancel, CancelTracked, LineageIsMutual, Owns
<1> QED
  BY <1>1, <1>2, <1>3, <1>4 DEF IndInv

\* Every step of clients, workers, clock and crashes preserves the invariant.
LEMMA InvStep == IndInv /\ [Next]_vars => IndInv'
BY TypeStep, BlankStep, BusyStep, ThreadStep, LeaseStep, OwnerStep, GateStep,
   TokenStep, CancelStep, LineageStep DEF IndInv

\* The invariant holds in every reachable state of the run queue.
THEOREM Invariance == Spec => []IndInv
BY InitInv, InvStep, PTL DEF Spec, SafetySpec

\* No two runs of a thread are ever executed at the same time, for any number
\* of runs, workers and threads and under any loss of leases.
THEOREM ThreadExclusion == Spec => []OneActivePerThread
<1>1. IndInv => OneActivePerThread
  BY DEF IndInv
<1>2. QED
  BY <1>1, Invariance, PTL

\* An active run always has the lease by which it can be recovered, and no
\* other run has one.
THEOREM LeaseDiscipline == Spec => []ActiveIffLeased
<1>1. IndInv => ActiveIffLeased
  BY DEF IndInv
<1>2. QED
  BY <1>1, Invariance, PTL

\* Whoever waits, is parked or executes admits steering.
THEOREM GateDiscipline == Spec => []GateOpenWhileDeliverable
<1>1. IndInv => GateOpenWhileDeliverable
  BY DEF IndInv, GateShutByFinalizer, GateOpenWhileDeliverable
<1>2. QED
  BY <1>1, Invariance, PTL

\* A paused run is never continued twice.
THEOREM SingleContinuation == Spec => []OneContinuation
<1>1. ASSUME IndInv PROVE OneContinuation
  <2>1. ASSUME NEW q \in Runs, NEW p \in Runs, origin[q] # 0, origin[q] = origin[p]
        PROVE  q = p
    BY <1>1, <2>1 DEF IndInv, LineageIsMutual
  <2> QED
    BY <1>1, <2>1 DEF OneContinuation, IndInv, LineageIsMutual
<1>2. QED
  BY <1>1, Invariance, PTL

\* A run ends cancelled on request, or because the graph of the delivery that
\* owns it tripped the token: no crash, lapse, sweep or late outcome makes a run
\* cancelled.
LEMMA CancelHasAReason ==
  ASSUME IndInv, [Next]_vars, NEW q \in Runs,
         status[q] # "cancelled", status'[q] = "cancelled"
  PROVE  q \in asked' \/ Tripped(q)
<1> DEFINE Goal == q \in asked' \/ Tripped(q)
<1>0. /\ TypeOK /\ UncreatedIsBlank
      /\ status[q] = "cancelling" => q \in asked
  BY DEF IndInv, CancelTracked
<1> USE BoundsAssumption, NamesAssumption DEF ACTIVE
<1>1. ASSUME NEW t \in Threads, NEW s \in Strategies, CreateRun(t, s) PROVE Goal
  BY <1>0, <1>1 DEF CreateRun, ActiveOn, ActiveRuns, UncreatedIsBlank, TypeOK, Runs
<1>2. ASSUME NEW r \in Runs, Resume(r) PROVE Goal
  BY <1>0, <1>2 DEF Resume, UncreatedIsBlank, TypeOK, Runs
<1>3. ASSUME NEW r \in Runs, RequestCancel(r) PROVE Goal
  BY <1>0, <1>3 DEF RequestCancel, TypeOK
<1>4. ASSUME NEW r \in Runs, Redrive(r) PROVE Goal
  BY <1>0, <1>4 DEF Redrive, TypeOK
<1>5. ASSUME NEW w \in Workers, ClaimRun(w) PROVE Goal
  <2>1. PICK r \in Runs :
          /\ SweptStatus[r] = "pending"
          /\ status'[q] = IF q = r THEN "running" ELSE SweptStatus[q]
    BY <1>5, <1>0, ClaimWrites DEF Claimable
  <2>2. asked' = asked
    BY <1>5 DEF ClaimRun
  <2> QED
    BY <1>0, <2>1, <2>2, Sweep
<1>6. ASSUME NEW w \in Workers, SweepOnly(w) PROVE Goal
  BY <1>0, <1>6, Sweep DEF SweepOnly
<1>7. ASSUME NEW w \in Workers, CloseSteering(w) PROVE Goal
  BY <1>0, <1>7 DEF CloseSteering
<1>8. ASSUME NEW w \in Workers, NEW s \in Statuses, HandsBack(w, s) PROVE Goal
  <2>1. /\ Owns(w) /\ asked' = asked
        /\ status' = [status EXCEPT ![held[w]] = s]
        /\ s = "cancelled" => token[w] \/ status[held[w]] = "cancelling"
    BY <1>8 DEF IndInv, HandsBack, Release, TokenMeansCancel
  <2>2. held[w] = q /\ s = "cancelled"
    BY <1>0, <2>1 DEF TypeOK
  <2>3. status[q] = "cancelling" \/ w \in tripped
    BY <2>1, <2>2 DEF IndInv, TokenMeansCancel
  <2> QED
    BY <1>0, <2>1, <2>2, <2>3 DEF Tripped
<1>9. CASE TableStays
  BY <1>0, <1>9 DEF TableStays
<1> QED
  BY <1>1, <1>2, <1>3, <1>4, <1>5, <1>6, <1>7, <1>8, <1>9, Steps

\* The same of every behaviour.
THEOREM CancelledOnRequest == Spec => CancelledForAReason
<1>1. IndInv /\ [Next]_vars =>
        [\A r \in Runs :
           status[r] # "cancelled" /\ status'[r] = "cancelled"
             => r \in asked' \/ Tripped(r)]_vars
  BY CancelHasAReason
<1>2. QED
  BY <1>1, Invariance, PTL DEF CancelledForAReason, Spec, SafetySpec

\* No step gives a delivery back the run it lost: the fence compares the owner,
\* and a worker holds a run for as long as it owns one.
LEMMA LostLease ==
  ASSUME IndInv, [Next]_vars, NEW v \in Workers,
         held[v] # 0, held'[v] = held[v], ~Owns(v)
  PROVE  ~Owns(v)'
<1>1. TypeOK /\ BusyIffHolding
  BY DEF IndInv
<1>2. CASE Still(v)
  BY <1>2, FenceKept
<1>3. CASE ClaimRun(v)
  BY <1>1, <1>3 DEF ClaimRun, BusyIffHolding
<1>4. CASE CloseSteering(v)
  BY <1>4 DEF CloseSteering
<1>5. CASE Advances(v) \/ NoticeCancel(v) \/ TripToken(v)
  BY <1>5
     DEF Advances, GraphEnds, FlushDone, FlushGivesUp, At, NoticeCancel,
         TripToken, runVars, Owns
<1>6. CASE (\E s \in Statuses : HandsBack(v, s)) \/ Abandon(v)
  BY <1>1, <1>6 DEF HandsBack, Abandon, Done, TypeOK
<1>7. CASE Leaves(v)
  BY <1>7 DEF Leaves
<1> QED
  BY <1>2, <1>3, <1>4, <1>5, <1>6, <1>7, WorkerSteps

\* A delivery that lost the fence stays fenced off until it ends.
THEOREM LostLeaseIsFinal == Spec => LostLeaseStaysLost
<1>1. IndInv /\ [Next]_vars =>
        [\A w \in Workers :
           held[w] # 0 /\ held'[w] = held[w] /\ ~Owns(w) => ~Owns(w)']_vars
  BY LostLease
<1>2. QED
  BY <1>1, Invariance, PTL DEF LostLeaseStaysLost, Spec, SafetySpec

\* Each run moves only as the client-visible contract allows, whatever the
\* workers, leases and retries behind it do.
THEOREM Refinement == Spec => ImplementsContract
<1> USE BoundsAssumption, NamesAssumption
<1>1. Init => Contract!Init
  BY DEF Init, Contract!Init
<1>2. ASSUME IndInv, [Next]_vars PROVE [Contract!Next]_(Contract!vars)
  <2>0. TypeOK' /\ TypeOK /\ UncreatedIsBlank /\ CancelTracked /\ LineageIsMutual
    BY <1>2, TypeStep DEF IndInv
  <2> DEFINE Moved(r) ==
        \/ Contract!Stays(r) \/ Contract!Submitted(r) \/ Contract!Started(r)
        \/ Contract!Requeued(r) \/ Contract!Left(r) \/ Contract!Redriven(r)
        \/ Contract!CancelDone(r) \/ Contract!Asked(r)
  <2>1. ASSUME NEW q \in Runs PROVE Moved(q)
    <3> USE <2>0 DEF Contract!Stays, Contract!Submitted, Contract!Started,
              Contract!Requeued, Contract!Left, Contract!Redriven,
              Contract!CancelDone, Contract!Asked, Contract!Moves,
              Contract!Ended, ACTIVE
    <3>1. ASSUME NEW t \in Threads, NEW s \in Strategies, CreateRun(t, s)
          PROVE  Moved(q)
      BY <3>1 DEF CreateRun, ActiveOn, ActiveRuns, UncreatedIsBlank,
                  CancelTracked, TypeOK, Runs
    <3>2. ASSUME NEW r \in Runs, Resume(r) PROVE Moved(q)
      BY <3>2 DEF Resume, UncreatedIsBlank, TypeOK, Runs
    <3>3. ASSUME NEW r \in Runs, RequestCancel(r) PROVE Moved(q)
      BY <3>3 DEF RequestCancel, CancelTracked, TypeOK
    <3>4. ASSUME NEW r \in Runs, Redrive(r) PROVE Moved(q)
      BY <3>4 DEF Redrive, TypeOK
    <3>5. ASSUME NEW w \in Workers, ClaimRun(w) PROVE Moved(q)
      <4>1. PICK r \in Runs :
              /\ Claimable(r)
              /\ status'[q] = IF q = r THEN "running" ELSE SweptStatus[q]
        BY <3>5, ClaimWrites
      <4>2. asked' = asked /\ SweptStatus[r] = "pending"
        BY <3>5, <4>1 DEF ClaimRun, Claimable
      <4> QED
        BY <4>1, <4>2, Sweep
    <3>6. ASSUME NEW w \in Workers, SweepOnly(w) PROVE Moved(q)
      BY <3>6, Sweep DEF SweepOnly
    <3>7. ASSUME NEW w \in Workers, CloseSteering(w) PROVE Moved(q)
      BY <3>7 DEF CloseSteering
    <3>8. ASSUME NEW w \in Workers, NEW s \in Statuses, HandsBack(w, s)
          PROVE  Moved(q)
      <4>1. /\ status' = [status EXCEPT ![held[w]] = s]
            /\ asked' = asked
            /\ s \in TERMINAL \cup {"paused", "pending"}
            /\ status[held[w]] \in ACTIVE
            /\ status[held[w]] = "cancelling" => s = "cancelled"
        BY <3>8 DEF HandsBack, Release, Owns
      <4> QED
        BY <4>1 DEF TypeOK, TERMINAL
    <3>9. CASE TableStays
      BY <3>9 DEF TableStays
    <3> QED
      BY <1>2, <3>1, <3>2, <3>3, <3>4, <3>5, <3>6, <3>7, <3>8, <3>9, Steps
  <2>2. status' \in [Runs -> Contract!Statuses] /\ asked' \in SUBSET Runs
    BY <2>0 DEF TypeOK, Statuses, ACTIVE, TERMINAL, Contract!Statuses,
                Contract!Open, Contract!Ended
  <2> QED
    BY <2>1, <2>2 DEF Contract!Next
<1>3. QED
  BY <1>1, <1>2, Invariance, PTL
     DEF ImplementsContract, Contract!Spec, Spec, SafetySpec

-----------------------------------------------------------------------------
(* What the operators on inboxes and events return                          *)

Rows  == [key : Keys, state : RowStates, source : Runs \X Indices]
Kinds == {"accepted", "consumed", "superseded"}

\* A row with another state.
As(row, s) == [row EXCEPT !.state = s]

LEMMA AsKeeps ==
  ASSUME NEW row \in Rows, NEW s \in RowStates
  PROVE  /\ As(row, s) \in Rows
         /\ As(row, s).state = s
         /\ As(row, s).source = row.source /\ As(row, s).key = row.key
BY DEF As, Rows

\* The rows of an inbox are finitely many, and numbered.
LEMMA RowsAreFinite ==
  ASSUME NEW rows \in SUBSET Indices
  PROVE  /\ IsFiniteSet(rows) /\ rows \in SUBSET Nat
         /\ Cardinality(rows) \in Nat /\ Cardinality(rows) <= MaxRows
<1> USE SteeringAssumption DEF Indices
<1>0. IsFiniteSet(Indices) /\ Cardinality(Indices) = MaxRows
  BY FS_Interval
<1>1. IsFiniteSet(Indices) /\ Cardinality(Indices) = MaxRows /\ rows \in SUBSET Nat
  BY <1>0
<1>2. IsFiniteSet(rows) /\ Cardinality(rows) <= Cardinality(Indices)
  BY <1>1, FS_Subset
<1>3. Cardinality(rows) \in Nat
  BY <1>2, FS_CardinalityType
<1> QED
  BY <1>1, <1>2, <1>3

\* Rows in order: a sequence of them, increasing, that leaves none out.
LEMMA InOrderOfRows ==
  ASSUME NEW rows \in SUBSET Indices
  PROVE  /\ InOrder(rows) \in Seq(Indices)
         /\ Len(InOrder(rows)) = Cardinality(rows)
         /\ DOMAIN InOrder(rows) = 1 .. Cardinality(rows)
         /\ \A n \in 1 .. Cardinality(rows) : InOrder(rows)[n] \in rows
         /\ \A x \in rows : \E n \in 1 .. Cardinality(rows) : InOrder(rows)[n] = x
         /\ \A m, n \in 1 .. Cardinality(rows) :
              m < n => InOrder(rows)[m] < InOrder(rows)[n]
         /\ \A m, n \in 1 .. Cardinality(rows) :
              InOrder(rows)[m] = InOrder(rows)[n] => m = n
<1> DEFINE q == InOrder(rows)
           c == Cardinality(rows)
<1>1. Sorted(q, c, rows) /\ c \in Nat /\ rows \in SUBSET Nat
  BY RowsAreFinite, InOrderIsSorted
<1> HIDE DEF q, c
<1>2. q \in [1 .. c -> Indices] /\ q \in [1 .. c -> rows]
  BY <1>1 DEF Sorted
<1>3. q \in Seq(Indices) /\ Len(q) = c /\ DOMAIN q = 1 .. c
  BY <1>1, <1>2, FcnIsSeq
<1>4. ASSUME NEW m \in 1 .. c, NEW n \in 1 .. c, q[m] = q[n] PROVE m = n
  <2>1. q[m] \in Nat /\ q[n] \in Nat
    <3>1. \A x \in rows : x \in Nat
      BY <1>1
    <3> QED
      BY <1>2, <3>1
  <2>0. m \in Int /\ n \in Int
    BY <1>1
  <2>2. ~(m < n) /\ ~(n < m)
    BY <1>1, <1>4, <2>1 DEF Sorted
  <2> QED
    BY <2>0, <2>2
<1>5. /\ \A x \in rows : \E n \in 1 .. c : q[n] = x
      /\ \A m, n \in 1 .. c : m < n => q[m] < q[n]
  BY <1>1 DEF Sorted
<1> QED
  BY <1>2, <1>3, <1>4, <1>5 DEF q, c

\* One event of the kind for each of the rows.
LEMMA Announced ==
  ASSUME NEW rows \in SUBSET Indices, NEW kind \in Kinds
  PROVE  /\ Announce(kind, rows) \in Seq(Notices)
         /\ Len(Announce(kind, rows)) = Cardinality(rows)
         /\ \A n \in 1 .. Cardinality(rows) :
              Announce(kind, rows)[n] = [kind |-> kind, row |-> InOrder(rows)[n]]
<1> DEFINE order == InOrder(rows)
           c == Cardinality(rows)
           news == [n \in 1 .. c |-> [kind |-> kind, row |-> order[n]]]
<1>1. /\ DOMAIN order = 1 .. c /\ c \in Nat
      /\ \A n \in 1 .. c : order[n] \in Indices
  BY RowsAreFinite, InOrderOfRows
<1>2. Announce(kind, rows) = news
  BY <1>1 DEF Announce
<1> HIDE DEF order, c
<1>3. news \in [1 .. c -> Notices]
  BY <1>1 DEF Notices, Kinds
<1>4. news \in Seq(Notices) /\ Len(news) = c
  <2> HIDE DEF news
  <2> QED
    BY <1>1, <1>3, FcnIsSeq
<1> QED
  BY <1>2, <1>4 DEF order, c

\* Marking rows changes their state and nothing else.
LEMMA MarkedRows ==
  ASSUME SteeringTypeOK, NEW r \in Runs, NEW rows, NEW s \in RowStates
  PROVE  /\ Marked(r, rows, s) \in Seq(Rows)
         /\ Len(Marked(r, rows, s)) = Len(inbox[r])
         /\ \A i \in DOMAIN inbox[r] :
              Marked(r, rows, s)[i] =
                IF i \in rows THEN As(inbox[r][i], s)
                ELSE inbox[r][i]
<1> DEFINE n == Len(inbox[r])
           new == [i \in 1 .. n |-> IF i \in rows
                                    THEN As(inbox[r][i], s)
                                    ELSE inbox[r][i]]
<1>1. inbox[r] \in Seq(Rows)
  BY DEF SteeringTypeOK, Rows
<1>2. n \in Nat /\ DOMAIN inbox[r] = 1 .. n /\ \A i \in 1 .. n : inbox[r][i] \in Rows
  BY <1>1, LenProperties
<1>3. Marked(r, rows, s) = new
  BY <1>2 DEF Marked, As
<1> HIDE DEF n
<1>4. new \in [1 .. n -> Rows]
  BY <1>2, AsKeeps
<1>5. new \in Seq(Rows) /\ Len(new) = n
  <2> HIDE DEF new
  <2> QED
    BY <1>2, <1>4, FcnIsSeq
<1> QED
  BY <1>2, <1>3, <1>5 DEF n

-----------------------------------------------------------------------------
(* Steering refines the run queue                                           *)

\* Every step with inboxes and channels is a step of the queue without them.
LEMMA QueueSteps == [SteeringNext]_allVars => [Next]_vars
<1> SUFFICES ASSUME [SteeringNext]_allVars PROVE [Next]_vars
  OBVIOUS
<1>1. CASE Elsewhere
  BY <1>1 DEF Elsewhere, Next, Client, Environment
<1>2. ASSUME NEW r \in Runs, NEW k \in Keys, Submit(r, k) PROVE UNCHANGED vars
  BY <1>2 DEF Submit
<1>3. ASSUME NEW r \in Runs, ResumeWithSteering(r) PROVE Next
  BY <1>3 DEF ResumeWithSteering, Next, Client
<1>4. ASSUME NEW w \in Mortal, CrashWithChannel(w) PROVE Next
  BY <1>4 DEF CrashWithChannel, Next, Environment
<1>5. ASSUME NEW w \in Workers, SteeringWorker(w) PROVE Worker(w) \/ UNCHANGED vars
  BY <1>5
     DEF SteeringWorker, SteeringProgress, Claim, ReadInbox, Ingest, CommitBatch,
         CommitBatchFails, HeartbeatDies, Renew, Notice, DrainSteering, LateCommit,
         Settle, Close, Flush, FlushAgain, GiveUp, Finalize, LeaveRows,
         Worker, Progress
<1>6. CASE UNCHANGED allVars
  BY <1>6 DEF allVars
<1> QED
  BY <1>1, <1>2, <1>3, <1>4, <1>5, <1>6 DEF SteeringNext, Next

-----------------------------------------------------------------------------
(* What a step does to the inboxes                                          *)

\* Rows of an inbox get a disposition, and the log tells of each.
Disposes(r, rows, s) ==
  /\ inbox' = [inbox EXCEPT ![r] = Marked(r, rows, s)]
  /\ told' = [told EXCEPT ![r] = @ \o Announce(s, rows)]

Ended == {"succeeded", "failed", "timed_out"}

\* No run ends by its own outcome, is created out of turn or is continued.
NoneEnds ==
  /\ created <= created' /\ successor' = successor
  /\ \A r \in Runs : status'[r] \in Ended => status[r] \in Ended

\* Inboxes and events stay as they are.
Quiet == UNCHANGED <<inbox, told>> /\ NoneEnds

\* A commit passes the fence: for what the graph drained in this delivery, or
\* for what a cancelled heartbeat left behind.
Fenced(w) ==
  \E r \in Runs, rows \in SUBSET Indices :
    /\ CommitRows(r, rows) /\ rows \subseteq DOMAIN inbox[r]
    /\ UNCHANGED runVars
    /\ \/ /\ Owns(w) /\ r = held[w] /\ rows \subseteq drained[w]
       \/ /\ late[w] # NoCommit /\ r = late[w].run /\ rows = late[w].rows
          /\ MayCommit(w, r, late[w].attempt) /\ late'[w] = NoCommit

\* The actions that leave the inboxes alone end no run by its own outcome.
LEMMA OnlyFinalizeEnds ==
  ASSUME IndInv
  PROVE  /\ \A t \in Threads, s \in Strategies : CreateRun(t, s) => NoneEnds
         /\ \A r \in Runs : RequestCancel(r) \/ Redrive(r) => NoneEnds
         /\ \A w \in Workers :
              \/ ClaimRun(w) \/ SweepOnly(w) \/ CloseSteering(w)
              \/ PauseRun(w) \/ RetryRun(w) \/ DeadLetter(w)
              => NoneEnds
         /\ TableStays => NoneEnds
<1>0. TypeOK /\ created \in Nat /\ created <= created
  BY BoundsAssumption DEF IndInv, TypeOK
<1> USE DEF NoneEnds, Ended
<1>1. ASSUME NEW t \in Threads, NEW s \in Strategies, CreateRun(t, s) PROVE NoneEnds
  BY <1>0, <1>1 DEF CreateRun
<1>2. ASSUME NEW r \in Runs, RequestCancel(r) PROVE NoneEnds
  BY <1>0, <1>2 DEF RequestCancel, TypeOK
<1>3. ASSUME NEW r \in Runs, Redrive(r) PROVE NoneEnds
  BY <1>0, <1>3 DEF Redrive, TypeOK
<1>4. ASSUME NEW w \in Workers, ClaimRun(w) PROVE NoneEnds
  <2>1. PICK r \in Runs :
          \A q \in Runs : status'[q] = IF q = r THEN "running" ELSE SweptStatus[q]
    BY <1>0, <1>4, ClaimWrites
  <2>2. \A q \in Runs : SweptStatus[q] \in Ended => status[q] \in Ended
    BY <1>0, Sweep
  <2> QED
    BY <1>0, <1>4, <2>1, <2>2 DEF ClaimRun
<1>5. ASSUME NEW w \in Workers, SweepOnly(w) PROVE NoneEnds
  BY <1>0, <1>5, Sweep DEF SweepOnly
<1>6. ASSUME NEW w \in Workers, CloseSteering(w) PROVE NoneEnds
  BY <1>0, <1>6 DEF CloseSteering
<1>7. ASSUME NEW w \in Workers, PauseRun(w) PROVE NoneEnds
  BY <1>0, <1>7 DEF PauseRun, FinishIfOwned, Release, CancelWins, TypeOK
<1>8. ASSUME NEW w \in Workers, RetryRun(w) PROVE NoneEnds
  BY <1>0, <1>8 DEF RetryRun, RetryIfOwned, Release, CancelWins, TypeOK
<1>9. ASSUME NEW w \in Workers, DeadLetter(w) PROVE NoneEnds
  BY <1>0, <1>9 DEF DeadLetter, FinishIfOwned, Release, CancelWins, TypeOK
<1>10. CASE TableStays
  BY <1>0, <1>10 DEF TableStays
<1> QED
  BY <1>1, <1>2, <1>3, <1>4, <1>5, <1>6, <1>7, <1>8, <1>9, <1>10

\* What a worker drained are rows of the run it holds.
LEMMA DrainedAreRows ==
  ASSUME ChannelInv, NEW w \in Workers, held[w] # 0
  PROVE  /\ held[w] \in Runs
         /\ Known(w) \cup snapshot[w] \subseteq DOMAIN inbox[held[w]]
         /\ drained[w] \subseteq ToSet(handed[w])
         /\ batch[w] \subseteq drained[w]
         /\ drained[w] \subseteq DOMAIN inbox[held[w]]
         /\ drained[w] \in SUBSET Indices /\ batch[w] \in SUBSET Indices
<1>1. held[w] \in Runs
  BY BoundsAssumption DEF ChannelInv, IndInv, TypeOK, Runs
<1>2. drained[w] \in SUBSET Indices /\ batch[w] \in SUBSET Indices
  BY DEF ChannelInv, SteeringTypeOK
<1> QED
  BY <1>1, <1>2 DEF ChannelInv, ChannelFits, Known

\* Every step leaves the inboxes alone, admits a row, moves rows to the run
\* that continues, disposes of what is left, or is a commit behind the fence.
LEMMA InboxSteps ==
  ASSUME ChannelInv, [SteeringNext]_allVars
  PROVE  \/ Quiet
         \/ \E r \in Runs, k \in Keys : Submit(r, k)
         \/ \E r \in Runs : ResumeWithSteering(r)
         \/ \E w \in Workers : Finalize(w)
         \/ \E w \in Workers : Fenced(w)
<1>0. IndInv
  BY DEF ChannelInv
<1> USE DEF Quiet
<1>1. CASE Elsewhere
  <2>1. NoneEnds
    BY <1>0, <1>1, OnlyFinalizeEnds, QuietActions DEF Elsewhere
  <2> QED
    BY <1>1, <2>1 DEF Elsewhere, steerVars
<1>2. ASSUME NEW w \in Mortal, CrashWithChannel(w) PROVE Quiet
  BY <1>0, <1>2, OnlyFinalizeEnds, QuietActions DEF CrashWithChannel
<1>3. ASSUME UNCHANGED <<vars, inbox, told>> PROVE Quiet
  BY <1>0, <1>3, OnlyFinalizeEnds, QuietActions
\* The commits a heartbeat or a flush makes for its own delivery.
<1>4. ASSUME NEW w \in Workers, MayCommit(w, held[w], heldAttempt[w]), held[w] # 0,
             NEW rows, rows \subseteq drained[w],
             CommitRows(held[w], rows), UNCHANGED runVars
      PROVE  Fenced(w)
  <2>1. Owns(w)
    BY <1>4 DEF MayCommit, Owns
  <2>2. held[w] \in Runs /\ rows \in SUBSET Indices /\ rows \subseteq DOMAIN inbox[held[w]]
    BY <1>4, DrainedAreRows
  <2> QED
    BY <1>4, <2>1, <2>2 DEF Fenced
<1>5. ASSUME NEW w \in Workers
      PROVE  pc[w] \in {"executing", "flushing"} \/ beat[w] # "off" => held[w] # 0
  BY DEF ChannelInv, IndInv, BusyIffHolding, BeatFits
<1>6. ASSUME NEW w \in Workers, SteeringProgress(w)
      PROVE  Quiet \/ Finalize(w) \/ Fenced(w)
  <2>1. CASE Claim(w) \/ (SweepOnly(w) /\ UNCHANGED steerVars)
    BY <1>0, <2>1, OnlyFinalizeEnds DEF Claim, steerVars
  <2>2. CASE ReadInbox(w) \/ Ingest(w)
    <3>1. UNCHANGED <<vars, inbox, told>>
      BY <2>2 DEF ReadInbox, Ingest
    <3> QED
      BY <1>3, <3>1
  <2>3. CASE Settle(w)
    BY <1>0, <2>3, OnlyFinalizeEnds, QuietActions DEF Settle, Advances
  <2>4. CASE Close(w)
    BY <1>0, <2>4, OnlyFinalizeEnds DEF Close, steerVars
  <2>5. CASE Flush(w)
    <3>1. NoneEnds /\ UNCHANGED runVars /\ held[w] # 0
      BY <1>0, <1>5, <2>5, OnlyFinalizeEnds, QuietActions
         DEF Flush, FlushDone, Advances, At
    <3> QED
      BY <1>4, <2>5, <3>1 DEF Flush
  <2>6. CASE FlushAgain(w)
    <3>1. NoneEnds /\ UNCHANGED runVars /\ held[w] # 0
      BY <1>0, <1>5, <2>6, OnlyFinalizeEnds, QuietActions DEF FlushAgain, vars
    <3> QED
      BY <1>4, <2>6, <3>1 DEF FlushAgain, CommitFails
  <2>7. CASE GiveUp(w)
    <3>1. NoneEnds /\ UNCHANGED runVars /\ held[w] # 0
      BY <1>0, <1>5, <2>7, OnlyFinalizeEnds, QuietActions
         DEF GiveUp, FlushGivesUp, Advances, At
    <3> QED
      BY <1>4, <2>7, <3>1 DEF GiveUp, CommitFails
  <2>8. CASE LeaveRows(w)
    BY <1>0, <2>8, OnlyFinalizeEnds, QuietActions DEF LeaveRows
  <2> QED
    BY <1>6, <2>1, <2>2, <2>3, <2>4, <2>5, <2>6, <2>7, <2>8 DEF SteeringProgress
<1>7. ASSUME NEW w \in Workers, SteeringWorker(w)
      PROVE  Quiet \/ Finalize(w) \/ Fenced(w)
  <2>1. CASE ReadInbox(w) \/ Ingest(w) \/ HeartbeatDies(w) \/ DrainSteering(w)
    <3>1. UNCHANGED <<vars, inbox, told>>
      BY <2>1 DEF ReadInbox, Ingest, HeartbeatDies, DrainSteering
    <3> QED
      BY <1>3, <3>1
  <2>2. CASE CommitBatch(w) \/ CommitBatchFails(w)
    <3>1. NoneEnds /\ UNCHANGED runVars /\ held[w] # 0 /\ batch[w] \subseteq drained[w]
      BY <1>0, <1>5, <2>2, OnlyFinalizeEnds, QuietActions, DrainedAreRows
         DEF CommitBatch, CommitBatchFails, vars
    <3> QED
      BY <1>4, <2>2, <3>1 DEF CommitBatch, CommitBatchFails, CommitFails
  <2>3. CASE Renew(w) \/ Notice(w) \/ (Running(w) /\ TripToken(w) /\ UNCHANGED steerVars)
    BY <1>0, <2>3, OnlyFinalizeEnds, QuietActions DEF Renew, Notice, steerVars
  <2>4. CASE LateCommit(w)
    <3>1. NoneEnds /\ UNCHANGED runVars
      BY <1>0, <2>4, OnlyFinalizeEnds, QuietActions DEF LateCommit, vars
    <3>2. CASE UNCHANGED <<inbox, told>>
      BY <3>1, <3>2
    <3>3. CASE MayCommit(w, late[w].run, late[w].attempt) /\ CommitRows(late[w].run, late[w].rows)
      <4>1. late[w] # NoCommit
        BY <2>4 DEF LateCommit
      <4>2. late[w].run \in 1 .. created /\ late[w].rows \subseteq DOMAIN inbox[late[w].run]
        BY <4>1 DEF ChannelInv, ChannelFits
      <4>3. late[w].run \in Runs /\ late[w].rows \in SUBSET Indices
        <5>1. created \in 0 .. MaxRuns /\ MaxRuns \in Nat
          BY BoundsAssumption DEF ChannelInv, IndInv, TypeOK
        <5>2. late[w].run \in Runs
          BY <4>2, <5>1 DEF Runs
        <5>3. late[w].rows \in SUBSET Indices
          BY DEF ChannelInv, SteeringTypeOK
        <5> QED
          BY <5>2, <5>3
      <4>4. late'[w] = NoCommit
        BY <2>4 DEF LateCommit, ChannelInv, SteeringTypeOK
      <4> QED
        BY <3>1, <3>3, <4>1, <4>2, <4>3, <4>4 DEF Fenced
    <3> QED
      BY <2>4, <3>2, <3>3 DEF LateCommit
  <2> QED
    BY <1>6, <1>7, <2>1, <2>2, <2>3, <2>4 DEF SteeringWorker
<1>8. ASSUME UNCHANGED allVars PROVE Quiet
  BY <1>3, <1>8 DEF allVars, steerVars
<1> QED
  BY <1>1, <1>2, <1>7, <1>8 DEF SteeringNext

\* Inboxes are sequences of rows, logs are sequences of events.
LEMMA InboxTypes ==
  ASSUME SteeringTypeOK, NEW r \in Runs
  PROVE  /\ inbox[r] \in Seq(Rows) /\ told[r] \in Seq(Notices)
         /\ Len(inbox[r]) \in Nat /\ DOMAIN inbox[r] = 1 .. Len(inbox[r])
         /\ Len(told[r]) \in Nat /\ DOMAIN told[r] = 1 .. Len(told[r])
         /\ \A i \in DOMAIN inbox[r] : inbox[r][i] \in Rows
         /\ \A n \in DOMAIN told[r] : told[r][n] \in Notices
<1>1. inbox[r] \in Seq(Rows) /\ told[r] \in Seq(Notices)
  BY DEF SteeringTypeOK, Rows
<1> QED
  BY <1>1, LenProperties, ElementOfSeq

\* The rows of an inbox that wait are among those it may hold.
LEMMA PendingFits ==
  ASSUME ChannelInv, NEW r \in Runs
  PROVE  PendingIn(r) \in SUBSET Indices /\ PendingIn(r) \subseteq DOMAIN inbox[r]
<1>1. /\ Len(inbox[r]) \in Nat /\ DOMAIN inbox[r] = 1 .. Len(inbox[r])
      /\ Len(inbox[r]) <= MaxRows
  BY InboxTypes DEF ChannelInv, InboxFits
<1>2. DOMAIN inbox[r] \subseteq Indices
  BY <1>1, SteeringAssumption DEF Indices
<1> QED
  BY <1>2 DEF PendingIn

\* Disposing of rows keeps the types, the bounds and every other row.
LEMMA DisposedRows ==
  ASSUME SteeringTypeOK, NEW r \in Runs, NEW rows \in SUBSET Indices,
         rows \subseteq DOMAIN inbox[r],
         NEW s \in {"consumed", "superseded"}, Disposes(r, rows, s)
  PROVE  /\ inbox' \in [Runs -> Seq(Rows)] /\ told' \in [Runs -> Seq(Notices)]
         /\ \A q \in Runs : Len(inbox'[q]) = Len(inbox[q])
         /\ \A q \in Runs : DOMAIN inbox'[q] = DOMAIN inbox[q]
         /\ \A q \in Runs, i \in Indices : i \in DOMAIN inbox[q] =>
              inbox'[q][i] = IF q = r /\ i \in rows
                             THEN As(inbox[q][i], s)
                             ELSE inbox[q][i]
         /\ told'[r] = told[r] \o Announce(s, rows)
         /\ \A q \in Runs : q # r => inbox'[q] = inbox[q] /\ told'[q] = told[q]
<1>0. /\ inbox \in [Runs -> Seq(Rows)] /\ told \in [Runs -> Seq(Notices)]
      /\ s \in RowStates /\ s \in Kinds
  BY DEF SteeringTypeOK, Rows, RowStates, Kinds
<1> DEFINE new == Marked(r, rows, s)
           news == told[r] \o Announce(s, rows)
<1>1. /\ new \in Seq(Rows) /\ Len(new) = Len(inbox[r])
      /\ \A i \in DOMAIN inbox[r] :
           new[i] = IF i \in rows THEN As(inbox[r][i], s)
                    ELSE inbox[r][i]
  <2>1. new \in Seq(Rows) /\ Len(new) = Len(inbox[r])
    BY <1>0, MarkedRows
  <2>2. ASSUME NEW i \in DOMAIN inbox[r]
        PROVE  new[i] = IF i \in rows THEN As(inbox[r][i], s)
                        ELSE inbox[r][i]
    BY DEF Marked, As
  <2> QED
    BY <2>1, <2>2
<1>2. news \in Seq(Notices)
  BY <1>0, Announced, ConcatProperties
<1>3. inbox' = [inbox EXCEPT ![r] = new] /\ told' = [told EXCEPT ![r] = news]
  BY DEF Disposes
<1> HIDE DEF new, news
<1>4. /\ inbox' \in [Runs -> Seq(Rows)] /\ told' \in [Runs -> Seq(Notices)]
      /\ inbox'[r] = new /\ told'[r] = news
      /\ \A q \in Runs : q # r => inbox'[q] = inbox[q] /\ told'[q] = told[q]
  BY <1>0, <1>1, <1>2, <1>3
<1>5. ASSUME NEW q \in Runs
      PROVE  /\ Len(inbox'[q]) = Len(inbox[q])
             /\ DOMAIN inbox'[q] = DOMAIN inbox[q]
  <2>1. Len(inbox'[q]) = Len(inbox[q])
    BY <1>1, <1>4
  <2>2. DOMAIN inbox'[q] = 1 .. Len(inbox'[q]) /\ DOMAIN inbox[q] = 1 .. Len(inbox[q])
    BY <1>0, <1>4, LenProperties
  <2> QED
    BY <2>1, <2>2
<1>6. ASSUME NEW q \in Runs, NEW i \in Indices, i \in DOMAIN inbox[q]
      PROVE  inbox'[q][i] = IF q = r /\ i \in rows
                            THEN As(inbox[q][i], s)
                            ELSE inbox[q][i]
  BY <1>1, <1>4, <1>6
<1> QED
  BY <1>4, <1>5, <1>6 DEF news

\* A fenced commit disposes of those rows that are not consumed yet.
LEMMA CommitDisposes ==
  ASSUME NEW r, NEW rows, CommitRows(r, rows)
  PROVE  Disposes(r, {i \in rows : inbox[r][i].state # "consumed"}, "consumed")
BY DEF CommitRows, Disposes

\* A row that is admitted is the last of its inbox, pending and its own source.
LEMMA SubmittedRows ==
  ASSUME SteeringTypeOK, NEW r \in Runs, NEW k \in Keys, Submit(r, k)
  PROVE  /\ inbox' \in [Runs -> Seq(Rows)] /\ told' \in [Runs -> Seq(Notices)]
         /\ Len(inbox[r]) + 1 \in Indices
         /\ Len(inbox'[r]) = Len(inbox[r]) + 1
         /\ DOMAIN inbox'[r] = 1 .. Len(inbox[r]) + 1
         /\ \A i \in DOMAIN inbox[r] : inbox'[r][i] = inbox[r][i]
         /\ inbox'[r][Len(inbox[r]) + 1] = Row(k, "pending", <<r, Len(inbox[r]) + 1>>)
         /\ told'[r] = told[r] \o Announce("accepted", {Len(inbox[r]) + 1})
         /\ \A q \in Runs : q # r => inbox'[q] = inbox[q] /\ told'[q] = told[q]
<1>0. /\ inbox \in [Runs -> Seq(Rows)] /\ told \in [Runs -> Seq(Notices)]
  BY DEF SteeringTypeOK, Rows
<1> DEFINE n == Len(inbox[r]) + 1
           row == Row(k, "pending", <<r, n>>)
           new == Append(inbox[r], row)
           news == told[r] \o Announce("accepted", {n})
<1>1. /\ Len(inbox[r]) \in Nat /\ DOMAIN inbox[r] = 1 .. Len(inbox[r])
      /\ n <= MaxRows
  BY InboxTypes DEF Submit
<1>2. n \in Indices
  BY <1>1, SteeringAssumption DEF Indices
<1>3. inbox' = [inbox EXCEPT ![r] = new] /\ told' = [told EXCEPT ![r] = news]
  BY DEF Submit
<1>4. row \in Rows
  BY <1>2 DEF Row, Rows, RowStates
<1> HIDE DEF row
<1>5. /\ new \in Seq(Rows) /\ Len(new) = Len(inbox[r]) + 1
      /\ \A i \in 1 .. Len(inbox[r]) : new[i] = inbox[r][i]
      /\ new[Len(inbox[r]) + 1] = row
  BY <1>0, <1>4, AppendProperties
<1>6. news \in Seq(Notices)
  <2>1. {n} \in SUBSET Indices
    BY <1>2
  <2> HIDE DEF n
  <2>2. Announce("accepted", {n}) \in Seq(Notices)
    BY <2>1, Announced DEF Kinds
  <2> QED
    BY <1>0, <2>2, ConcatProperties
<1> HIDE DEF new, news
<1>7. /\ inbox' \in [Runs -> Seq(Rows)] /\ told' \in [Runs -> Seq(Notices)]
      /\ inbox'[r] = new /\ told'[r] = news
      /\ \A q \in Runs : q # r => inbox'[q] = inbox[q] /\ told'[q] = told[q]
  BY <1>0, <1>3, <1>5, <1>6
<1>8. DOMAIN inbox'[r] = 1 .. Len(inbox'[r])
  BY <1>5, <1>7, LenProperties
<1> QED
  BY <1>1, <1>2, <1>5, <1>7, <1>8 DEF row, news, n

\* Resuming empties the inbox of the run that paused into the one, still
\* empty, of the run that continues: each pending row once, in order.
LEMMA ResumedRows ==
  ASSUME ChannelInv, NEW r \in Runs, ResumeWithSteering(r)
  PROVE  LET new == created + 1
             c   == Cardinality(PendingIn(r))
             m   == InOrder(PendingIn(r))
         IN  /\ inbox' \in [Runs -> Seq(Rows)] /\ told' \in [Runs -> Seq(Notices)]
             /\ new \in Runs /\ new # r /\ created' = new
             /\ inbox[new] = <<>> /\ told[new] = <<>>
             /\ c \in Nat /\ c <= MaxRows
             /\ Len(inbox'[r]) = Len(inbox[r]) /\ DOMAIN inbox'[r] = DOMAIN inbox[r]
             /\ \A i \in DOMAIN inbox[r] :
                  inbox'[r][i] = IF i \in PendingIn(r)
                                 THEN As(inbox[r][i], "superseded")
                                 ELSE inbox[r][i]
             /\ Len(inbox'[new]) = c /\ DOMAIN inbox'[new] = 1 .. c
             /\ \A n \in 1 .. c : m[n] \in PendingIn(r)
                                  /\ inbox'[new][n] = inbox[r][m[n]]
             /\ told'[r] = told[r] \o Announce("superseded", PendingIn(r))
             /\ told'[new] = Announce("accepted", 1 .. c)
             /\ \A q \in Runs : q # r /\ q # new =>
                  inbox'[q] = inbox[q] /\ told'[q] = told[q]
<1> DEFINE new  == created + 1
           P    == PendingIn(r)
           c    == Cardinality(P)
           m    == InOrder(P)
           moved == [n \in 1 .. c |-> [inbox[r][m[n]] EXCEPT !.state = "pending"]]
           left == Vacated(r)
           news == told[r] \o Announce("superseded", P)
           hers == Announce("accepted", 1 .. c)
<1>0. /\ SteeringTypeOK /\ TypeOK /\ UncreatedIsBlank
      /\ inbox \in [Runs -> Seq(Rows)] /\ told \in [Runs -> Seq(Notices)]
  BY DEF ChannelInv, IndInv, SteeringTypeOK, Rows
<1>1. /\ new \in Runs /\ new # r /\ created' = new
      /\ inbox[new] = <<>> /\ told[new] = <<>>
  <2>1. new \in Runs /\ created' = new /\ new > created
    BY <1>0, BoundsAssumption DEF ResumeWithSteering, Resume, TypeOK, Runs
  <2>2. ~(r > created)
    BY <1>0 DEF ResumeWithSteering, Resume, Resumable, UncreatedIsBlank
  <2> QED
    BY <2>1, <2>2 DEF ChannelInv, InboxFits
<1>2. P \in SUBSET Indices /\ P \subseteq DOMAIN inbox[r]
  BY PendingFits
<1>3. /\ c \in Nat /\ c <= MaxRows /\ DOMAIN m = 1 .. c
      /\ \A n \in 1 .. c : m[n] \in P
  BY <1>2, RowsAreFinite, InOrderOfRows
<1>4. \A n \in 1 .. c : /\ inbox[r][m[n]] \in Rows
                        /\ inbox[r][m[n]].state = "pending"
  BY <1>0, <1>2, <1>3, InboxTypes DEF PendingIn
<1>5. 1 .. c \in SUBSET Indices
  BY <1>3, SteeringAssumption DEF Indices
<1>6. inbox' = [inbox EXCEPT ![r] = left, ![new] = moved]
  BY <1>3 DEF ResumeWithSteering
<1>7. told' = [told EXCEPT ![r] = news, ![new] = hers]
  BY <1>3 DEF ResumeWithSteering
<1>8. news \in Seq(Notices) /\ hers \in Seq(Notices)
  BY <1>0, <1>2, <1>5, Announced, ConcatProperties DEF Kinds
<1>9. /\ left \in Seq(Rows) /\ Len(left) = Len(inbox[r])
  BY <1>0, MarkedRows DEF Vacated, RowStates
<1>10. \A i \in DOMAIN inbox[r] :
         left[i] = IF i \in P THEN As(inbox[r][i], "superseded")
                   ELSE inbox[r][i]
  BY DEF Vacated, Marked, As
<1>11. moved \in [1 .. c -> Rows] /\ \A n \in 1 .. c : moved[n] = inbox[r][m[n]]
  <2> HIDE DEF m, c
  <2>1. \A n \in 1 .. c : moved[n] = inbox[r][m[n]]
    BY <1>4 DEF Rows
  <2> QED
    BY <1>4, <2>1
<1>12. moved \in Seq(Rows) /\ Len(moved) = c /\ DOMAIN moved = 1 .. c
  <2> HIDE DEF moved, c
  <2> QED
    BY <1>3, <1>11, FcnIsSeq
<1> HIDE DEF moved, left, news, hers, c, m, P, new
<1>13. /\ inbox' \in [Runs -> Seq(Rows)] /\ inbox'[r] = left /\ inbox'[new] = moved
       /\ \A q \in Runs : q # r /\ q # new => inbox'[q] = inbox[q]
  BY <1>0, <1>1, <1>6, <1>9, <1>12
<1>14. /\ told' \in [Runs -> Seq(Notices)] /\ told'[r] = news /\ told'[new] = hers
       /\ \A q \in Runs : q # r /\ q # new => told'[q] = told[q]
  BY <1>0, <1>1, <1>7, <1>8
<1>15. DOMAIN inbox'[r] = DOMAIN inbox[r]
  <2>1. DOMAIN inbox'[r] = 1 .. Len(inbox'[r]) /\ DOMAIN inbox[r] = 1 .. Len(inbox[r])
    BY <1>0, <1>13, LenProperties
  <2> QED
    BY <1>9, <1>13, <2>1
<1>16. \A n \in 1 .. c : m[n] \in P /\ inbox'[new][n] = inbox[r][m[n]]
  BY <1>3, <1>11, <1>13
<1> QED
  BY <1>1, <1>3, <1>9, <1>10, <1>12, <1>13, <1>14, <1>15, <1>16
     DEF news, hers, c, m, P, new

-----------------------------------------------------------------------------
(* The types and bounds of inboxes and channels                             *)

\* What a step does to each inbox: it grows, its rows keep what was submitted,
\* and a disposition is never taken back.
InboxGrows ==
  \A q \in Runs :
    /\ DOMAIN inbox[q] \subseteq DOMAIN inbox'[q]
    /\ \A i \in DOMAIN inbox[q] :
         /\ inbox'[q][i].key = inbox[q][i].key
         /\ inbox'[q][i].source = inbox[q][i].source
         /\ inbox[q][i].state # "pending" => inbox'[q][i].state # "pending"

\* No step forgets a row, or makes one pending that was disposed of.
LEMMA InboxGrowth ==
  ASSUME ChannelInv, [SteeringNext]_allVars
  PROVE  /\ InboxGrows
         /\ inbox' \in [Runs -> Seq(Rows)] /\ told' \in [Runs -> Seq(Notices)]
         /\ created <= created'
<1>0. /\ SteeringTypeOK /\ TypeOK /\ created \in Nat
      /\ inbox \in [Runs -> Seq(Rows)] /\ told \in [Runs -> Seq(Notices)]
  <2>1. SteeringTypeOK /\ TypeOK
    BY DEF ChannelInv, IndInv
  <2>2. created \in Nat
    BY <2>1, BoundsAssumption DEF TypeOK
  <2>3. inbox \in [Runs -> Seq(Rows)] /\ told \in [Runs -> Seq(Notices)]
    BY <2>1 DEF SteeringTypeOK, Rows
  <2> QED
    BY <2>1, <2>2, <2>3
<1>1. \A q \in Runs : /\ DOMAIN inbox[q] = 1 .. Len(inbox[q])
                      /\ Len(inbox[q]) \in Nat
                      /\ \A i \in DOMAIN inbox[q] : inbox[q][i] \in Rows
  BY <1>0, InboxTypes
<1> DEFINE Goal == /\ InboxGrows
                   /\ inbox' \in [Runs -> Seq(Rows)] /\ told' \in [Runs -> Seq(Notices)]
                   /\ created <= created'
<1>2. CASE Quiet
  <2>1. inbox' = inbox /\ told' = told /\ created <= created'
    BY <1>2 DEF Quiet, NoneEnds
  <2> QED
    BY <1>0, <2>1 DEF InboxGrows
<1>3. ASSUME NEW r \in Runs, NEW k \in Keys, Submit(r, k) PROVE Goal
  <2>1. created' = created
    BY <1>3 DEF Submit, vars, runVars
  <2>2. /\ DOMAIN inbox'[r] = 1 .. Len(inbox[r]) + 1
        /\ \A i \in DOMAIN inbox[r] : inbox'[r][i] = inbox[r][i]
        /\ \A q \in Runs : q # r => inbox'[q] = inbox[q]
    BY <1>0, <1>3, SubmittedRows
  <2>3. DOMAIN inbox[r] \subseteq DOMAIN inbox'[r]
    BY <1>1, <2>2
  <2>4. InboxGrows
    BY <2>2, <2>3 DEF InboxGrows
  <2>5. inbox' \in [Runs -> Seq(Rows)] /\ told' \in [Runs -> Seq(Notices)]
    BY <1>0, <1>3, SubmittedRows
  <2> QED
    BY <1>0, <2>1, <2>4, <2>5
<1>4. ASSUME NEW r \in Runs, ResumeWithSteering(r) PROVE Goal
  <2> DEFINE new == created + 1
  <2>0. inbox[new] = <<>> /\ new \in Runs /\ new # r
    BY <1>4, ResumedRows
  <2>1. created' = new /\ created <= created'
    BY <1>0, <1>4, ResumedRows
  <2>2. DOMAIN inbox[new] = {}
    BY <2>0
  <2>3. ASSUME NEW q \in Runs, NEW i \in DOMAIN inbox[q]
        PROVE  /\ DOMAIN inbox[q] \subseteq DOMAIN inbox'[q]
               /\ inbox'[q][i].key = inbox[q][i].key
               /\ inbox'[q][i].source = inbox[q][i].source
               /\ inbox[q][i].state # "pending" => inbox'[q][i].state # "pending"
    <3>1. CASE q = r
      <4>1. /\ DOMAIN inbox'[r] = DOMAIN inbox[r]
            /\ inbox'[r][i] = IF i \in PendingIn(r)
                              THEN As(inbox[r][i], "superseded")
                              ELSE inbox[r][i]
        BY <1>4, <2>3, <3>1, ResumedRows
      <4> QED
        BY <1>1, <3>1, <4>1, AsKeeps DEF RowStates
    <3>2. CASE q # r /\ q # new
      BY <1>4, <3>2, ResumedRows
    <3> QED
      BY <2>2, <2>3, <3>1, <3>2
  <2>4. InboxGrows
    BY <2>3 DEF InboxGrows
  <2> QED
    BY <1>4, <2>1, <2>4, ResumedRows
<1>5. ASSUME NEW r \in Runs, NEW rows \in SUBSET Indices, NEW s \in {"consumed", "superseded"},
             rows \subseteq DOMAIN inbox[r], Disposes(r, rows, s), created <= created'
      PROVE  Goal
  <2>b. SteeringTypeOK
    BY <1>0
  <2>0. \A q \in Runs, i \in Indices : i \in DOMAIN inbox[q] =>
          inbox'[q][i] = IF q = r /\ i \in rows THEN As(inbox[q][i], s)
                         ELSE inbox[q][i]
    BY <2>b, <1>5, DisposedRows
  <2>1. ASSUME NEW q \in Runs, NEW i \in DOMAIN inbox[q]
        PROVE  /\ inbox'[q][i].key = inbox[q][i].key
               /\ inbox'[q][i].source = inbox[q][i].source
               /\ inbox[q][i].state # "pending" => inbox'[q][i].state # "pending"
    <3>0. Len(inbox[q]) <= MaxRows
      BY DEF ChannelInv, InboxFits
    <3>1. i \in Indices /\ inbox[q][i] \in Rows
      BY <1>1, <3>0, SteeringAssumption DEF Indices
    <3>2. inbox'[q][i] = IF q = r /\ i \in rows THEN As(inbox[q][i], s)
                         ELSE inbox[q][i]
      BY <2>0, <3>1
    <3> QED
      BY <3>1, <3>2, AsKeeps DEF RowStates
  <2>2. \A q \in Runs : DOMAIN inbox'[q] = DOMAIN inbox[q]
    BY <1>0, <1>5, DisposedRows
  <2> QED
    BY <1>0, <1>5, <2>1, <2>2, DisposedRows DEF InboxGrows
<1>6. ASSUME NEW w \in Workers, Finalize(w) PROVE Goal
  <2>1. held[w] \in Runs /\ created' = created
    BY <1>0, <1>6, BoundsAssumption
       DEF Finalize, FinalizeRun, FinishIfOwned, Owns, Release, TypeOK, Runs
  <2>2. Disposes(held[w], PendingIn(held[w]), "superseded")
    BY <1>6 DEF Finalize, Leftover, Disposes
  <2>3. /\ PendingIn(held[w]) \in SUBSET Indices
        /\ PendingIn(held[w]) \subseteq DOMAIN inbox[held[w]]
        /\ created <= created'
    BY <1>0, <2>1, PendingFits
  <2> QED
    BY <1>5, <2>1, <2>2, <2>3
<1>7. ASSUME NEW w \in Workers, Fenced(w) PROVE Goal
  <2>1. PICK r \in Runs, rows \in SUBSET Indices :
          CommitRows(r, rows) /\ rows \subseteq DOMAIN inbox[r] /\ UNCHANGED runVars
    BY <1>7 DEF Fenced
  <2>2. created <= created'
    BY <1>0, <2>1 DEF runVars
  <2> QED
    BY <1>5, <2>1, <2>2, CommitDisposes
<1> QED
  BY <1>2, <1>3, <1>4, <1>6, <1>7, InboxSteps

\* The types of what the workers keep.
ChannelTypes ==
  /\ beat \in [Workers -> BeatPhases]
  /\ snapshot \in [Workers -> SUBSET Indices]
  /\ fresh \in [Workers -> SUBSET Indices]
  /\ handed \in [Workers -> Seq(Indices)]
  /\ drained \in [Workers -> SUBSET Indices]
  /\ batch \in [Workers -> SUBSET Indices]

LateType == late \in [Workers -> [run : 0 .. MaxRuns, attempt : Nat, rows : SUBSET Indices]]

\* What a worker knows and drains are rows of an inbox.
LEMMA ChannelTypeStep ==
  ASSUME ChannelInv, [SteeringNext]_allVars
  PROVE  ChannelTypes'
<1>0. ChannelTypes
  BY DEF ChannelInv, SteeringTypeOK, ChannelTypes
<1> USE <1>0 DEF ChannelTypes
<1>1. CASE UNCHANGED channelVars
  BY <1>1 DEF channelVars
<1>2. ASSUME NEW w \in Workers, NEW phase \in BeatPhases, NewChannel(w, phase)
      PROVE  ChannelTypes'
  <2>1. <<>> \in Seq(Indices)
    BY EmptySeq
  <2>2. handed' \in [Workers -> Seq(Indices)]
    BY <1>2, <2>1 DEF NewChannel
  <2> QED
    BY <1>2, <2>2 DEF NewChannel
<1>3. ASSUME NEW w \in Mortal, CrashWithChannel(w) PROVE ChannelTypes'
  BY <1>2, <1>3, NamesAssumption DEF CrashWithChannel, BeatPhases
<1>4. ASSUME NEW w \in Workers, ReadInbox(w) PROVE ChannelTypes'
  <2>1. held[w] # 0
    BY <1>4 DEF ReadInbox, ChannelInv, IndInv, BusyIffHolding, BeatFits
  <2>2. Listed(held[w]) \in SUBSET Indices
    BY <2>1, DrainedAreRows, PendingFits DEF Listed
  <2>3. beat' \in [Workers -> BeatPhases]
    BY <1>4 DEF ReadInbox, BeatPhases
  <2> QED
    BY <1>4, <2>2, <2>3 DEF ReadInbox
<1>5. ASSUME NEW w \in Workers, Ingest(w) PROVE ChannelTypes'
  <2>1. beat' \in [Workers -> BeatPhases] /\ batch' \in [Workers -> SUBSET Indices]
    BY <1>5 DEF Ingest, BeatPhases
  <2>2. snapshot' \in [Workers -> SUBSET Indices] /\ fresh' \in [Workers -> SUBSET Indices]
    BY <1>5 DEF Ingest
  <2> QED
    BY <1>5, <2>1, <2>2 DEF Ingest
<1>6. ASSUME NEW w \in Workers, DrainSteering(w) PROVE ChannelTypes'
  <2>1. handed[w] \o InOrder(fresh[w]) \in Seq(Indices)
    BY InOrderOfRows, ConcatProperties
  <2>2. handed' \in [Workers -> Seq(Indices)]
    BY <1>6, <2>1 DEF DrainSteering
  <2>3. drained' \in [Workers -> SUBSET Indices] /\ fresh' \in [Workers -> SUBSET Indices]
    BY <1>6 DEF DrainSteering
  <2> QED
    BY <1>6, <2>2, <2>3 DEF DrainSteering
<1>7. ASSUME NEW w \in Workers, CommitBatch(w) \/ CommitBatchFails(w) PROVE ChannelTypes'
  <2>1. beat' \in [Workers -> BeatPhases]
    BY <1>7 DEF CommitBatch, CommitBatchFails, BeatPhases
  <2>2. batch' \in [Workers -> SUBSET Indices]
    BY <1>7 DEF CommitBatch, CommitBatchFails
  <2>3. drained' = drained \/ drained' = [drained EXCEPT ![w] = @ \ batch[w]]
    BY <1>7 DEF CommitBatch, CommitBatchFails
  <2>4. drained' \in [Workers -> SUBSET Indices]
    BY <2>3
  <2> QED
    BY <1>7, <2>1, <2>2, <2>4 DEF CommitBatch, CommitBatchFails
<1>8. ASSUME NEW w \in Workers, HeartbeatDies(w) \/ Renew(w) \/ Notice(w)
      PROVE  ChannelTypes'
  <2>1. beat' \in [Workers -> BeatPhases]
    BY <1>8 DEF HeartbeatDies, Renew, Notice, BeatPhases
  <2> QED
    BY <1>8, <2>1 DEF HeartbeatDies, Renew, Notice
<1>9. ASSUME NEW w \in Workers, Settle(w) PROVE ChannelTypes'
  <2>1. beat' \in [Workers -> BeatPhases]
    BY <1>9 DEF Settle, BeatPhases
  <2> QED
    BY <1>9, <2>1 DEF Settle
<1>10. ASSUME NEW w \in Workers, Flush(w) PROVE ChannelTypes'
  BY <1>10 DEF Flush
<1>11. ASSUME NEW w \in Workers, Claim(w) \/ Finalize(w) \/ LeaveRows(w)
       PROVE  ChannelTypes'
  BY <1>2, <1>11 DEF Claim, Finalize, LeaveRows, BeatPhases
<1>12. ASSUME NEW w \in Workers, SteeringWorker(w) PROVE ChannelTypes'
  <2>1. CASE UNCHANGED steerVars
    BY <1>1, <2>1 DEF steerVars
  <2>2. CASE FlushAgain(w) \/ GiveUp(w) \/ LateCommit(w)
    BY <1>1, <2>2 DEF FlushAgain, GiveUp, LateCommit
  <2> QED
    BY <1>4, <1>5, <1>6, <1>7, <1>8, <1>9, <1>10, <1>11, <1>12, <2>1, <2>2
       DEF SteeringWorker, SteeringProgress, Close
<1> QED
  BY <1>1, <1>3, <1>12
     DEF SteeringNext, Elsewhere, Submit, ResumeWithSteering, steerVars, allVars

\* A commit that outlives its heartbeat is one that was in flight, and the
\* faults stay within their bound.
LEMMA LateTypeStep ==
  ASSUME ChannelInv, [SteeringNext]_allVars
  PROVE  LateType' /\ faults' \in 0 .. MaxFaults
<1>0. /\ LateType /\ faults \in 0 .. MaxFaults
      /\ held \in [Workers -> 0 .. MaxRuns] /\ heldAttempt \in [Workers -> Nat]
      /\ batch \in [Workers -> SUBSET Indices]
  BY DEF ChannelInv, SteeringTypeOK, LateType, IndInv, TypeOK
<1> DEFINE Goal == LateType' /\ faults' \in 0 .. MaxFaults
<1>1. CASE UNCHANGED <<late, faults>>
  BY <1>0, <1>1 DEF LateType
<1>2. ASSUME UNCHANGED late, faults < MaxFaults, faults' = faults + 1 PROVE Goal
  BY <1>0, <1>2, SteeringAssumption DEF LateType
<1>3. ASSUME NEW w \in Workers, Settle(w) PROVE Goal
  <2>1. [run |-> held[w], rows |-> batch[w], attempt |-> heldAttempt[w]]
          \in [run : 0 .. MaxRuns, attempt : Nat, rows : SUBSET Indices]
    BY <1>0
  <2> QED
    BY <1>0, <1>3, <2>1 DEF Settle, LateType
<1>4. ASSUME NEW w \in Workers, LateCommit(w) PROVE Goal
  <2>1. NoCommit \in [run : 0 .. MaxRuns, attempt : Nat, rows : SUBSET Indices]
    BY BoundsAssumption DEF NoCommit
  <2> QED
    BY <1>0, <1>4, <2>1 DEF LateCommit, LateType
<1>5. ASSUME NEW w \in Workers, SteeringWorker(w) PROVE Goal
  <2>1. CASE CommitBatchFails(w) \/ FlushAgain(w) \/ GiveUp(w) \/ HeartbeatDies(w)
    BY <1>1, <1>2, <2>1
       DEF CommitBatchFails, FlushAgain, GiveUp, HeartbeatDies, CommitFails
  <2>2. CASE UNCHANGED steerVars
    BY <1>1, <2>2 DEF steerVars
  <2>3. CASE \/ Claim(w) \/ ReadInbox(w) \/ Ingest(w) \/ Flush(w) \/ Finalize(w)
             \/ LeaveRows(w) \/ CommitBatch(w) \/ Renew(w) \/ Notice(w)
             \/ DrainSteering(w)
    BY <1>1, <2>3
       DEF Claim, ReadInbox, Ingest, Flush, Finalize, LeaveRows, CommitBatch,
           Renew, Notice, DrainSteering
  <2> QED
    BY <1>3, <1>4, <1>5, <2>1, <2>2, <2>3 DEF SteeringWorker, SteeringProgress, Close
<1> QED
  BY <1>1, <1>5
     DEF SteeringNext, Elsewhere, Submit, ResumeWithSteering, CrashWithChannel,
         steerVars, allVars

\* Everything about inboxes and channels stays well typed.
LEMMA SteeringTypeStep ==
  ChannelInv /\ [SteeringNext]_allVars => SteeringTypeOK'
<1> SUFFICES ASSUME ChannelInv, [SteeringNext]_allVars PROVE SteeringTypeOK'
  OBVIOUS
<1>1. inbox' \in [Runs -> Seq(Rows)] /\ told' \in [Runs -> Seq(Notices)]
  BY InboxGrowth
<1>2. ChannelTypes' /\ LateType' /\ faults' \in 0 .. MaxFaults
  BY ChannelTypeStep, LateTypeStep
<1> QED
  BY <1>1, <1>2 DEF SteeringTypeOK, ChannelTypes, LateType, Rows

-----------------------------------------------------------------------------
(* What a step does to the channel of one worker                            *)

\* Nothing of a worker and its channel changes.
Untouched(v) ==
  /\ Still(v)
  /\ beat'[v] = beat[v] /\ snapshot'[v] = snapshot[v] /\ fresh'[v] = fresh[v]
  /\ handed'[v] = handed[v] /\ drained'[v] = drained[v] /\ batch'[v] = batch[v]
  /\ late'[v] = late[v]

\* The delivery goes on, with what the graph knows and was handed.
Kept(v) ==
  /\ held'[v] = held[v] /\ heldAttempt'[v] = heldAttempt[v]
  /\ fresh'[v] = fresh[v] /\ handed'[v] = handed[v]
  /\ snapshot'[v] \in {snapshot[v], {}} /\ drained'[v] \subseteq drained[v]
  /\ \/ batch'[v] = {}
     \/ batch'[v] = batch[v] /\ drained'[v] = drained[v]
  /\ \/ late'[v] = late[v] \/ late'[v] = NoCommit
     \/ /\ held[v] # 0
        /\ late'[v] = [run |-> held[v], rows |-> batch[v], attempt |-> heldAttempt[v]]

\* A channel without anything in it.
Empties(v) ==
  /\ snapshot'[v] = {} /\ fresh'[v] = {} /\ handed'[v] = <<>>
  /\ drained'[v] = {} /\ batch'[v] = {} /\ late'[v] = late[v]

\* What a worker does leaves the others' deliveries alone.
LEMMA OthersStill ==
  ASSUME TypeOK, NEW w \in Workers, NEW v \in Workers, w # v, Worker(w)
  PROVE  Still(v)
<1> USE DEF TypeOK, Still
<1>1. CASE ClaimRun(w)
  BY <1>1 DEF ClaimRun
<1>2. CASE Done(w)
  BY <1>2 DEF Done
<1>3. CASE SweepOnly(w) \/ RenewLease(w)
  BY <1>3 DEF SweepOnly, RenewLease, workerVars
<1>4. CASE GraphEnds(w) \/ CloseSteering(w) \/ FlushDone(w) \/ FlushGivesUp(w)
  BY <1>4 DEF GraphEnds, CloseSteering, FlushDone, FlushGivesUp, At
<1>5. CASE NoticeCancel(w) \/ TripToken(w)
  BY <1>5 DEF NoticeCancel, TripToken
<1> QED
  BY <1>1, <1>2, <1>3, <1>4, <1>5
     DEF Worker, Progress, FinalizeRun, PauseRun, RetryRun, DeadLetter, Abandon,
         FinishIfOwned, RetryIfOwned

\* ... and so does what it does to its channel.
LEMMA OthersUntouched ==
  ASSUME ChannelInv, NEW w \in Workers, NEW v \in Workers, w # v,
         SteeringWorker(w)
  PROVE  Untouched(v)
<1>0. TypeOK /\ ChannelTypes /\ LateType
  BY DEF ChannelInv, IndInv, SteeringTypeOK, ChannelTypes, LateType
<1>1. Still(v)
  <2>1. CASE UNCHANGED vars
    BY <2>1 DEF vars, workerVars, Still
  <2>2. CASE Worker(w)
    BY <1>0, <2>2, OthersStill
  <2> QED
    BY <2>1, <2>2
       DEF SteeringWorker, SteeringProgress, Claim, ReadInbox, Ingest, CommitBatch,
           CommitBatchFails, HeartbeatDies, Renew, Notice, DrainSteering,
           LateCommit, Settle, Close, Flush, FlushAgain, GiveUp, Finalize,
           LeaveRows, Worker, Progress
<1> DEFINE Goal == /\ beat'[v] = beat[v] /\ snapshot'[v] = snapshot[v]
                   /\ fresh'[v] = fresh[v] /\ handed'[v] = handed[v]
                   /\ drained'[v] = drained[v] /\ batch'[v] = batch[v]
                   /\ late'[v] = late[v]
<1>2. Goal
  <2> USE DEF ChannelTypes, LateType
  <2>1. CASE UNCHANGED steerVars
    BY <2>1 DEF steerVars, channelVars
  <2>2. ASSUME NEW phase, NewChannel(w, phase), UNCHANGED late PROVE Goal
    BY <1>0, <2>2 DEF NewChannel
  <2>3. CASE Claim(w) \/ Finalize(w) \/ LeaveRows(w)
    BY <2>2, <2>3 DEF Claim, Finalize, LeaveRows
  <2>4. CASE ReadInbox(w)
    BY <1>0, <2>4 DEF ReadInbox
  <2>5. CASE Ingest(w)
    BY <1>0, <2>5 DEF Ingest
  <2>6. CASE DrainSteering(w)
    BY <1>0, <2>6 DEF DrainSteering
  <2>7. CASE CommitBatch(w)
    BY <1>0, <2>7 DEF CommitBatch
  <2>8. CASE CommitBatchFails(w)
    BY <1>0, <2>8 DEF CommitBatchFails
  <2>9. CASE HeartbeatDies(w) \/ Renew(w) \/ Notice(w)
    BY <1>0, <2>9 DEF HeartbeatDies, Renew, Notice
  <2>10. CASE Settle(w)
    BY <1>0, <2>10 DEF Settle
  <2>11. CASE Flush(w)
    BY <1>0, <2>11 DEF Flush
  <2>12. CASE FlushAgain(w) \/ GiveUp(w)
    BY <2>12 DEF FlushAgain, GiveUp, channelVars
  <2>13. CASE LateCommit(w)
    BY <1>0, <2>13 DEF LateCommit, channelVars
  <2> QED
    BY <2>1, <2>3, <2>4, <2>5, <2>6, <2>7, <2>8, <2>9, <2>10, <2>11, <2>12, <2>13
       DEF SteeringWorker, SteeringProgress, Close
<1> QED
  BY <1>1, <1>2 DEF Untouched

\* What a step may be from the point of view of one worker's channel.
LEMMA ChannelSteps ==
  ASSUME ChannelInv, [SteeringNext]_allVars, NEW v \in Workers
  PROVE  \/ Untouched(v)
         \/ SteeringWorker(v)
         \/ CrashWithChannel(v)
<1>0. TypeOK /\ ChannelTypes /\ LateType
  BY DEF ChannelInv, IndInv, SteeringTypeOK, ChannelTypes, LateType
<1>1. CASE Elsewhere
  <2>1. Still(v)
    BY <1>1
       DEF Elsewhere, CreateRun, RequestCancel, Redrive, OrphanLapses,
           StalledLapses, Expire, Drain, workerVars, Still
  <2> QED
    BY <1>1, <2>1 DEF Elsewhere, steerVars, channelVars, Untouched
<1>2. ASSUME NEW r \in Runs, NEW k \in Keys, Submit(r, k) PROVE Untouched(v)
  BY <1>2 DEF Submit, vars, workerVars, channelVars, Untouched, Still
<1>3. ASSUME NEW r \in Runs, ResumeWithSteering(r) PROVE Untouched(v)
  BY <1>3 DEF ResumeWithSteering, Resume, workerVars, channelVars, Untouched, Still
<1>4. ASSUME NEW w \in Mortal, w # v, CrashWithChannel(w) PROVE Untouched(v)
  <2>1. Still(v)
    BY <1>0, <1>4 DEF CrashWithChannel, Crash, Still, TypeOK
  <2> QED
    BY <1>0, <1>4, <2>1, NamesAssumption
       DEF CrashWithChannel, NewChannel, ChannelTypes, Untouched
<1>5. CASE UNCHANGED allVars
  BY <1>5 DEF allVars, vars, workerVars, steerVars, channelVars, Untouched, Still
<1> QED
  BY <1>1, <1>2, <1>3, <1>4, <1>5, OthersUntouched DEF SteeringNext

\* A delivery begins with an empty channel and ends with one; in between, what
\* the graph knows changes only by reading, ingesting and draining.
LEMMA DeliverySteps ==
  ASSUME ChannelInv, [SteeringNext]_allVars, NEW v \in Workers
  PROVE  \/ Kept(v)
         \/ Claim(v) /\ Empties(v)
         \/ Empties(v) /\ held'[v] = 0
         \/ ReadInbox(v) \/ Ingest(v) \/ DrainSteering(v)
<1>0. /\ TypeOK /\ ChannelTypes /\ LateType
      /\ beat[v] = "committing" => held[v] # 0
      /\ pc[v] = "flushing" => batch[v] = {}
  <2>1. TypeOK /\ ChannelTypes /\ LateType
    BY DEF ChannelInv, IndInv, SteeringTypeOK, ChannelTypes, LateType
  <2> QED
    BY <2>1 DEF ChannelInv, IndInv, BusyIffHolding, BeatFits
<1>1. CASE Untouched(v)
  BY <1>1 DEF Untouched, Still, Kept
<1>2. ASSUME NEW phase, NewChannel(v, phase), UNCHANGED late PROVE Empties(v)
  BY <1>0, <1>2 DEF NewChannel, Empties, ChannelTypes
<1>3. ASSUME Done(v) PROVE held'[v] = 0
  BY <1>0, <1>3 DEF Done, TypeOK
<1>4. CASE CrashWithChannel(v)
  <2>1. held'[v] = 0
    BY <1>0, <1>4 DEF CrashWithChannel, Crash, TypeOK
  <2> QED
    BY <1>2, <1>4, <2>1 DEF CrashWithChannel
<1>5. CASE Claim(v)
  BY <1>2, <1>5 DEF Claim
<1>6. CASE Finalize(v) \/ LeaveRows(v)
  <2>1. Done(v)
    BY <1>6 DEF Finalize, LeaveRows, FinalizeRun, PauseRun, RetryRun, DeadLetter,
                Abandon, FinishIfOwned, RetryIfOwned
  <2> QED
    BY <1>2, <1>3, <1>6, <2>1 DEF Finalize, LeaveRows
<1>7. ASSUME UNCHANGED <<held, heldAttempt, channelVars, late>> PROVE Kept(v)
  BY <1>7 DEF channelVars, Kept
<1>8. CASE (SweepOnly(v) \/ CloseSteering(v) \/ TripToken(v)) /\ UNCHANGED steerVars
  <2>1. UNCHANGED <<held, heldAttempt>>
    BY <1>8 DEF SweepOnly, CloseSteering, At, TripToken, workerVars
  <2> QED
    BY <1>7, <1>8, <2>1 DEF steerVars
<1>9. CASE FlushAgain(v) \/ GiveUp(v)
  <2>1. UNCHANGED <<held, heldAttempt>>
    BY <1>9 DEF FlushAgain, GiveUp, FlushGivesUp, At, vars, workerVars
  <2> QED
    BY <1>7, <1>9, <2>1 DEF FlushAgain, GiveUp
<1>10. CASE CommitBatch(v) \/ CommitBatchFails(v)
  <2>1. UNCHANGED <<held, heldAttempt, fresh, handed, snapshot, late>>
    BY <1>10 DEF CommitBatch, CommitBatchFails, vars, workerVars
  <2>2. batch'[v] = {}
    BY <1>0, <1>10 DEF CommitBatch, CommitBatchFails, ChannelTypes
  <2>3. drained' = drained \/ drained' = [drained EXCEPT ![v] = @ \ batch[v]]
    BY <1>10 DEF CommitBatch, CommitBatchFails
  <2>4. drained'[v] \subseteq drained[v]
    BY <1>0, <2>3 DEF ChannelTypes
  <2> QED
    BY <2>1, <2>2, <2>4 DEF Kept
<1>11. CASE HeartbeatDies(v) \/ Renew(v) \/ Notice(v)
  <2>1. UNCHANGED <<held, heldAttempt, fresh, handed, snapshot, drained, batch, late>>
    BY <1>11 DEF HeartbeatDies, Renew, Notice, RenewLease, NoticeCancel, vars, workerVars
  <2> QED
    BY <2>1 DEF Kept
<1>12. CASE Settle(v)
  <2>1. UNCHANGED <<held, heldAttempt, fresh, handed, drained>>
    BY <1>12 DEF Settle, GraphEnds, At
  <2>2. snapshot'[v] = {} /\ batch'[v] = {}
    BY <1>0, <1>12 DEF Settle, ChannelTypes
  <2>3. \/ late'[v] = late[v]
        \/ /\ held[v] # 0
           /\ late'[v] = [run |-> held[v], rows |-> batch[v], attempt |-> heldAttempt[v]]
    BY <1>0, <1>12 DEF Settle, LateType
  <2> QED
    BY <2>1, <2>2, <2>3 DEF Kept
<1>13. CASE Flush(v)
  <2>1. UNCHANGED <<held, heldAttempt, fresh, handed, snapshot, batch, late>>
    BY <1>13 DEF Flush, FlushDone, At
  <2>2. batch[v] = {}
    BY <1>0, <1>13 DEF Flush, FlushDone, At
  <2>3. drained'[v] \subseteq drained[v]
    BY <1>0, <1>13 DEF Flush, ChannelTypes
  <2> QED
    BY <2>1, <2>2, <2>3 DEF Kept
<1>14. CASE LateCommit(v)
  <2>1. UNCHANGED <<held, heldAttempt, channelVars>> /\ late'[v] = NoCommit
    BY <1>0, <1>14 DEF LateCommit, vars, workerVars, LateType
  <2> QED
    BY <2>1 DEF channelVars, Kept
<1> QED
  BY <1>1, <1>4, <1>5, <1>6, <1>8, <1>9, <1>10, <1>11, <1>12, <1>13, <1>14, ChannelSteps
     DEF SteeringWorker, SteeringProgress, Close

\* A heartbeat only beats beside a graph, and its round holds what it should.
LEMMA BeatStep ==
  ChannelInv /\ [SteeringNext]_allVars => BeatFits'
<1> SUFFICES ASSUME ChannelInv, [SteeringNext]_allVars, NEW v \in Workers
             PROVE  /\ (beat[v] # "off" => pc[v] = "executing")'
                    /\ (snapshot[v] # {} => beat[v] \in {"entering", "listed"})'
                    /\ (batch[v] # {} => beat[v] = "committing")'
  BY DEF BeatFits
<1> DEFINE Goal == /\ (beat[v] # "off" => pc[v] = "executing")'
                   /\ (snapshot[v] # {} => beat[v] \in {"entering", "listed"})'
                   /\ (batch[v] # {} => beat[v] = "committing")'
<1>0. /\ TypeOK /\ ChannelTypes
      /\ beat[v] # "off" => pc[v] = "executing"
      /\ snapshot[v] # {} => beat[v] \in {"entering", "listed"}
      /\ batch[v] # {} => beat[v] = "committing"
  <2>1. TypeOK /\ ChannelTypes
    BY DEF ChannelInv, IndInv, SteeringTypeOK, ChannelTypes
  <2> QED
    BY <2>1 DEF ChannelInv, BeatFits
<1> USE DEF ChannelTypes
<1>1. CASE Untouched(v)
  BY <1>0, <1>1 DEF Untouched, Still
<1>2. CASE NewChannel(v, "off")
  BY <1>0, <1>2 DEF NewChannel
<1>3. CASE Claim(v)
  BY <1>0, <1>3 DEF Claim, ClaimRun, NewChannel, TypeOK
<1>4. CASE ReadInbox(v)
  <2>1. pc' = pc /\ batch' = batch
    BY <1>4 DEF ReadInbox, vars, workerVars
  <2> QED
    BY <1>0, <1>4, <2>1 DEF ReadInbox
<1>5. CASE Ingest(v)
  <2>1. pc' = pc
    BY <1>5 DEF Ingest, vars, workerVars
  <2> QED
    BY <1>0, <1>5, <2>1 DEF Ingest
<1>6. CASE Settle(v)
  BY <1>0, <1>6 DEF Settle
<1>7. CASE UNCHANGED <<pc, beat, snapshot, batch>>
  BY <1>0, <1>7
<1>8. CASE UNCHANGED <<beat, snapshot, batch>> /\ pc[v] # "executing"
  BY <1>0, <1>8
<1>9. CASE CommitBatch(v) \/ CommitBatchFails(v)
  <2>1. pc' = pc /\ snapshot' = snapshot /\ beat'[v] = "renewing" /\ batch'[v] = {}
    BY <1>0, <1>9 DEF CommitBatch, CommitBatchFails, vars, workerVars
  <2>2. beat[v] = "committing"
    BY <1>9 DEF CommitBatch, CommitBatchFails
  <2> QED
    BY <1>0, <2>1, <2>2
<1>10. CASE HeartbeatDies(v)
  BY <1>0, <1>10 DEF HeartbeatDies, vars, workerVars
<1>11. CASE Renew(v)
  <2>1. pc' = pc /\ UNCHANGED <<snapshot, batch>>
    BY <1>11 DEF Renew, RenewLease, workerVars
  <2> QED
    BY <1>0, <1>11, <2>1 DEF Renew
<1>12. CASE Notice(v)
  BY <1>0, <1>12 DEF Notice, NoticeCancel
<1>13. ASSUME SteeringWorker(v) PROVE Goal
  <2>1. CASE DrainSteering(v) \/ LateCommit(v) \/ FlushAgain(v)
    BY <1>7, <2>1
       DEF DrainSteering, LateCommit, FlushAgain, vars, workerVars, channelVars
  <2>2. CASE (SweepOnly(v) \/ TripToken(v)) /\ UNCHANGED steerVars
    BY <1>7, <2>2 DEF SweepOnly, TripToken, workerVars, steerVars, channelVars
  <2>3. CASE Close(v) \/ Flush(v) \/ GiveUp(v)
    BY <1>8, <2>3
       DEF Close, CloseSteering, Flush, FlushDone, GiveUp, FlushGivesUp, At,
           steerVars, channelVars
  <2>4. CASE Finalize(v) \/ LeaveRows(v)
    BY <1>2, <2>4 DEF Finalize, LeaveRows
  <2> QED
    BY <1>3, <1>4, <1>5, <1>6, <1>9, <1>10, <1>11, <1>12, <1>13, <2>1, <2>2, <2>3, <2>4
       DEF SteeringWorker, SteeringProgress
<1> QED
  BY <1>1, <1>2, <1>13, ChannelSteps DEF CrashWithChannel

-----------------------------------------------------------------------------
(* The bounds of inboxes and channels                                       *)

\* What a log tells of after an announcement: what it told of before, and
\* the rows that are announced.
LEMMA RowsTold ==
  ASSUME NEW log \in Seq(Notices), NEW rows \in SUBSET Indices, NEW kind \in Kinds,
         NEW longer, longer = log \o Announce(kind, rows), NEW n \in DOMAIN longer
  PROVE  \/ n \in DOMAIN log /\ longer[n] = log[n]
         \/ longer[n].row \in rows
<1> DEFINE news == Announce(kind, rows)
           c == Cardinality(rows)
<1>1. /\ news \in Seq(Notices) /\ Len(news) = c
      /\ \A m \in 1 .. c : news[m] = [kind |-> kind, row |-> InOrder(rows)[m]]
  BY Announced
<1>2. \A m \in 1 .. c : InOrder(rows)[m] \in rows
  BY InOrderOfRows
<1>3. c \in Nat /\ Len(log) \in Nat /\ DOMAIN log = 1 .. Len(log)
  BY RowsAreFinite, LenProperties
<1> HIDE DEF news, c
<1>4. /\ log \o news \in Seq(Notices) /\ Len(log \o news) = Len(log) + c
      /\ \A m \in 1 .. Len(log) + c : (log \o news)[m] =
           IF m <= Len(log) THEN log[m] ELSE news[m - Len(log)]
  BY <1>1, ConcatProperties
<1>5. n \in 1 .. Len(log) + c
  <2>1. n \in DOMAIN (log \o news)
    BY DEF news
  <2> QED
    BY <1>4, <2>1, LenProperties
<1>6. CASE n <= Len(log)
  BY <1>3, <1>4, <1>5, <1>6 DEF news
<1>7. CASE ~(n <= Len(log))
  <2>1. n - Len(log) \in 1 .. c
    BY <1>3, <1>5, <1>7
  <2>2. (log \o news)[n] = news[n - Len(log)]
    BY <1>4, <1>5, <1>7
  <2>3. news[n - Len(log)].row \in rows
    BY <1>1, <1>2, <2>1
  <2> QED
    BY <2>2, <2>3 DEF news
<1> QED
  BY <1>6, <1>7

\* Inboxes stay within their bound, and logs and sources speak of rows there are.
LEMMA InboxFitsStep ==
  ChannelInv /\ [SteeringNext]_allVars => InboxFits'
<1> SUFFICES ASSUME ChannelInv, [SteeringNext]_allVars, NEW q \in Runs
             PROVE  /\ Len(inbox'[q]) <= MaxRows
                    /\ q > created' => inbox'[q] = <<>> /\ told'[q] = <<>>
                    /\ \A n \in DOMAIN told'[q] : told'[q][n].row \in DOMAIN inbox'[q]
                    /\ \A i \in DOMAIN inbox'[q] :
                         inbox'[q][i].source[2] \in DOMAIN inbox'[inbox'[q][i].source[1]]
  BY DEF InboxFits
<1> DEFINE Goal == /\ Len(inbox'[q]) <= MaxRows
                   /\ q > created' => inbox'[q] = <<>> /\ told'[q] = <<>>
                   /\ \A n \in DOMAIN told'[q] : told'[q][n].row \in DOMAIN inbox'[q]
                   /\ \A i \in DOMAIN inbox'[q] :
                        inbox'[q][i].source[2] \in DOMAIN inbox'[inbox'[q][i].source[1]]
           Same == inbox'[q] = inbox[q] /\ told'[q] = told[q]
<1>0. /\ SteeringTypeOK /\ TypeOK /\ UncreatedIsBlank
      /\ InboxGrows /\ created <= created' /\ created \in Nat /\ created' \in Nat
  <2>1. SteeringTypeOK /\ TypeOK /\ UncreatedIsBlank
    BY DEF ChannelInv, IndInv
  <2>2. created' \in Nat
    BY <2>1, QueueSteps, TypeStep, BoundsAssumption DEF TypeOK
  <2>3. created \in Nat
    BY <2>1, BoundsAssumption DEF TypeOK
  <2> QED
    BY <2>1, <2>2, <2>3, InboxGrowth
<1>1. /\ Len(inbox[q]) <= MaxRows
      /\ q > created => inbox[q] = <<>> /\ told[q] = <<>>
      /\ \A n \in DOMAIN told[q] : told[q][n].row \in DOMAIN inbox[q]
  BY DEF ChannelInv, InboxFits
<1>2. /\ DOMAIN inbox[q] = 1 .. Len(inbox[q]) /\ Len(inbox[q]) \in Nat
      /\ told[q] \in Seq(Notices) /\ q \in Nat
  BY <1>0, InboxTypes, BoundsAssumption DEF Runs
\* A source there was is still there.
<1>3. ASSUME NEW p \in Runs, NEW i \in DOMAIN inbox[p]
      PROVE  inbox[p][i].source[2] \in DOMAIN inbox'[inbox[p][i].source[1]]
  <2>1. inbox[p][i].source[2] \in DOMAIN inbox[inbox[p][i].source[1]]
    BY DEF ChannelInv, InboxFits
  <2>2. inbox[p][i].source[1] \in Runs
    BY <1>0, InboxTypes DEF Rows
  <2> QED
    BY <1>0, <2>1, <2>2 DEF InboxGrows
<1>4. ASSUME NEW i \in DOMAIN inbox[q]
      PROVE  inbox'[q][i].source[2] \in DOMAIN inbox'[inbox'[q][i].source[1]]
  <2>1. inbox'[q][i].source = inbox[q][i].source
    BY <1>0 DEF InboxGrows
  <2> QED
    BY <1>3, <2>1
<1>5. CASE Same
  <2>1. q > created' => q > created
    BY <1>0, <1>2
  <2> QED
    BY <1>1, <1>4, <1>5, <2>1
<1>6. ASSUME NEW r \in Runs, NEW k \in Keys, Submit(r, k) PROVE Goal
  <2>1. CASE q # r
    BY <1>0, <1>5, <1>6, <2>1, SubmittedRows
  <2>2. CASE q = r
    <3> DEFINE m == Len(inbox[q]) + 1
    <3>0. status[q] # "absent" /\ created' = created /\ m <= MaxRows
      BY <1>6, <2>2 DEF Submit, Admits, vars, runVars
    <3>1. ~(q > created')
      BY <1>0, <3>0 DEF UncreatedIsBlank
    <3>2. /\ Len(inbox'[q]) = m /\ DOMAIN inbox'[q] = 1 .. m /\ m \in Indices
          /\ \A i \in DOMAIN inbox[q] : inbox'[q][i] = inbox[q][i]
          /\ inbox'[q][m] = Row(k, "pending", <<q, m>>)
          /\ told'[q] = told[q] \o Announce("accepted", {m})
      BY <1>0, <1>6, <2>2, SubmittedRows
    <3>3. ASSUME NEW n \in DOMAIN told'[q] PROVE told'[q][n].row \in DOMAIN inbox'[q]
      <4>1. {m} \in SUBSET Indices /\ "accepted" \in Kinds
        BY <3>2 DEF Kinds
      <4>2. (n \in DOMAIN told[q] /\ told'[q][n] = told[q][n]) \/ told'[q][n].row \in {m}
        <5>1. told[q] \in Seq(Notices) /\ told'[q] = told[q] \o Announce("accepted", {m})
          BY <1>2, <3>2
        <5> HIDE DEF m
        <5> QED
          BY <4>1, <5>1, RowsTold
      <4>3. DOMAIN inbox[q] \subseteq DOMAIN inbox'[q] /\ m \in DOMAIN inbox'[q]
        BY <1>2, <3>2
      <4> QED
        BY <1>1, <4>2, <4>3
    <3>4. ASSUME NEW i \in DOMAIN inbox'[q]
          PROVE  inbox'[q][i].source[2] \in DOMAIN inbox'[inbox'[q][i].source[1]]
      <4>1. CASE i \in DOMAIN inbox[q]
        BY <1>4, <4>1
      <4>2. CASE i = m
        <5>1. inbox'[q][i].source = <<q, m>> /\ m \in DOMAIN inbox'[q]
          BY <1>2, <3>2, <4>2 DEF Row
        <5> QED
          BY <5>1
      <4> QED
        BY <1>2, <3>2, <4>1, <4>2
    <3> QED
      BY <3>0, <3>1, <3>2, <3>3, <3>4
  <2> QED
    BY <2>1, <2>2
<1>7. ASSUME NEW r \in Runs, ResumeWithSteering(r) PROVE Goal
  <2> DEFINE new == created + 1
             P == PendingIn(r)
             c == Cardinality(P)
             mv == InOrder(P)
  <2>0. P \in SUBSET Indices /\ P \subseteq DOMAIN inbox[r]
    BY PendingFits
  <2>1. /\ new \in Runs /\ new # r /\ created' = new
        /\ c \in Nat /\ c <= MaxRows
        /\ Len(inbox'[r]) = Len(inbox[r]) /\ DOMAIN inbox'[r] = DOMAIN inbox[r]
        /\ Len(inbox'[new]) = c /\ DOMAIN inbox'[new] = 1 .. c
        /\ \A n \in 1 .. c : mv[n] \in P /\ inbox'[new][n] = inbox[r][mv[n]]
        /\ told'[r] = told[r] \o Announce("superseded", P)
        /\ told'[new] = Announce("accepted", 1 .. c)
        /\ \A p \in Runs : p # r /\ p # new => inbox'[p] = inbox[p] /\ told'[p] = told[p]
    BY <1>7, ResumedRows
  <2> HIDE DEF c, mv, P
  <2>2. CASE q = r
    <3>0. ~(q > created')
      <4>1. ~(q > created)
        BY <1>0, <1>7, <2>2 DEF ResumeWithSteering, Resume, Resumable, UncreatedIsBlank
      <4> QED
        BY <1>0, <1>2, <4>1
    <3>1. ASSUME NEW n \in DOMAIN told'[q] PROVE told'[q][n].row \in DOMAIN inbox'[q]
      <4>1. "superseded" \in Kinds
        BY DEF Kinds
      <4>2. (n \in DOMAIN told[q] /\ told'[q][n] = told[q][n]) \/ told'[q][n].row \in P
        <5>1. told[q] \in Seq(Notices) /\ told'[q] = told[q] \o Announce("superseded", P)
          BY <1>2, <2>1, <2>2
        <5> QED
          BY <2>0, <4>1, <5>1, RowsTold
      <4> QED
        BY <1>1, <2>0, <2>1, <2>2, <4>2
    <3> QED
      BY <1>1, <1>4, <2>1, <2>2, <3>0, <3>1
  <2>3. CASE q = new
    <3>0. ~(q > created')
      BY <1>0, <2>1, <2>3
    <3>1. ASSUME NEW n \in DOMAIN told'[q] PROVE told'[q][n].row \in DOMAIN inbox'[q]
      <4>0. 1 .. c \in SUBSET Indices /\ "accepted" \in Kinds
        BY <2>1, SteeringAssumption DEF Indices, Kinds
      <4>1. /\ Announce("accepted", 1 .. c) \in Seq(Notices)
            /\ Len(Announce("accepted", 1 .. c)) = Cardinality(1 .. c)
            /\ \A m \in 1 .. Cardinality(1 .. c) :
                 Announce("accepted", 1 .. c)[m] =
                   [kind |-> "accepted", row |-> InOrder(1 .. c)[m]]
        BY <4>0, Announced
      <4>2. n \in 1 .. Cardinality(1 .. c)
        BY <2>1, <2>3, <4>1, LenProperties
      <4>3. InOrder(1 .. c)[n] \in 1 .. c
        BY <4>0, <4>2, InOrderOfRows
      <4>4. told'[q][n] = [kind |-> "accepted", row |-> InOrder(1 .. c)[n]]
        BY <2>1, <2>3, <4>1, <4>2
      <4>5. DOMAIN inbox'[q] = 1 .. c
        BY <2>1, <2>3
      <4> QED
        BY <4>3, <4>4, <4>5
    <3>2. ASSUME NEW i \in DOMAIN inbox'[q]
          PROVE  inbox'[q][i].source[2] \in DOMAIN inbox'[inbox'[q][i].source[1]]
      <4>1. inbox'[q][i] = inbox[r][mv[i]] /\ mv[i] \in DOMAIN inbox[r]
        BY <2>0, <2>1, <2>3
      <4> QED
        BY <1>3, <4>1
    <3> QED
      BY <2>1, <2>3, <3>0, <3>1, <3>2
  <2>4. CASE q # r /\ q # new
    BY <1>5, <2>1, <2>4
  <2> QED
    BY <2>2, <2>3, <2>4
<1>8. ASSUME NEW r \in Runs, NEW rows \in SUBSET Indices, NEW s \in {"consumed", "superseded"},
             rows \subseteq DOMAIN inbox[r], Disposes(r, rows, s), status[r] # "absent"
      PROVE  Goal
  <2>b. SteeringTypeOK /\ s \in Kinds
    BY <1>0 DEF Kinds
  <2>0. /\ \A p \in Runs : Len(inbox'[p]) = Len(inbox[p])
        /\ \A p \in Runs : DOMAIN inbox'[p] = DOMAIN inbox[p]
        /\ told'[r] = told[r] \o Announce(s, rows)
        /\ \A p \in Runs : p # r => inbox'[p] = inbox[p] /\ told'[p] = told[p]
    <3>1. \A p \in Runs : Len(inbox'[p]) = Len(inbox[p])
      BY <2>b, <1>8, DisposedRows
    <3>2. \A p \in Runs : DOMAIN inbox'[p] = DOMAIN inbox[p]
      BY <2>b, <1>8, DisposedRows
    <3>3. told'[r] = told[r] \o Announce(s, rows)
      <4>1. told \in [Runs -> Seq(Notices)]
        BY <2>b DEF SteeringTypeOK
      <4> QED
        BY <1>8, <4>1 DEF Disposes
    <3>4. \A p \in Runs : p # r => inbox'[p] = inbox[p] /\ told'[p] = told[p]
      BY <2>b, <1>8, DisposedRows
    <3> QED
      BY <3>1, <3>2, <3>3, <3>4
  <2>1. CASE q # r
    BY <1>5, <2>0, <2>1
  <2>2. CASE q = r
    <3>1. ~(q > created')
      <4>1. ~(q > created)
        BY <1>0, <1>8, <2>2 DEF UncreatedIsBlank
      <4> QED
        BY <1>0, <1>2, <4>1
    <3>2. ASSUME NEW n \in DOMAIN told'[q] PROVE told'[q][n].row \in DOMAIN inbox'[q]
      <4>1. (n \in DOMAIN told[q] /\ told'[q][n] = told[q][n]) \/ told'[q][n].row \in rows
        <5>1. told[q] \in Seq(Notices) /\ told'[q] = told[q] \o Announce(s, rows)
          BY <1>2, <2>0, <2>2
        <5> QED
          BY <2>b, <5>1, RowsTold
      <4> QED
        BY <1>1, <1>8, <2>0, <2>2, <4>1
    <3> QED
      BY <1>1, <1>4, <2>0, <2>2, <3>1, <3>2
  <2> QED
    BY <2>1, <2>2
<1>9. ASSUME NEW w \in Workers, Finalize(w) PROVE Goal
  <2>1. held[w] \in Runs /\ status[held[w]] # "absent"
    BY <1>0, <1>9, BoundsAssumption
       DEF Finalize, FinalizeRun, FinishIfOwned, Owns, ACTIVE, TypeOK, Runs
  <2>2. Disposes(held[w], PendingIn(held[w]), "superseded")
    BY <1>9 DEF Finalize, Leftover, Disposes
  <2>3. /\ PendingIn(held[w]) \in SUBSET Indices
        /\ PendingIn(held[w]) \subseteq DOMAIN inbox[held[w]]
    BY <2>1, PendingFits
  <2> QED
    BY <1>8, <2>1, <2>2, <2>3
<1>10. ASSUME NEW w \in Workers, Fenced(w) PROVE Goal
  <2>1. PICK r \in Runs, rows \in SUBSET Indices :
          /\ CommitRows(r, rows) /\ rows \subseteq DOMAIN inbox[r]
          /\ status[r] \in ACTIVE
    BY <1>10 DEF Fenced, Owns, MayCommit
  <2> QED
    BY <1>8, <2>1, CommitDisposes DEF ACTIVE
<1> QED
  BY <1>5, <1>6, <1>7, <1>9, <1>10, InboxSteps DEF Quiet

-----------------------------------------------------------------------------
(* Nothing is left without a disposition                                    *)

\* Rows wait longer only where a row is admitted or moved to.
LEMMA PendingShrinks ==
  ASSUME InboxGrows, NEW q \in Runs, DOMAIN inbox'[q] = DOMAIN inbox[q]
  PROVE  PendingIn(q)' \subseteq PendingIn(q)
BY DEF PendingIn, InboxGrows

\* Disposing of all that waits in a run leaves nothing that waits.
LEMMA DisposalSettles ==
  ASSUME ChannelInv, NEW r \in Runs,
         Disposes(r, PendingIn(r), "superseded")
  PROVE  PendingIn(r)' = {}
<1> DEFINE P == PendingIn(r)
<1>0. SteeringTypeOK
  BY DEF ChannelInv
<1>1. P \in SUBSET Indices /\ P \subseteq DOMAIN inbox[r] /\ Disposes(r, P, "superseded")
  BY PendingFits
<1>2. Len(inbox[r]) <= MaxRows
  BY DEF ChannelInv, InboxFits
<1>3. DOMAIN inbox[r] \subseteq Indices /\ \A i \in DOMAIN inbox[r] : inbox[r][i] \in Rows
  BY <1>0, <1>2, InboxTypes, SteeringAssumption DEF Indices
<1>4. ASSUME NEW i \in DOMAIN inbox'[r] PROVE inbox'[r][i].state # "pending"
  <2> HIDE DEF P
  <2>1. DOMAIN inbox'[r] = DOMAIN inbox[r]
    BY <1>0, <1>1, DisposedRows
  <2>2. i \in Indices /\ i \in DOMAIN inbox[r] /\ inbox[r][i] \in Rows
    BY <1>3, <2>1
  <2>3. inbox'[r][i] = IF i \in P THEN As(inbox[r][i], "superseded") ELSE inbox[r][i]
    <3>1. \A q \in Runs, j \in Indices : j \in DOMAIN inbox[q] =>
            inbox'[q][j] = IF q = r /\ j \in P THEN As(inbox[q][j], "superseded")
                           ELSE inbox[q][j]
      BY <1>0, <1>1, DisposedRows
    <3> QED
      BY <2>2, <3>1
  <2>4. i \notin P => inbox[r][i].state # "pending"
    BY <2>2 DEF P, PendingIn
  <2> QED
    BY <2>2, <2>3, <2>4, AsKeeps DEF RowStates
<1> QED
  BY <1>4 DEF PendingIn

\* A run that ended by its own outcome, or that another continues, keeps no
\* row waiting.
LEMMA SettledStep ==
  ChannelInv /\ [SteeringNext]_allVars => NothingStranded' /\ ResumedInboxIsSettled'
<1> SUFFICES ASSUME ChannelInv, [SteeringNext]_allVars, NEW q \in Runs,
                    status'[q] \in Ended \/ successor'[q] # 0
             PROVE  PendingIn(q)' = {}
  BY DEF NothingStranded, ResumedInboxIsSettled, Ended
<1>0. /\ TypeOK /\ UncreatedIsBlank /\ InboxGrows
      /\ status[q] \in Ended \/ successor[q] # 0 => PendingIn(q) = {}
  BY InboxGrowth DEF ChannelInv, IndInv, NothingStranded, ResumedInboxIsSettled, Ended
<1>1. CASE Quiet
  <2>1. inbox' = inbox /\ (status[q] \in Ended \/ successor[q] # 0)
    BY <1>1 DEF Quiet, NoneEnds
  <2> QED
    BY <1>0, <2>1, PendingShrinks
<1>2. ASSUME NEW r \in Runs, NEW k \in Keys, Submit(r, k) PROVE PendingIn(q)' = {}
  <2>1. UNCHANGED <<status, successor>>
    BY <1>2 DEF Submit, vars, runVars
  <2>2. q # r
    BY <1>2, <2>1 DEF Submit, Admits, Ended, TERMINAL
  <2>3. inbox'[q] = inbox[q]
    BY <1>2, <2>2, SubmittedRows DEF ChannelInv
  <2> QED
    BY <1>0, <2>1, <2>3, PendingShrinks
<1>3. ASSUME NEW r \in Runs, ResumeWithSteering(r) PROVE PendingIn(q)' = {}
  <2> DEFINE new == created + 1
             P == PendingIn(r)
  <2>0. /\ new \in Runs /\ new # r
        /\ DOMAIN inbox'[r] = DOMAIN inbox[r]
        /\ \A p \in Runs : p # r /\ p # new => inbox'[p] = inbox[p]
        /\ \A i \in DOMAIN inbox[r] :
             inbox'[r][i] = IF i \in P THEN As(inbox[r][i], "superseded")
                            ELSE inbox[r][i]
    BY <1>3, ResumedRows
  <2>1. status' = [status EXCEPT ![new] = "pending"]
        /\ successor' = [successor EXCEPT ![r] = new]
    BY <1>3 DEF ResumeWithSteering, Resume
  <2>2. q # new
    <3>1. new > created /\ new # 0
      BY <1>0, BoundsAssumption DEF TypeOK, Runs
    <3>2. successor[new] = 0
      BY <1>0, <2>0, <3>1 DEF UncreatedIsBlank
    <3> QED
      BY <1>0, <2>0, <2>1, <3>2 DEF TypeOK, Ended
  <2>3. CASE q = r
    <3> HIDE DEF P
    <3>1. ASSUME NEW i \in DOMAIN inbox'[r] PROVE inbox'[r][i].state # "pending"
      <4>1. i \in DOMAIN inbox[r] /\ inbox[r][i] \in Rows
        BY <2>0, InboxTypes DEF ChannelInv
      <4>2. i \notin P => inbox[r][i].state # "pending"
        BY <4>1 DEF P, PendingIn
      <4> QED
        BY <2>0, <4>1, <4>2, AsKeeps DEF RowStates
    <3> QED
      BY <2>3, <3>1 DEF PendingIn
  <2>4. CASE q # r
    <3>1. inbox'[q] = inbox[q] /\ status'[q] = status[q] /\ successor'[q] = successor[q]
      BY <1>0, <2>0, <2>1, <2>2, <2>4 DEF TypeOK
    <3> QED
      BY <1>0, <3>1, PendingShrinks
  <2> QED
    BY <2>3, <2>4
<1>4. ASSUME NEW w \in Workers, Finalize(w) PROVE PendingIn(q)' = {}
  <2>1. held[w] \in Runs
    BY <1>0, <1>4, BoundsAssumption
       DEF Finalize, FinalizeRun, FinishIfOwned, Owns, TypeOK, Runs
  <2>2. Disposes(held[w], PendingIn(held[w]), "superseded")
    BY <1>4 DEF Finalize, Leftover, Disposes
  <2>3. CASE q = held[w]
    BY <2>1, <2>2, <2>3, DisposalSettles
  <2>4. CASE q # held[w]
    <3>1. inbox'[q] = inbox[q]
      <4>1. inbox \in [Runs -> Seq(Rows)]
        BY DEF ChannelInv, SteeringTypeOK, Rows
      <4> QED
        BY <2>2, <2>4, <4>1 DEF Disposes
    <3>2. status'[q] = status[q] /\ successor'[q] = successor[q]
      BY <1>0, <1>4, <2>4 DEF Finalize, FinalizeRun, FinishIfOwned, Release, TypeOK
    <3> QED
      BY <1>0, <3>1, <3>2, PendingShrinks
  <2> QED
    BY <2>3, <2>4
<1>5. ASSUME NEW w \in Workers, Fenced(w) PROVE PendingIn(q)' = {}
  <2>1. PICK r \in Runs, rows \in SUBSET Indices :
          CommitRows(r, rows) /\ rows \subseteq DOMAIN inbox[r] /\ UNCHANGED runVars
    BY <1>5 DEF Fenced
  <2> DEFINE new == {i \in rows : inbox[r][i].state # "consumed"}
  <2>2. Disposes(r, new, "consumed") /\ new \in SUBSET Indices /\ new \subseteq DOMAIN inbox[r]
    BY <2>1, CommitDisposes
  <2> HIDE DEF new
  <2>3. SteeringTypeOK
    BY DEF ChannelInv
  <2>4. DOMAIN inbox'[q] = DOMAIN inbox[q]
    BY <2>2, <2>3, DisposedRows
  <2>5. UNCHANGED <<status, successor>>
    BY <2>1 DEF runVars
  <2> QED
    BY <1>0, <2>4, <2>5, PendingShrinks
<1> QED
  BY <1>1, <1>2, <1>3, <1>4, <1>5, InboxSteps

-----------------------------------------------------------------------------
(* What a channel holds                                                     *)

\* Draining hands the graph what is fresh, behind what it was handed before.
LEMMA DrainHands ==
  ASSUME ChannelInv, NEW v \in Workers, DrainSteering(v)
  PROVE  /\ ToSet(handed'[v]) = ToSet(handed[v]) \cup fresh[v]
         /\ fresh'[v] = {} /\ drained'[v] = drained[v] \cup fresh[v]
         /\ Known(v)' = Known(v)
         /\ \A i, j \in DOMAIN handed'[v] : i < j => handed'[v][i] < handed'[v][j]
<1> DEFINE s == handed[v]
           t == InOrder(fresh[v])
           c == Cardinality(fresh[v])
           new == s \o t
<1>0. /\ handed \in [Workers -> Seq(Indices)] /\ fresh \in [Workers -> SUBSET Indices]
      /\ drained \in [Workers -> SUBSET Indices]
  BY DEF ChannelInv, SteeringTypeOK
<1>1. /\ handed'[v] = new /\ fresh'[v] = {} /\ drained'[v] = drained[v] \cup fresh[v]
  BY <1>0 DEF DrainSteering
<1>2. /\ s \in Seq(Indices) /\ Len(s) \in Nat /\ DOMAIN s = 1 .. Len(s)
      /\ \A i \in 1 .. Len(s) : s[i] \in Indices
  BY <1>0, LenProperties, ElementOfSeq
<1>3. /\ t \in Seq(Indices) /\ Len(t) = c /\ c \in Nat
      /\ \A n \in 1 .. c : t[n] \in fresh[v]
      /\ \A x \in fresh[v] : \E n \in 1 .. c : t[n] = x
      /\ \A m, n \in 1 .. c : m < n => t[m] < t[n]
  BY <1>0, InOrderOfRows, RowsAreFinite
<1>4. /\ \A i, j \in DOMAIN s : i < j => s[i] < s[j]
      /\ \A i \in fresh[v], j \in ToSet(s) : j < i
  BY DEF ChannelInv, HandedInOrder, ReadsInOrder
<1> HIDE DEF s, t, c
<1>5. /\ new \in Seq(Indices) /\ Len(new) = Len(s) + c
      /\ \A i \in 1 .. Len(s) + c : new[i] = IF i <= Len(s) THEN s[i] ELSE t[i - Len(s)]
  <2>1. s \in Seq(Indices) /\ t \in Seq(Indices)
    BY <1>2, <1>3
  <2>2. /\ s \o t \in Seq(Indices) /\ Len(s \o t) = Len(s) + Len(t)
        /\ \A i \in 1 .. Len(s) + Len(t) : (s \o t)[i] = IF i <= Len(s) THEN s[i] ELSE t[i - Len(s)]
    BY <2>1, ConcatProperties, Zenon
  <2> QED
    BY <1>3, <2>2
<1>6. DOMAIN new = 1 .. Len(s) + c
  BY <1>5, LenProperties
<1> HIDE DEF new
<1>7. ToSet(new) = ToSet(s) \cup fresh[v]
  <2>1. ASSUME NEW x \in ToSet(new) PROVE x \in ToSet(s) \cup fresh[v]
    <3>1. PICK i \in 1 .. Len(s) + c : x = new[i]
      BY <1>6, <2>1 DEF ToSet
    <3>2. CASE i <= Len(s)
      BY <1>2, <1>5, <3>1, <3>2 DEF ToSet
    <3>3. CASE ~(i <= Len(s))
      <4>1. i - Len(s) \in 1 .. c
        BY <1>2, <1>3, <3>3
      <4> QED
        BY <1>3, <1>5, <3>1, <3>3, <4>1
    <3> QED
      BY <3>2, <3>3
  <2>2. ASSUME NEW x \in ToSet(s) PROVE x \in ToSet(new)
    <3>1. PICK i \in 1 .. Len(s) : x = s[i]
      BY <1>2, <2>2 DEF ToSet
    <3>2. i \in 1 .. Len(s) + c /\ i <= Len(s)
      BY <1>2, <1>3
    <3> QED
      BY <1>5, <1>6, <3>1, <3>2 DEF ToSet
  <2>3. ASSUME NEW x \in fresh[v] PROVE x \in ToSet(new)
    <3>1. PICK n \in 1 .. c : t[n] = x
      BY <1>3, <2>3
    <3>2. n + Len(s) \in 1 .. Len(s) + c /\ ~(n + Len(s) <= Len(s)) /\ (n + Len(s)) - Len(s) = n
      BY <1>2, <1>3
    <3>3. new[n + Len(s)] = x
      BY <1>5, <3>1, <3>2
    <3> QED
      BY <1>6, <3>2, <3>3 DEF ToSet
  <2> QED
    BY <2>1, <2>2, <2>3
<1>8. ASSUME NEW i \in 1 .. Len(s) + c, NEW j \in 1 .. Len(s) + c, i < j
      PROVE  new[i] < new[j]
  <2>1. CASE j <= Len(s)
    <3>1. i \in DOMAIN s /\ j \in DOMAIN s /\ i <= Len(s)
      BY <1>2, <1>3, <1>8, <2>1
    <3> QED
      BY <1>4, <1>5, <1>8, <2>1, <3>1
  <2>2. CASE ~(j <= Len(s)) /\ i <= Len(s)
    <3>1. j - Len(s) \in 1 .. c /\ i \in DOMAIN s
      BY <1>2, <1>3, <2>2
    <3>2. new[i] = s[i] /\ new[j] = t[j - Len(s)]
      BY <1>5, <2>2
    <3>3. s[i] \in ToSet(s) /\ t[j - Len(s)] \in fresh[v]
      BY <1>3, <3>1 DEF ToSet
    <3> QED
      BY <1>4, <3>2, <3>3
  <2>3. CASE ~(j <= Len(s)) /\ ~(i <= Len(s))
    <3>1. j - Len(s) \in 1 .. c /\ i - Len(s) \in 1 .. c /\ i - Len(s) < j - Len(s)
      BY <1>2, <1>3, <1>8, <2>3
    <3> QED
      BY <1>3, <1>5, <2>3, <3>1
  <2> QED
    BY <1>8, <2>1, <2>2, <2>3
<1>9. Known(v)' = Known(v)
  BY <1>1, <1>7 DEF Known, s
<1> QED
  BY <1>1, <1>6, <1>7, <1>8, <1>9 DEF s

\* A worker knows rows of the run it holds, and drained what it was handed.
LEMMA ChannelFitsStep ==
  ChannelInv /\ [SteeringNext]_allVars => ChannelFits'
<1> SUFFICES ASSUME ChannelInv, [SteeringNext]_allVars, NEW v \in Workers
             PROVE  /\ held'[v] <= created'
                    /\ (held[v] = 0 => Known(v) \cup snapshot[v] = {})'
                    /\ (held[v] # 0 => Known(v) \cup snapshot[v] \subseteq DOMAIN inbox[held[v]])'
                    /\ fresh'[v] \cap ToSet(handed'[v]) = {}
                    /\ batch'[v] \subseteq drained'[v] /\ drained'[v] \subseteq ToSet(handed'[v])
                    /\ (late[v] # NoCommit =>
                          /\ late[v].run \in 1 .. created
                          /\ late[v].rows \subseteq DOMAIN inbox[late[v].run])'
  BY DEF ChannelFits
<1>0. /\ TypeOK /\ UncreatedIsBlank /\ InboxGrows /\ ChannelTypes
      /\ created <= created' /\ created \in Nat /\ created' \in Nat /\ created <= MaxRuns
      /\ held[v] \in Nat
  <2>1. TypeOK /\ UncreatedIsBlank /\ InboxGrows /\ ChannelTypes /\ created <= created'
    BY InboxGrowth DEF ChannelInv, IndInv, SteeringTypeOK, ChannelTypes
  <2>2. TypeOK'
    BY <2>1, QueueSteps, TypeStep
  <2>3. created \in Nat /\ created' \in Nat /\ created <= MaxRuns /\ held[v] \in Nat
    BY <2>1, <2>2, BoundsAssumption DEF TypeOK
  <2> QED
    BY <2>1, <2>3
<1>1. /\ held[v] <= created
      /\ held[v] = 0 => Known(v) \cup snapshot[v] = {}
      /\ held[v] # 0 => Known(v) \cup snapshot[v] \subseteq DOMAIN inbox[held[v]]
      /\ fresh[v] \cap ToSet(handed[v]) = {}
      /\ batch[v] \subseteq drained[v] /\ drained[v] \subseteq ToSet(handed[v])
      /\ late[v] # NoCommit => /\ late[v].run \in 1 .. created
                               /\ late[v].rows \subseteq DOMAIN inbox[late[v].run]
  BY DEF ChannelInv, ChannelFits
<1>2. held[v] # 0 => held[v] \in 1 .. created /\ held[v] \in Runs
                     /\ DOMAIN inbox[held[v]] \subseteq DOMAIN inbox'[held[v]]
  <2>1. held[v] # 0 => held[v] \in 1 .. created /\ held[v] \in Runs
    BY <1>0, <1>1, BoundsAssumption DEF Runs
  <2> QED
    BY <1>0, <2>1 DEF InboxGrows
<1>3. ASSUME late'[v] = late[v]
      PROVE  (late[v] # NoCommit => /\ late[v].run \in 1 .. created
                                    /\ late[v].rows \subseteq DOMAIN inbox[late[v].run])'
  <2> SUFFICES ASSUME late[v] # NoCommit
               PROVE  /\ late[v].run \in 1 .. created'
                      /\ late[v].rows \subseteq DOMAIN inbox'[late[v].run]
    BY <1>3
  <2>1. late[v].run \in 1 .. created' /\ late[v].run \in Runs
    BY <1>0, <1>1, BoundsAssumption DEF Runs
  <2> QED
    BY <1>0, <1>1, <2>1 DEF InboxGrows
<1>4. CASE Kept(v)
  <2>1. Known(v)' = Known(v) /\ snapshot'[v] \subseteq snapshot[v] /\ held'[v] = held[v]
    BY <1>4 DEF Kept, Known
  <2>2. (held[v] # 0 => Known(v) \cup snapshot[v] \subseteq DOMAIN inbox[held[v]])'
    BY <1>1, <1>2, <2>1
  <2>3. held'[v] <= created'
    BY <1>0, <1>1, <2>1
  <2>4. (late[v] # NoCommit => /\ late[v].run \in 1 .. created
                               /\ late[v].rows \subseteq DOMAIN inbox[late[v].run])'
    <3>1. CASE late'[v] = late[v]
      BY <1>3, <3>1
    <3>2. CASE late'[v] = NoCommit
      BY <3>2
    <3>3. CASE /\ held[v] # 0
               /\ late'[v] = [run |-> held[v], rows |-> batch[v], attempt |-> heldAttempt[v]]
      <4>1. held[v] \in 1 .. created'
        BY <1>0, <1>2, <3>3
      <4>2. batch[v] \subseteq DOMAIN inbox'[held[v]]
        BY <1>1, <1>2, <3>3 DEF Known
      <4>3. late'[v].run = held[v] /\ late'[v].rows = batch[v]
        BY <3>3
      <4> QED
        BY <4>1, <4>2, <4>3
    <3> QED
      BY <1>4, <3>1, <3>2, <3>3 DEF Kept
  <2>5. fresh'[v] = fresh[v] /\ handed'[v] = handed[v]
    BY <1>4 DEF Kept
  <2>6. batch'[v] \subseteq drained'[v] /\ drained'[v] \subseteq ToSet(handed'[v])
    BY <1>1, <1>4, <2>5 DEF Kept
  <2>7. (held[v] = 0 => Known(v) \cup snapshot[v] = {})'
    BY <1>1, <2>1
  <2> QED
    BY <1>1, <2>2, <2>3, <2>4, <2>5, <2>6, <2>7
<1>5. CASE Empties(v) /\ (held'[v] = 0 \/ Claim(v))
  <2>1. ToSet(handed'[v]) = {} /\ Known(v)' = {} /\ snapshot'[v] = {}
    BY <1>5 DEF Empties, Known, ToSet
  <2>2. held'[v] <= created'
    <3>1. CASE held'[v] = 0
      BY <1>0, <3>1
    <3>2. CASE Claim(v)
      <4>1. PICK r \in Runs : Claimable(r) /\ held' = [held EXCEPT ![v] = r]
        BY <3>2 DEF Claim, ClaimRun
      <4>2. status[r] # "absent"
        BY <1>0, <4>1, Sweep DEF Claimable
      <4>3. ~(r > created) /\ r \in Nat
        BY <1>0, <4>2, BoundsAssumption DEF UncreatedIsBlank, Runs
      <4> QED
        BY <1>0, <4>1, <4>3 DEF TypeOK
    <3> QED
      BY <1>5, <3>1, <3>2
  <2> QED
    BY <1>3, <1>5, <2>1, <2>2 DEF Empties
<1>6. ASSUME ReadInbox(v) \/ Ingest(v) \/ DrainSteering(v)
      PROVE  /\ UNCHANGED <<held, inbox, created>> /\ late'[v] = late[v]
             /\ held'[v] <= created' /\ held[v] # 0
  <2>1. UNCHANGED <<held, inbox, created>> /\ late'[v] = late[v]
    BY <1>6 DEF ReadInbox, Ingest, DrainSteering, vars, workerVars, runVars
  <2>2. pc[v] = "executing" \/ beat[v] # "off"
    BY <1>6 DEF ReadInbox, Ingest, DrainSteering, Running
  <2>3. held[v] # 0
    BY <2>2 DEF ChannelInv, IndInv, BusyIffHolding, BeatFits
  <2> QED
    BY <1>0, <1>1, <2>1, <2>3
<1>7. CASE ReadInbox(v)
  <2>1. /\ fresh' = fresh /\ handed' = handed /\ drained' = drained /\ batch' = batch
        /\ snapshot'[v] = PendingIn(held[v])
    BY <1>0, <1>7 DEF ReadInbox, Listed, ChannelTypes
  <2>2. PendingIn(held[v]) \subseteq DOMAIN inbox[held[v]]
    BY DEF PendingIn
  <2> QED
    BY <1>1, <1>3, <1>6, <1>7, <2>1, <2>2 DEF Known
<1>8. CASE Ingest(v)
  <2>1. /\ handed' = handed /\ drained' = drained /\ snapshot'[v] = {}
        /\ fresh'[v] = fresh[v] \cup (snapshot[v] \ Known(v))
        /\ batch'[v] \subseteq drained[v]
    <3>1. handed' = handed /\ drained' = drained /\ snapshot'[v] = {}
      BY <1>0, <1>8 DEF Ingest, ChannelTypes
    <3>2. fresh'[v] = fresh[v] \cup (snapshot[v] \ Known(v))
      BY <1>0, <1>8 DEF Ingest, ChannelTypes
    <3>3. batch'[v] \subseteq drained[v]
      BY <1>0, <1>1, <1>8 DEF Ingest, ChannelTypes
    <3> QED
      BY <3>1, <3>2, <3>3
  <2>2. Known(v)' \subseteq Known(v) \cup snapshot[v]
    BY <2>1 DEF Known
  <2>3. fresh'[v] \cap ToSet(handed'[v]) = {}
    BY <1>1, <2>1 DEF Known
  <2> QED
    BY <1>1, <1>3, <1>6, <1>8, <2>1, <2>2, <2>3
<1>9. CASE DrainSteering(v)
  <2>1. /\ ToSet(handed'[v]) = ToSet(handed[v]) \cup fresh[v]
        /\ fresh'[v] = {} /\ drained'[v] = drained[v] \cup fresh[v]
        /\ Known(v)' = Known(v)
    BY <1>9, DrainHands
  <2>2. snapshot' = snapshot /\ batch' = batch
    BY <1>9 DEF DrainSteering
  <2> QED
    BY <1>1, <1>3, <1>6, <1>9, <2>1, <2>2
<1> QED
  BY <1>4, <1>5, <1>7, <1>8, <1>9, DeliverySteps

\* A worker reads and hands out rows in the order of their acceptance.
LEMMA OrderStep ==
  ChannelInv /\ [SteeringNext]_allVars => ReadsInOrder' /\ HandedInOrder'
<1> SUFFICES ASSUME ChannelInv, [SteeringNext]_allVars, NEW v \in Workers
             PROVE  /\ \A i \in fresh'[v], j \in ToSet(handed'[v]) : j < i
                    /\ \A i \in snapshot'[v] \ Known(v)', j \in Known(v)' : j < i
                    /\ \A j \in Known(v)' \cup snapshot'[v] : \A i \in 1 .. j - 1 :
                         \/ i \in Known(v)' \cup snapshot'[v]
                         \/ inbox'[held'[v]][i].state # "pending"
                    /\ \A i, j \in DOMAIN handed'[v] : i < j => handed'[v][i] < handed'[v][j]
  BY DEF ReadsInOrder, HandedInOrder
<1> DEFINE N == Known(v) \cup snapshot[v]
<1>0. /\ \A i \in fresh[v], j \in ToSet(handed[v]) : j < i
      /\ \A i \in snapshot[v] \ Known(v), j \in Known(v) : j < i
      /\ \A j \in N : \A i \in 1 .. j - 1 : i \in N \/ inbox[held[v]][i].state # "pending"
      /\ \A i, j \in DOMAIN handed[v] : i < j => handed[v][i] < handed[v][j]
  BY DEF ChannelInv, ReadsInOrder, HandedInOrder
<1>1. ChannelTypes /\ InboxGrows /\ SteeringTypeOK
  BY InboxGrowth DEF ChannelInv, SteeringTypeOK, ChannelTypes
<1>2. held[v] # 0 => held[v] \in Runs /\ N \subseteq DOMAIN inbox[held[v]]
  BY DrainedAreRows
<1>3. held[v] = 0 => N = {}
  BY DEF ChannelInv, ChannelFits
\* Whatever lies before a known row is a row.
<1>4. ASSUME NEW j \in N, NEW i \in 1 .. j - 1
      PROVE  /\ held[v] \in Runs /\ i \in DOMAIN inbox[held[v]]
             /\ i \in Nat /\ j \in Nat /\ i < j
  <2>1. held[v] \in Runs /\ j \in DOMAIN inbox[held[v]]
    BY <1>2, <1>3
  <2>2. DOMAIN inbox[held[v]] = 1 .. Len(inbox[held[v]]) /\ Len(inbox[held[v]]) \in Nat
    BY <1>1, <2>1, InboxTypes
  <2> QED
    BY <2>1, <2>2
<1>5. CASE Kept(v)
  <2>1. /\ Known(v)' = Known(v) /\ fresh'[v] = fresh[v] /\ handed'[v] = handed[v]
        /\ held'[v] = held[v] /\ (snapshot'[v] = snapshot[v] \/ snapshot'[v] = {})
    BY <1>5 DEF Kept, Known
  <2>2. ASSUME NEW j \in Known(v)' \cup snapshot'[v], NEW i \in 1 .. j - 1,
               i \notin Known(v)' \cup snapshot'[v]
        PROVE  inbox'[held'[v]][i].state # "pending"
    <3>1. j \in N
      BY <2>1, <2>2
    <3>2. i \notin N
      <4>1. CASE snapshot'[v] = snapshot[v]
        BY <2>1, <2>2, <4>1
      <4>2. CASE snapshot'[v] = {}
        <5>1. j \in Known(v) /\ i \notin Known(v)
          BY <2>1, <2>2, <4>2
        <5>2. i \in snapshot[v] => j < i
          BY <1>0, <5>1
        <5>3. i \in Nat /\ j \in Nat /\ i < j
          BY <1>4, <3>1
        <5> QED
          BY <5>1, <5>2, <5>3
      <4> QED
        BY <2>1, <4>1, <4>2
    <3>3. inbox[held[v]][i].state # "pending"
      BY <1>0, <3>1, <3>2
    <3> QED
      BY <1>1, <1>4, <2>1, <3>1, <3>3 DEF InboxGrows
  <2> QED
    BY <1>0, <2>1, <2>2
<1>6. CASE Empties(v)
  <2>1. fresh'[v] = {} /\ handed'[v] = <<>> /\ Known(v)' = {} /\ snapshot'[v] = {}
    BY <1>6 DEF Empties, Known, ToSet
  <2> QED
    BY <2>1
<1>7. ASSUME ReadInbox(v) \/ Ingest(v) \/ DrainSteering(v)
      PROVE  UNCHANGED <<held, inbox>> /\ held[v] \in Runs
  <2>1. UNCHANGED <<held, inbox>>
    BY <1>7 DEF ReadInbox, Ingest, DrainSteering, vars, workerVars
  <2>2. pc[v] = "executing" \/ beat[v] # "off"
    BY <1>7 DEF ReadInbox, Ingest, DrainSteering, Running
  <2>3. held[v] # 0
    BY <2>2 DEF ChannelInv, IndInv, BusyIffHolding, BeatFits
  <2> QED
    BY <1>2, <2>1, <2>3
<1>8. CASE ReadInbox(v)
  <2>0. snapshot[v] = {}
    BY <1>8 DEF ReadInbox, ChannelInv, BeatFits
  <2>1. /\ fresh' = fresh /\ handed' = handed
        /\ snapshot'[v] = PendingIn(held[v])
    BY <1>1, <1>8 DEF ReadInbox, Listed, ChannelTypes
  <2>2. Known(v)' = Known(v)
    BY <2>1 DEF Known
  <2>3. /\ DOMAIN inbox[held[v]] = 1 .. Len(inbox[held[v]]) /\ Len(inbox[held[v]]) \in Nat
        /\ Known(v) \subseteq DOMAIN inbox[held[v]]
        /\ PendingIn(held[v]) \subseteq DOMAIN inbox[held[v]]
    BY <1>1, <1>2, <1>3, <1>7, <1>8, InboxTypes DEF PendingIn
  <2>4. ASSUME NEW i \in PendingIn(held[v]) \ Known(v), NEW j \in Known(v) PROVE j < i
    <3>1. i \in Nat /\ j \in Nat /\ i # j /\ i >= 1
      BY <2>3
    <3>2. ASSUME i < j PROVE FALSE
      <4>1. i \in 1 .. j - 1 /\ j \in N /\ i \notin N
        BY <2>0, <3>1, <3>2
      <4>2. inbox[held[v]][i].state # "pending"
        BY <1>0, <4>1
      <4> QED
        BY <4>2 DEF PendingIn
    <3> QED
      BY <3>1, <3>2
  <2>5. ASSUME NEW j \in Known(v) \cup PendingIn(held[v]), NEW i \in 1 .. j - 1
        PROVE  i \in Known(v) \cup PendingIn(held[v]) \/ inbox[held[v]][i].state # "pending"
    <3>1. i \in DOMAIN inbox[held[v]]
      BY <2>3
    <3> QED
      BY <3>1 DEF PendingIn
  <2> QED
    BY <1>0, <1>7, <1>8, <2>1, <2>2, <2>4, <2>5
<1>9. CASE Ingest(v)
  <2>1. /\ handed' = handed /\ snapshot'[v] = {}
        /\ fresh'[v] = fresh[v] \cup (snapshot[v] \ Known(v))
    BY <1>1, <1>9 DEF Ingest, ChannelTypes
  <2>2. Known(v)' \cup snapshot'[v] = N
    BY <2>1 DEF Known
  <2>3. ASSUME NEW i \in fresh'[v], NEW j \in ToSet(handed'[v]) PROVE j < i
    BY <1>0, <2>1, <2>3 DEF Known
  <2> QED
    BY <1>0, <1>7, <1>9, <2>1, <2>2, <2>3
<1>10. CASE DrainSteering(v)
  <2>1. /\ fresh'[v] = {} /\ Known(v)' = Known(v)
        /\ \A i, j \in DOMAIN handed'[v] : i < j => handed'[v][i] < handed'[v][j]
    BY <1>10, DrainHands
  <2>2. snapshot' = snapshot
    BY <1>10 DEF DrainSteering
  <2> QED
    BY <1>0, <1>7, <1>10, <2>1, <2>2
<1> QED
  BY <1>5, <1>6, <1>8, <1>9, <1>10, DeliverySteps

-----------------------------------------------------------------------------
(* What a step does to the rows of a run that is being delivered            *)

\* The row is one that w may commit: drained by its delivery, or left behind
\* by a heartbeat whose attempt is still the run's.
MayBeCommitted(w, r, i) ==
  /\ owner[r] = w
  /\ \/ Owns(w) /\ r = held[w] /\ i \in drained[w]
     \/ /\ late[w] # NoCommit /\ r = late[w].run /\ i \in late[w].rows
        /\ MayCommit(w, r, late[w].attempt)

\* While a run stays active, its rows change only by a commit of its owner.
LEMMA ActiveRows ==
  ASSUME ChannelInv, [SteeringNext]_allVars, NEW r \in Runs,
         status[r] \in ACTIVE, status'[r] \in ACTIVE, NEW i \in DOMAIN inbox[r]
  PROVE  /\ inbox[r][i] \in Rows /\ i \in DOMAIN inbox'[r]
         /\ \/ inbox'[r][i] = inbox[r][i]
            \/ /\ inbox'[r][i] = As(inbox[r][i], "consumed")
               /\ inbox[r][i].state # "consumed"
               /\ \E w \in Workers : MayBeCommitted(w, r, i)
<1> DEFINE Goal == \/ inbox'[r][i] = inbox[r][i]
                   \/ /\ inbox'[r][i] = As(inbox[r][i], "consumed")
                      /\ inbox[r][i].state # "consumed"
                      /\ \E w \in Workers : MayBeCommitted(w, r, i)
<1>0. /\ IndInv /\ TypeOK /\ SteeringTypeOK /\ InboxFits
      /\ status[r] # "absent" /\ r <= created
  <2>1. IndInv /\ TypeOK /\ UncreatedIsBlank /\ SteeringTypeOK /\ InboxFits
    BY DEF ChannelInv, IndInv
  <2>2. status[r] # "absent"
    BY DEF ACTIVE
  <2>3. r \in Nat /\ created \in Nat
    BY <2>1, BoundsAssumption DEF TypeOK, Runs
  <2>4. ~(r > created)
    BY <2>1, <2>2 DEF UncreatedIsBlank
  <2> QED
    BY <2>1, <2>2, <2>3, <2>4
<1>1. inbox[r][i] \in Rows /\ i \in Indices
  <2>1. Len(inbox[r]) <= MaxRows
    BY <1>0 DEF InboxFits
  <2> QED
    BY <1>0, <2>1, InboxTypes, SteeringAssumption DEF Indices
<1>2. i \in DOMAIN inbox'[r]
  BY InboxGrowth DEF InboxGrows
<1>3. ASSUME Quiet PROVE Goal
  <2>1. inbox' = inbox
    BY <1>3 DEF Quiet
  <2> QED
    BY <2>1
<1>4. ASSUME NEW q \in Runs, NEW k \in Keys, Submit(q, k) PROVE Goal
  BY <1>0, <1>4, SubmittedRows
<1>5. ASSUME NEW q \in Runs, ResumeWithSteering(q) PROVE Goal
  <2>1. status[q] = "paused"
    BY <1>5 DEF ResumeWithSteering, Resume, Resumable
  <2>2. r # q /\ r # created + 1
    BY <1>0, <2>1, BoundsAssumption DEF ACTIVE, TypeOK, Runs
  <2> QED
    BY <1>5, <2>2, ResumedRows
<1>6. ASSUME NEW w \in Workers, Finalize(w) PROVE Goal
  <2>1. Owns(w) /\ Release(held[w], CancelWins(held[w], intent[w])) /\ Closing(intent[w])
    BY <1>6 DEF Finalize, FinalizeRun, FinishIfOwned
  <2>2. held[w] \in Runs
    BY <1>0, <2>1, BoundsAssumption DEF Owns, TypeOK, Runs
  <2>3. status'[held[w]] \in TERMINAL
    BY <1>0, <2>1, <2>2 DEF Release, CancelWins, Closing, TERMINAL, TypeOK
  <2>4. r # held[w]
    BY <2>3 DEF TERMINAL, ACTIVE
  <2>5. inbox'[r] = inbox[r]
    BY <1>0, <1>6, <2>4 DEF Finalize, SteeringTypeOK
  <2> QED
    BY <2>5
<1>7. ASSUME NEW w \in Workers, Fenced(w) PROVE Goal
  <2>1. PICK q \in Runs, rows \in SUBSET Indices :
          /\ CommitRows(q, rows) /\ rows \subseteq DOMAIN inbox[q]
          /\ \/ /\ Owns(w) /\ q = held[w] /\ rows \subseteq drained[w]
             \/ /\ late[w] # NoCommit /\ q = late[w].run /\ rows = late[w].rows
                /\ MayCommit(w, q, late[w].attempt)
    BY <1>7 DEF Fenced
  <2> DEFINE changed == {j \in rows : inbox[q][j].state # "consumed"}
  <2>2. inbox'[r][i] = IF r = q /\ i \in changed THEN As(inbox[r][i], "consumed")
                       ELSE inbox[r][i]
    <3>1. Disposes(q, changed, "consumed")
      BY <2>1, CommitDisposes
    <3>2. changed \in SUBSET Indices /\ changed \subseteq DOMAIN inbox[q]
      BY <2>1
    <3> HIDE DEF changed
    <3> QED
      BY <1>0, <1>1, <3>1, <3>2, DisposedRows
  <2>3. r = q /\ i \in changed => MayBeCommitted(w, r, i)
    BY <2>1 DEF MayBeCommitted, Owns, MayCommit
  <2> QED
    BY <2>2, <2>3
<1> QED
  BY <1>1, <1>2, <1>3, <1>4, <1>5, <1>6, <1>7, InboxSteps

\* A run that goes on being active keeps its rows from being superseded.
LEMMA ActiveRowsStand ==
  ASSUME ChannelInv, [SteeringNext]_allVars, NEW q \in Runs,
         status[q] \in ACTIVE, status'[q] \in ACTIVE,
         NEW i \in DOMAIN inbox[q], inbox[q][i].state # "superseded"
  PROVE  inbox'[q][i].state # "superseded"
<1>1. /\ inbox[q][i] \in Rows
      /\ inbox'[q][i] = inbox[q][i] \/ inbox'[q][i] = As(inbox[q][i], "consumed")
  BY ActiveRows
<1>2. As(inbox[q][i], "consumed").state = "consumed"
  BY <1>1, AsKeeps DEF RowStates
<1> QED
  BY <1>1, <1>2

\* Nobody else supersedes what the owner of a run has read or drained, whatever
\* was redriven: a lease is lost with the delivery, never given back to it.
LEMMA OwnedStep == ChannelInv /\ [SteeringNext]_allVars => OwnedRowsStand'
<1> SUFFICES ASSUME ChannelInv, [SteeringNext]_allVars, NEW v \in Workers
             PROVE  (Owns(v) => \A i \in fresh[v] \cup (snapshot[v] \ Known(v))
                                        \cup drained[v] :
                                  inbox[held[v]][i].state # "superseded")'
  BY DEF OwnedRowsStand
<1> DEFINE r == held[v]
           Read == fresh[v] \cup (snapshot[v] \ Known(v)) \cup drained[v]
           Stand == Owns(v) => \A i \in Read : inbox[held[v]][i].state # "superseded"
<1>0. IndInv /\ TypeOK /\ [Next]_vars
  BY QueueSteps DEF ChannelInv, IndInv
<1>1. Stand
  BY DEF ChannelInv, OwnedRowsStand
<1>2. r # 0 => /\ r \in Runs
               /\ Known(v) \cup snapshot[v] \subseteq DOMAIN inbox[r]
               /\ drained[v] \subseteq DOMAIN inbox[r]
  BY DrainedAreRows
<1>3. r # 0 => Read \subseteq DOMAIN inbox[r]
  BY <1>2 DEF Known
<1> HIDE DEF Read, Stand
<1>4. CASE Kept(v)
  <2>1. /\ held'[v] = held[v] /\ fresh'[v] = fresh[v] /\ handed'[v] = handed[v]
        /\ snapshot'[v] \in {snapshot[v], {}} /\ drained'[v] \subseteq drained[v]
    BY <1>4 DEF Kept
  <2>2. Known(v)' = Known(v)
    BY <2>1 DEF Known
  <2>3. Read' \subseteq Read
    BY <2>1, <2>2 DEF Read
  <2>4. Owns(v)' => Owns(v) /\ r # 0
    <3>1. Owns(v)' => r # 0
      BY <2>1 DEF Owns
    <3> QED
      BY <1>0, <2>1, <3>1, LostLease
  <2>5. Owns(v)' => status[r] \in ACTIVE /\ status'[r] \in ACTIVE
    BY <2>1, <2>4 DEF Owns
  <2>6. ASSUME Owns(v)', NEW i \in Read' PROVE inbox'[r][i].state # "superseded"
    <3>1. r \in Runs /\ i \in DOMAIN inbox[r] /\ inbox[r][i].state # "superseded"
      BY <1>1, <1>2, <1>3, <2>3, <2>4, <2>6 DEF Stand
    <3> QED
      BY <2>5, <2>6, <3>1, ActiveRowsStand
  <2> QED
    BY <2>1, <2>6 DEF Stand, Read
<1>5. CASE (Claim(v) /\ Empties(v)) \/ (Empties(v) /\ held'[v] = 0)
  <2>1. fresh'[v] = {} /\ snapshot'[v] = {} /\ drained'[v] = {}
    BY <1>5 DEF Empties
  <2> QED
    BY <2>1 DEF Stand, Read
<1>6. ASSUME UNCHANGED <<vars, inbox>> PROVE (Owns(v)' <=> Owns(v)) /\ held'[v] = r
  BY <1>6 DEF vars, runVars, workerVars, Owns
<1>7. CASE ReadInbox(v)
  <2>1. /\ UNCHANGED <<vars, inbox, fresh, handed, drained>>
        /\ snapshot'[v] = PendingIn(r)
    <3>1. snapshot \in [Workers -> SUBSET Indices]
      BY DEF ChannelInv, SteeringTypeOK
    <3> QED
      BY <1>7, <3>1 DEF ReadInbox, Listed
  <2>2. \A i \in Read' : i \in Read \/ i \in PendingIn(r)
    BY <2>1 DEF Read, Known
  <2>3. Owns(v)' => \A i \in Read' : inbox'[held'[v]][i].state # "superseded"
    BY <1>1, <1>6, <2>1, <2>2 DEF Stand, PendingIn
  <2> QED
    BY <2>3 DEF Read
<1>8. CASE Ingest(v) \/ DrainSteering(v)
  <2>1. UNCHANGED <<vars, inbox>> /\ Read' \subseteq Read
    <3>1. CASE Ingest(v)
      <4>1. snapshot \in [Workers -> SUBSET Indices] /\ fresh \in [Workers -> SUBSET Indices]
        BY DEF ChannelInv, SteeringTypeOK
      <4>2. /\ UNCHANGED <<vars, inbox, handed, drained>>
            /\ snapshot'[v] = {} /\ fresh'[v] = fresh[v] \cup (snapshot[v] \ Known(v))
        BY <3>1, <4>1 DEF Ingest
      <4> QED
        BY <4>2 DEF Read
    <3>2. CASE DrainSteering(v)
      <4>1. /\ UNCHANGED <<vars, inbox, snapshot>>
            /\ fresh'[v] = {} /\ drained'[v] = drained[v] \cup fresh[v]
            /\ Known(v)' = Known(v)
        BY <3>2, DrainHands DEF DrainSteering
      <4> QED
        BY <4>1 DEF Read
    <3> QED
      BY <1>8, <3>1, <3>2
  <2>2. Owns(v)' => \A i \in Read' : inbox'[held'[v]][i].state # "superseded"
    BY <1>1, <1>6, <2>1 DEF Stand
  <2> QED
    BY <2>2 DEF Read
<1> QED
  BY <1>4, <1>5, <1>7, <1>8, DeliverySteps

-----------------------------------------------------------------------------
(* The unconditional part of the invariant                                  *)

\* At first there are no rows, no events and no heartbeats.
LEMMA SteeringInitInv == SteeringInit => SteeringInv
<1> SUFFICES ASSUME SteeringInit PROVE SteeringInv
  OBVIOUS
<1> USE BoundsAssumption, SteeringAssumption DEF SteeringInit
<1>1. IndInv
  BY InitInv
<1>2. SteeringTypeOK
  <2>1. \A S : <<>> \in Seq(S)
    BY EmptySeq
  <2>2. /\ inbox \in [Runs -> Seq([key : Keys, state : RowStates, source : Runs \X Indices])]
        /\ told \in [Runs -> Seq(Notices)] /\ handed \in [Workers -> Seq(Indices)]
    BY <2>1
  <2>3. late \in [Workers -> [run : 0 .. MaxRuns, attempt : Nat, rows : SUBSET Indices]]
    <3>1. NoCommit \in [run : 0 .. MaxRuns, attempt : Nat, rows : SUBSET Indices]
      BY DEF NoCommit
    <3> QED
      BY <3>1
  <2> QED
    BY <2>2, <2>3 DEF SteeringTypeOK, BeatPhases
<1>3. /\ created = 0
      /\ \A r \in Runs : inbox[r] = <<>> /\ told[r] = <<>> /\ status[r] = "absent"
                         /\ successor[r] = 0
      /\ \A w \in Workers : held[w] = 0 /\ beat[w] = "off" /\ snapshot[w] = {} /\ fresh[w] = {}
                            /\ handed[w] = <<>> /\ drained[w] = {} /\ batch[w] = {}
                            /\ late[w] = NoCommit
  BY DEF Init
<1>4. \A w \in Workers : ToSet(handed[w]) = {} /\ Known(w) = {}
  BY <1>3 DEF ToSet, Known
<1>5. InboxFits
  <2>1. Len(<<>>) <= MaxRows
    BY EmptySeq
  <2> QED
    BY <1>3, <2>1 DEF InboxFits
<1>6. ChannelFits /\ BeatFits /\ ReadsInOrder /\ HandedInOrder
  BY <1>3, <1>4 DEF ChannelFits, BeatFits, ReadsInOrder, HandedInOrder
<1>7. NothingStranded /\ ResumedInboxIsSettled
  BY <1>3 DEF NothingStranded, ResumedInboxIsSettled
<1>9. OwnedRowsStand
  BY <1>3 DEF OwnedRowsStand, Owns
<1>8. AttemptsGrow /\ FencedRowsAreLive /\ OneRowPerSubmission /\ TellsOnce
  <2>1. AttemptsGrow /\ FencedRowsAreLive
    BY <1>3, <1>4 DEF AttemptsGrow, FencedRowsAreLive, Owns
  <2>2. OneRowPerSubmission /\ TellsOnce
    BY <1>3 DEF OneRowPerSubmission, TellsOnce
  <2> QED
    BY <2>1, <2>2
<1> QED
  BY <1>1, <1>2, <1>5, <1>6, <1>7, <1>8, <1>9 DEF SteeringInv, ChannelInv, FenceInv

\* Every step preserves the part of the invariant that needs no assumption.
LEMMA ChannelStep == ChannelInv /\ [SteeringNext]_allVars => ChannelInv'
<1>1. ChannelInv /\ [SteeringNext]_allVars => IndInv'
  BY QueueSteps, InvStep DEF ChannelInv
<1> QED
  BY <1>1, SteeringTypeStep, InboxFitsStep, ChannelFitsStep, BeatStep, OrderStep,
     SettledStep, OwnedStep DEF ChannelInv

-----------------------------------------------------------------------------
(* What holds whatever operators, workers and leases do                     *)

\* Every reachable state satisfies ChannelInv.
THEOREM ChannelInvariance == SteeringSafetySpec => []ChannelInv
<1>1. SteeringInit => ChannelInv
  BY SteeringInitInv DEF SteeringInv
<1>2. QED
  BY <1>1, ChannelStep, PTL DEF SteeringSafetySpec

\* Steering adds nothing to what runs, workers and leases may do: what holds of
\* the run queue holds of the queue with inboxes and channels.
THEOREM QueueRefinement == SteeringSafetySpec => SafetySpec
<1>1. SteeringInit => Init
  BY DEF SteeringInit
<1>2. QED
  BY <1>1, QueueSteps, PTL DEF SteeringSafetySpec, SafetySpec

\* A run that succeeded, failed or timed out leaves no row without a
\* disposition, however late it was submitted.
THEOREM NoRowIsStranded == SteeringSafetySpec => []NothingStranded
<1>1. ChannelInv => NothingStranded
  BY DEF ChannelInv
<1>2. QED
  BY <1>1, ChannelInvariance, PTL

\* A run that another one continues has no row waiting: what waited when it was
\* resumed are the first rows of the run that continues, the same and in order,
\* and no step changes what was submitted.
THEOREM ResumeMovesAll ==
  SteeringSafetySpec => []ResumedInboxIsSettled /\ ResumeMovesPending
<1> DEFINE Moves ==
      \A r \in Runs :
        /\ successor'[r] # successor[r] =>
             LET new == inbox'[successor'[r]]
             IN  /\ DOMAIN new = 1 .. Cardinality(PendingIn(r))
                 /\ \A n \in DOMAIN new : new[n] = inbox[r][InOrder(PendingIn(r))[n]]
                 /\ PendingIn(r)' = {}
        /\ \A i \in DOMAIN inbox[r] :
             /\ i \in DOMAIN inbox'[r]
             /\ inbox'[r][i].key = inbox[r][i].key
             /\ inbox'[r][i].source = inbox[r][i].source
<1>1. ChannelInv => ResumedInboxIsSettled
  BY DEF ChannelInv
<1>2. ASSUME ChannelInv, [SteeringNext]_allVars PROVE Moves
  <2>0. successor \in [Runs -> 0 .. MaxRuns]
    BY <1>2 DEF ChannelInv, IndInv, TypeOK
  <2>1. ASSUME NEW q \in Runs, ResumeWithSteering(q), NEW r \in Runs,
               successor'[r] # successor[r]
        PROVE  LET new == inbox'[successor'[r]]
               IN  /\ DOMAIN new = 1 .. Cardinality(PendingIn(r))
                   /\ \A n \in DOMAIN new : new[n] = inbox[r][InOrder(PendingIn(r))[n]]
                   /\ PendingIn(r)' = {}
    <3>1. successor' = [successor EXCEPT ![q] = created + 1]
      BY <2>1 DEF ResumeWithSteering, Resume
    <3>2. r = q /\ successor'[r] = created + 1
      BY <2>0, <2>1, <3>1
    <3>3. created + 1 # 0
      BY <1>2, BoundsAssumption DEF ChannelInv, IndInv, TypeOK
    <3>4. PendingIn(r)' = {}
      BY <1>2, <3>2, <3>3, SettledStep DEF ResumedInboxIsSettled
    <3> QED
      BY <1>2, <2>1, <3>2, <3>4, ResumedRows
  <2>2. (\E q \in Runs : ResumeWithSteering(q)) \/ successor' = successor
    <3>1. ASSUME NEW r \in Runs, NEW k \in Keys, Submit(r, k) PROVE successor' = successor
      BY <3>1 DEF Submit, vars, runVars
    <3>2. ASSUME NEW w \in Workers, Finalize(w) PROVE successor' = successor
      BY <3>2 DEF Finalize, FinalizeRun, FinishIfOwned, Release
    <3>3. ASSUME NEW w \in Workers, Fenced(w) PROVE successor' = successor
      BY <3>3 DEF Fenced, runVars
    <3> QED
      BY <1>2, <3>1, <3>2, <3>3, InboxSteps DEF Quiet, NoneEnds
  <2>3. InboxGrows
    BY <1>2, InboxGrowth
  <2> QED
    BY <2>1, <2>2, <2>3 DEF InboxGrows
<1>3. ASSUME ChannelInv, [SteeringNext]_allVars PROVE [Moves]_allVars
  BY <1>2, <1>3
<1>4. QED
  BY <1>1, <1>3, ChannelInvariance, PTL DEF SteeringSafetySpec, ResumeMovesPending

\* A graph is handed each row at most once per delivery, in the order in which
\* the rows were accepted.
THEOREM GraphReadsInOrder == SteeringSafetySpec => []HandedInOrder
<1>1. ChannelInv => HandedInOrder
  BY DEF ChannelInv
<1>2. QED
  BY <1>1, ChannelInvariance, PTL

-----------------------------------------------------------------------------
(***************************************************************************)
(* Proofs about what the fence of a commit protects: no row is disposed of  *)
(* twice, handed over after its disposition or told of twice, as long as no *)
(* redrive has made an attempt's number come again.                         *)
(*                                                                         *)
(* Only the owner of a run, at the attempt it claimed, commits rows of it;  *)
(* FencedRowsAreLive says that those rows are live, and the rest follows    *)
(* from it step by step.                                                    *)
(***************************************************************************)

-----------------------------------------------------------------------------
(* Attempts and owners                                                      *)

\* Only a redrive counts redrives, so that there was none if there is none.
LEMMA NoRedriveYet ==
  ASSUME IndInv, [Next]_vars, redrives' = 0
  PROVE  redrives = 0 /\ \A r \in Runs : ~Redrive(r)
<1>0. redrives \in Nat
  BY DEF IndInv, TypeOK
<1>1. \A r \in Runs : ~Redrive(r)
  BY <1>0 DEF Redrive
<1>2. redrives' = redrives
  BY <1>1
     DEF Next, Client, Environment, Worker, Progress, CreateRun, Resume, RequestCancel,
         OrphanLapses, StalledLapses, Expire, Crash, Drain, ClaimRun, SweepOnly,
         GraphEnds, CloseSteering, FlushDone, FlushGivesUp, FinalizeRun, PauseRun,
         RetryRun, DeadLetter, Abandon, FinishIfOwned, RetryIfOwned, Release,
         RenewLease, NoticeCancel, TripToken, boundVars, vars
<1> QED
  BY <1>1, <1>2

\* Without a redrive, the attempts of a run only grow.
LEMMA AttemptsOnlyGrow ==
  ASSUME IndInv, [Next]_vars, redrives' = 0, NEW q \in Runs
  PROVE  attempt[q] \in Nat /\ attempt[q] <= attempt'[q]
<1>0. TypeOK /\ attempt[q] \in Nat /\ \A r \in Runs : ~Redrive(r)
  BY NoRedriveYet DEF IndInv, TypeOK
<1>1. ASSUME NEW w \in Workers, ClaimRun(w) PROVE attempt[q] <= attempt'[q]
  <2>1. PICK r \in Runs : attempt'[q] = IF q = r THEN attempt[r] + 1 ELSE attempt[q]
    BY <1>0, <1>1, ClaimWrites
  <2> QED
    BY <1>0, <2>1
<1>2. ASSUME attempt' = attempt PROVE attempt[q] <= attempt'[q]
  BY <1>0, <1>2
<1> QED
  BY <1>0, <1>1, <1>2, Steps
     DEF CreateRun, Resume, RequestCancel, SweepOnly, CloseSteering, HandsBack,
         Release, TableStays

\* A worker that owns a run owned it before, at the same attempt, or has just
\* claimed it and made the attempt pass the older ones.
LEMMA OwnerSteps ==
  ASSUME IndInv, [Next]_vars, NEW v \in Workers, NEW q \in Runs, owner'[q] = v
  PROVE  \/ owner[q] = v /\ attempt'[q] = attempt[q] /\ status[q] \in ACTIVE
         \/ ClaimRun(v) /\ attempt'[q] = attempt[q] + 1
<1>0. /\ TypeOK /\ BusyIffHolding /\ OwnerIsDelivering /\ v # NoWorker
      /\ owner[q] = v => status[q] \in ACTIVE
  BY NamesAssumption DEF IndInv, ActiveIffLeased
<1>1. CASE ClaimRun(v)
  <2>1. owner[q] # v
    <3>1. pc[v] = "idle" /\ held[v] = 0 /\ q # 0
      BY <1>0, <1>1, BoundsAssumption DEF ClaimRun, BusyIffHolding, Runs
    <3> QED
      BY <1>0, <3>1 DEF OwnerIsDelivering
  <2>2. PICK r \in Runs :
          /\ owner'[q] = IF q = r THEN v
                         ELSE IF q \in Recovered THEN NoWorker ELSE owner[q]
          /\ attempt'[q] = IF q = r THEN attempt[r] + 1 ELSE attempt[q]
    BY <1>0, <1>1, ClaimWrites
  <2> QED
    BY <1>0, <1>1, <2>1, <2>2
<1>2. CASE Still(v)
  BY <1>0, <1>2, OwnedRun
<1>3. CASE owner[q] = v /\ attempt'[q] = attempt[q]
  BY <1>0, <1>3
<1>4. CASE CloseSteering(v) \/ TableStays \/ Abandon(v)
  <2>1. owner' = owner /\ attempt' = attempt
    BY <1>4 DEF CloseSteering, TableStays, Abandon, runVars
  <2> QED
    BY <1>3, <2>1
<1>5. ASSUME NEW s \in Statuses, HandsBack(v, s)
      PROVE  owner[q] = v /\ attempt'[q] = attempt[q]
  BY <1>0, <1>5 DEF HandsBack, Release, TypeOK
<1> QED
  BY <1>1, <1>2, <1>3, <1>4, <1>5, WorkerSteps

\* A delivery and a late commit never run ahead of the run's attempt.
LEMMA AttemptsGrowStep ==
  ChannelInv /\ AttemptsGrow /\ [SteeringNext]_allVars /\ redrives' = 0 => AttemptsGrow'
<1> SUFFICES ASSUME ChannelInv, AttemptsGrow, [SteeringNext]_allVars, redrives' = 0,
                    NEW v \in Workers
             PROVE  /\ (held[v] # 0 => heldAttempt[v] <= attempt[held[v]])'
                    /\ (late[v] # NoCommit => late[v].attempt <= attempt[late[v].run])'
  BY DEF AttemptsGrow
<1>0. /\ IndInv /\ TypeOK /\ [Next]_vars /\ LateType /\ LateType'
      /\ held[v] \in Nat
      /\ held[v] # 0 => held[v] \in Runs
      /\ late[v] # NoCommit => late[v].run \in Runs
  <2>1. IndInv /\ TypeOK /\ LateType
    BY DEF ChannelInv, IndInv, SteeringTypeOK, LateType
  <2>2. [Next]_vars /\ LateType'
    BY QueueSteps, LateTypeStep
  <2>3. held[v] \in 0 .. MaxRuns /\ created \in 0 .. MaxRuns
    BY <2>1 DEF TypeOK
  <2>4. late[v] # NoCommit => late[v].run \in 1 .. created
    BY DEF ChannelInv, ChannelFits
  <2> QED
    BY <2>1, <2>2, <2>3, <2>4, BoundsAssumption DEF Runs
<1>1. \A q \in Runs : attempt[q] \in Nat /\ attempt'[q] \in Nat /\ attempt[q] <= attempt'[q]
  <2>1. TypeOK'
    BY <1>0, TypeStep
  <2> QED
    BY <1>0, <2>1, AttemptsOnlyGrow DEF TypeOK
<1>2. /\ heldAttempt[v] \in Nat /\ late[v].attempt \in Nat
      /\ held[v] # 0 => heldAttempt[v] <= attempt[held[v]]
      /\ late[v] # NoCommit => late[v].attempt <= attempt[late[v].run]
  BY <1>0 DEF AttemptsGrow, TypeOK, LateType
<1>a. ASSUME NEW q \in Runs, NEW x \in Nat, x <= attempt[q] PROVE x <= attempt'[q]
  <2>1. attempt[q] \in Nat /\ attempt'[q] \in Nat /\ attempt[q] <= attempt'[q]
    BY <1>1
  <2> QED
    BY <1>a, <2>1
<1>3. held[v] # 0 => heldAttempt[v] <= attempt'[held[v]]
  BY <1>0, <1>2, <1>a
<1>4. late[v] # NoCommit => late[v].attempt <= attempt'[late[v].run]
  BY <1>0, <1>2, <1>a
<1>5. CASE Kept(v)
  <2>1. held'[v] = held[v] /\ heldAttempt'[v] = heldAttempt[v]
    BY <1>5 DEF Kept
  <2>2. CASE late'[v] = late[v]
    BY <1>3, <1>4, <2>1, <2>2
  <2>3. CASE late'[v] = NoCommit
    BY <1>3, <2>1, <2>3
  <2>4. CASE /\ held[v] # 0
             /\ late'[v] = [run |-> held[v], rows |-> batch[v], attempt |-> heldAttempt[v]]
    BY <1>3, <2>1, <2>4
  <2> QED
    BY <1>5, <2>2, <2>3, <2>4 DEF Kept
<1>6. CASE Claim(v) /\ Empties(v)
  <2>1. PICK r \in Runs :
          /\ \A q \in Runs : attempt'[q] = IF q = r THEN attempt[r] + 1 ELSE attempt[q]
          /\ held' = [held EXCEPT ![v] = r]
          /\ heldAttempt' = [heldAttempt EXCEPT ![v] = attempt[r] + 1]
    BY <1>0, <1>6, ClaimWrites DEF Claim
  <2>2. held'[v] = r /\ heldAttempt'[v] = attempt[r] + 1 /\ attempt'[r] = attempt[r] + 1
    BY <1>0, <2>1 DEF TypeOK
  <2> QED
    BY <1>1, <1>4, <1>6, <2>2 DEF Empties
<1>7. CASE Empties(v) /\ held'[v] = 0
  BY <1>4, <1>7 DEF Empties
<1>8. CASE ReadInbox(v) \/ Ingest(v) \/ DrainSteering(v)
  <2>1. held' = held /\ heldAttempt' = heldAttempt /\ late' = late
    BY <1>8 DEF ReadInbox, Ingest, DrainSteering, vars, workerVars
  <2> QED
    BY <1>3, <1>4, <2>1
<1> QED
  BY <1>5, <1>6, <1>7, <1>8, DeliverySteps

-----------------------------------------------------------------------------
(* What the fence keeps live                                                *)

\* What the owner of a run may still commit, or has read and not drained yet,
\* is live, as long as attempts only grow.
LEMMA FencedStep ==
  /\ ChannelInv /\ AttemptsGrow /\ FencedRowsAreLive
  /\ [SteeringNext]_allVars /\ redrives' = 0
  => FencedRowsAreLive'
<1> SUFFICES ASSUME ChannelInv, AttemptsGrow, FencedRowsAreLive,
                    [SteeringNext]_allVars, redrives' = 0,
                    NEW v \in Workers
             PROVE
    /\ (Owns(v) => \A i \in fresh[v] \cup (snapshot[v] \ Known(v)) :
                     inbox[held[v]][i].state = "pending")'
    /\ (Owns(v) => \A i \in drained[v] : inbox[held[v]][i].state # "superseded")'
    /\ (late[v] # NoCommit /\ MayCommit(v, late[v].run, late[v].attempt) =>
          /\ \A i \in late[v].rows : inbox[late[v].run][i].state # "superseded"
          /\ held[v] # 0 => late[v].rows \subseteq ToSet(handed[v]))'
  BY DEF FencedRowsAreLive
<1> DEFINE r == held[v]
           ToRead  == fresh[v] \cup (snapshot[v] \ Known(v))
           Read    == Owns(v) => \A i \in ToRead : inbox[held[v]][i].state = "pending"
           Drained == Owns(v) => \A i \in drained[v] :
                                   inbox[held[v]][i].state # "superseded"
           Late    == late[v] # NoCommit /\ MayCommit(v, late[v].run, late[v].attempt) =>
                        /\ \A i \in late[v].rows :
                             inbox[late[v].run][i].state # "superseded"
                        /\ held[v] # 0 => late[v].rows \subseteq ToSet(handed[v])
<1>0. IndInv /\ IndInv' /\ TypeOK /\ [Next]_vars
  <2>1. IndInv /\ [Next]_vars
    BY QueueSteps DEF ChannelInv
  <2> QED
    BY <2>1, InvStep DEF IndInv
<1>1. Read /\ Drained /\ Late
  BY DEF FencedRowsAreLive
\* The rows of an active run that its owner was not handed are not disposed of.
<1>2. ASSUME NEW q \in Runs, status[q] \in ACTIVE, status'[q] \in ACTIVE,
             NEW i \in DOMAIN inbox[q], inbox[q][i].state # "superseded"
      PROVE  inbox'[q][i].state # "superseded"
  BY <1>2, ActiveRowsStand
<1>3. ASSUME Owns(v), Owns(v)', held'[v] = held[v],
             NEW i \in DOMAIN inbox[r], i \notin ToSet(handed[v])
      PROVE  inbox'[r][i] = inbox[r][i]
  <2>1. r \in Runs /\ status[r] \in ACTIVE /\ status'[r] \in ACTIVE /\ owner[r] = v
    BY <1>0, <1>3, BoundsAssumption DEF Owns, TypeOK, Runs
  <2>2. ASSUME NEW w \in Workers, MayBeCommitted(w, r, i) PROVE FALSE
    <3>1. w = v
      BY <2>1, <2>2 DEF MayBeCommitted
    <3>2. i \notin drained[v]
      BY <1>3 DEF ChannelInv, ChannelFits
    <3>3. ~(late[v] # NoCommit /\ r = late[v].run /\ i \in late[v].rows
              /\ MayCommit(v, r, late[v].attempt))
      BY <1>1, <1>3 DEF Owns
    <3> QED
      BY <2>2, <3>1, <3>2, <3>3 DEF MayBeCommitted
  <2> QED
    BY <2>1, <2>2, <1>3, ActiveRows
<1>4. r # 0 => /\ r \in Runs
               /\ Known(v) \cup snapshot[v] \subseteq DOMAIN inbox[r]
               /\ drained[v] \subseteq ToSet(handed[v])
               /\ drained[v] \subseteq DOMAIN inbox[r] /\ batch[v] \subseteq drained[v]
  BY DrainedAreRows
\* A commit left behind is of an older delivery: a claim makes the attempt pass it.
<1>5. ASSUME late'[v] = late[v], (late[v] # NoCommit)', MayCommit(v, late[v].run, late[v].attempt)'
      PROVE  /\ late[v] # NoCommit /\ MayCommit(v, late[v].run, late[v].attempt)
             /\ \A i \in late[v].rows : inbox'[late[v].run][i].state # "superseded"
             /\ ~ClaimRun(v)
  <2>1. late[v] # NoCommit
    BY <1>5 DEF NoCommit
  <2>2. late[v].run \in 1 .. created /\ late[v].rows \subseteq DOMAIN inbox[late[v].run]
    BY <2>1 DEF ChannelInv, ChannelFits
  <2>3. late[v].run \in Runs /\ late[v].attempt \in Nat
    BY <1>0, <2>2, BoundsAssumption DEF TypeOK, Runs, ChannelInv, SteeringTypeOK
  <2>4. /\ owner'[late[v].run] = v /\ attempt'[late[v].run] = late[v].attempt
        /\ status'[late[v].run] \in ACTIVE
    BY <1>5 DEF MayCommit
  <2>5. late[v].attempt <= attempt[late[v].run] /\ attempt[late[v].run] \in Nat
    BY <1>0, <2>1, <2>3 DEF AttemptsGrow, TypeOK
  <2>6. attempt'[late[v].run] # attempt[late[v].run] + 1
    BY <2>3, <2>4, <2>5
  <2>7. /\ owner[late[v].run] = v /\ attempt'[late[v].run] = attempt[late[v].run]
        /\ status[late[v].run] \in ACTIVE
    BY <1>0, <2>3, <2>4, <2>6, OwnerSteps
  <2>8. MayCommit(v, late[v].run, late[v].attempt)
    BY <2>4, <2>7 DEF MayCommit
  <2>9. \A i \in late[v].rows : inbox'[late[v].run][i].state # "superseded"
    BY <1>1, <1>2, <2>1, <2>2, <2>3, <2>4, <2>7, <2>8
  <2>10. ~ClaimRun(v)
    <3>1. ASSUME pc[v] = "idle" PROVE FALSE
      <4>1. held[v] = late[v].run
        BY <1>0, <2>3, <2>7, <3>1 DEF IndInv, OwnerIsDelivering
      <4>2. held[v] = 0
        BY <1>0, <3>1 DEF IndInv, BusyIffHolding
      <4> QED
        BY <2>3, <4>1, <4>2, BoundsAssumption DEF Runs
    <3> QED
      BY <3>1 DEF ClaimRun
  <2> QED
    BY <2>1, <2>8, <2>9, <2>10
<1> HIDE DEF ToRead, Read, Drained, Late
<1>6. CASE Kept(v)
  <2>1. /\ held'[v] = held[v] /\ fresh'[v] = fresh[v] /\ handed'[v] = handed[v]
        /\ snapshot'[v] \in {snapshot[v], {}} /\ drained'[v] \subseteq drained[v]
    BY <1>6 DEF Kept
  <2>2. Known(v)' = Known(v)
    BY <2>1 DEF Known
  <2>3. Owns(v)' => Owns(v) /\ r # 0
    <3>1. Owns(v)' => r # 0
      BY <2>1 DEF Owns
    <3> QED
      BY <1>0, <2>1, <3>1, LostLease
  <2>4. Owns(v)' => status[r] \in ACTIVE /\ status'[r] \in ACTIVE
    BY <2>1, <2>3 DEF Owns
  <2>5. Read'
    <3> SUFFICES ASSUME Owns(v)', NEW i \in ToRead' PROVE inbox'[r][i].state = "pending"
      BY <2>1 DEF Read
    <3>1. i \in ToRead
      BY <2>1, <2>2 DEF ToRead
    <3>2. i \notin ToSet(handed[v]) /\ i \in DOMAIN inbox[r]
      BY <1>4, <2>3, <3>1 DEF ToRead, Known, ChannelInv, ChannelFits
    <3>3. inbox'[r][i] = inbox[r][i]
      BY <1>3, <2>1, <2>3, <3>2
    <3> QED
      BY <1>1, <2>3, <3>1, <3>3 DEF Read
  <2>6. Drained'
    <3> SUFFICES ASSUME Owns(v)', NEW i \in drained'[v]
                 PROVE  inbox'[r][i].state # "superseded"
      BY <2>1 DEF Drained
    <3>1. i \in drained[v] /\ i \in DOMAIN inbox[r] /\ r \in Runs
      BY <1>4, <2>1, <2>3
    <3>2. inbox[r][i].state # "superseded"
      BY <1>1, <2>3, <3>1 DEF Drained
    <3> QED
      BY <1>2, <2>4, <3>1, <3>2
  <2>7. Late'
    <3>1. CASE late'[v] = late[v]
      BY <1>1, <1>5, <2>1, <3>1 DEF Late
    <3>2. CASE late'[v] = NoCommit
      BY <3>2 DEF Late, NoCommit
    <3>3. CASE /\ held[v] # 0
               /\ late'[v] = [run |-> held[v], rows |-> batch[v],
                              attempt |-> heldAttempt[v]]
      <4> SUFFICES ASSUME MayCommit(v, late[v].run, late[v].attempt)'
                   PROVE  /\ \A i \in batch[v] : inbox'[r][i].state # "superseded"
                          /\ batch[v] \subseteq ToSet(handed[v])
        BY <2>1, <3>3 DEF Late
      <4>1. heldAttempt'[v] = heldAttempt[v]
        BY <1>6 DEF Kept
      <4>2. Owns(v)'
        BY <2>1, <3>3, <4>1 DEF MayCommit, Owns
      <4>3. \A i \in batch[v] : i \in DOMAIN inbox[r] /\ inbox[r][i].state # "superseded"
        BY <1>1, <1>4, <2>3, <4>2 DEF Drained
      <4> QED
        BY <1>2, <1>4, <2>3, <2>4, <4>2, <4>3
    <3> QED
      BY <1>6, <3>1, <3>2, <3>3 DEF Kept
  <2> QED
    BY <2>5, <2>6, <2>7 DEF Read, Drained, Late, ToRead
<1>7. CASE (Claim(v) /\ Empties(v)) \/ (Empties(v) /\ held'[v] = 0)
  <2>1. fresh'[v] = {} /\ snapshot'[v] = {} /\ drained'[v] = {} /\ late'[v] = late[v]
    BY <1>7 DEF Empties
  <2>2. Read' /\ Drained'
    BY <2>1 DEF Read, Drained, ToRead
  <2>3. Late'
    BY <1>5, <1>7, <2>1 DEF Late, Claim
  <2> QED
    BY <2>2, <2>3 DEF Read, Drained, Late, ToRead
<1>8. ASSUME UNCHANGED <<vars, inbox, late>>
      PROVE  /\ Owns(v)' <=> Owns(v)
             /\ held'[v] = r
             /\ (late[v] # NoCommit /\ MayCommit(v, late[v].run, late[v].attempt))'
                <=> late[v] # NoCommit /\ MayCommit(v, late[v].run, late[v].attempt)
  BY <1>8 DEF vars, runVars, workerVars, Owns, MayCommit, NoCommit
<1>9. CASE ReadInbox(v)
  <2>1. /\ UNCHANGED <<vars, inbox, late, fresh, handed, drained>>
        /\ snapshot'[v] = PendingIn(r)
    <3>1. snapshot \in [Workers -> SUBSET Indices]
      BY DEF ChannelInv, SteeringTypeOK
    <3> QED
      BY <1>9, <3>1 DEF ReadInbox, Listed
  <2>2. Read'
    <3>1. \A i \in ToRead' : i \in ToRead \/ i \in PendingIn(r)
      BY <2>1 DEF ToRead, Known
    <3> QED
      BY <1>1, <1>8, <2>1, <3>1 DEF Read, PendingIn
  <2>3. Drained' /\ Late'
    BY <1>1, <1>8, <2>1 DEF Drained, Late
  <2> QED
    BY <2>2, <2>3 DEF Read, Drained, Late, ToRead
<1>10. CASE Ingest(v)
  <2>1. /\ UNCHANGED <<vars, inbox, late, handed, drained>>
        /\ snapshot'[v] = {} /\ fresh'[v] = fresh[v] \cup (snapshot[v] \ Known(v))
    <3>1. snapshot \in [Workers -> SUBSET Indices] /\ fresh \in [Workers -> SUBSET Indices]
      BY DEF ChannelInv, SteeringTypeOK
    <3> QED
      BY <1>10, <3>1 DEF Ingest
  <2>2. Read'
    <3>1. ToRead' = ToRead
      BY <2>1 DEF ToRead
    <3> QED
      BY <1>1, <1>8, <2>1, <3>1 DEF Read
  <2>3. Drained' /\ Late'
    BY <1>1, <1>8, <2>1 DEF Drained, Late
  <2> QED
    BY <2>2, <2>3 DEF Read, Drained, Late, ToRead
<1>11. CASE DrainSteering(v)
  <2>1. /\ UNCHANGED <<vars, inbox, late, snapshot>>
        /\ fresh'[v] = {} /\ drained'[v] = drained[v] \cup fresh[v]
        /\ Known(v)' = Known(v) /\ ToSet(handed'[v]) = ToSet(handed[v]) \cup fresh[v]
    BY <1>11, DrainHands DEF DrainSteering
  <2>2. Read'
    <3>1. ToRead' \subseteq ToRead
      BY <2>1 DEF ToRead
    <3> QED
      BY <1>1, <1>8, <2>1, <3>1 DEF Read
  <2>3. Drained'
    <3>1. fresh[v] \subseteq ToRead
      BY DEF ToRead
    <3> QED
      BY <1>1, <1>8, <2>1, <3>1 DEF Drained, Read
  <2>4. Late'
    BY <1>1, <1>8, <2>1 DEF Late
  <2> QED
    BY <2>2, <2>3, <2>4 DEF Read, Drained, Late, ToRead
<1> QED
  BY <1>6, <1>7, <1>9, <1>10, <1>11, DeliverySteps

-----------------------------------------------------------------------------
(* Dispositions are final, and a submission has one live row                *)

\* Behind the fence, only rows that wait are disposed of: the steps of the
\* inboxes are an admission, a resume, and dispositions of pending rows.
LEMMA LiveSteps ==
  ASSUME ChannelInv, FencedRowsAreLive, [SteeringNext]_allVars
  PROVE  \/ UNCHANGED <<inbox, told>>
         \/ \E r \in Runs, k \in Keys : Submit(r, k)
         \/ \E r \in Runs : ResumeWithSteering(r)
         \/ \E r \in Runs, rows \in SUBSET Indices, s \in {"consumed", "superseded"} :
              rows \subseteq PendingIn(r) /\ Disposes(r, rows, s)
<1>0. SteeringTypeOK /\ TypeOK
  BY DEF ChannelInv, IndInv
<1>1. ASSUME NEW w \in Workers, Finalize(w)
      PROVE  \E r \in Runs, rows \in SUBSET Indices, s \in {"consumed", "superseded"} :
               rows \subseteq PendingIn(r) /\ Disposes(r, rows, s)
  <2>1. held[w] \in Runs
    BY <1>0, <1>1, BoundsAssumption
       DEF Finalize, FinalizeRun, FinishIfOwned, Owns, TypeOK, Runs
  <2>2. Disposes(held[w], PendingIn(held[w]), "superseded")
    BY <1>1 DEF Finalize, Leftover, Disposes
  <2>3. PendingIn(held[w]) \in SUBSET Indices
    BY <2>1, PendingFits
  <2> QED
    BY <2>1, <2>2, <2>3
<1>2. ASSUME NEW w \in Workers, Fenced(w)
      PROVE  \E r \in Runs, rows \in SUBSET Indices, s \in {"consumed", "superseded"} :
               rows \subseteq PendingIn(r) /\ Disposes(r, rows, s)
  <2>1. PICK r \in Runs, rows \in SUBSET Indices :
          /\ CommitRows(r, rows) /\ rows \subseteq DOMAIN inbox[r]
          /\ \/ /\ Owns(w) /\ r = held[w] /\ rows \subseteq drained[w]
             \/ /\ late[w] # NoCommit /\ r = late[w].run /\ rows = late[w].rows
                /\ MayCommit(w, r, late[w].attempt)
    BY <1>2 DEF Fenced
  <2> DEFINE changed == {j \in rows : inbox[r][j].state # "consumed"}
  <2>2. \A j \in rows : inbox[r][j].state # "superseded"
    BY <2>1 DEF FencedRowsAreLive
  <2>3. \A j \in DOMAIN inbox[r] : inbox[r][j] \in Rows
    BY <1>0, InboxTypes
  <2>4. changed \subseteq PendingIn(r)
    BY <2>1, <2>2, <2>3 DEF PendingIn, Rows, RowStates
  <2>5. Disposes(r, changed, "consumed") /\ changed \in SUBSET Indices
    BY <2>1, CommitDisposes
  <2> HIDE DEF changed
  <2> QED
    BY <2>4, <2>5
<1> QED
  BY <1>1, <1>2, InboxSteps DEF Quiet

\* A disposition stands: what is committed, abandoned by a resume or left over
\* at the end was still pending.
LEMMA DispositionsStand ==
  ASSUME ChannelInv, FencedRowsAreLive, [SteeringNext]_allVars,
         NEW q \in Runs, NEW i \in DOMAIN inbox[q], inbox[q][i].state # "pending"
  PROVE  inbox'[q][i] = inbox[q][i]
<1>0. SteeringTypeOK /\ IndInv /\ TypeOK
  BY DEF ChannelInv, IndInv
<1>1. inbox[q][i] \in Rows /\ i \in Indices
  <2>1. Len(inbox[q]) <= MaxRows
    BY DEF ChannelInv, InboxFits
  <2> QED
    BY <1>0, <2>1, InboxTypes, SteeringAssumption DEF Indices
<1>2. CASE inbox' = inbox
  BY <1>2
<1>3. ASSUME NEW r \in Runs, NEW k \in Keys, Submit(r, k)
      PROVE  inbox'[q][i] = inbox[q][i]
  BY <1>0, <1>3, SubmittedRows
<1>4. ASSUME NEW r \in Runs, ResumeWithSteering(r) PROVE inbox'[q][i] = inbox[q][i]
  <2>1. /\ inbox[created + 1] = <<>>
        /\ \A j \in DOMAIN inbox[r] :
             inbox'[r][j] = IF j \in PendingIn(r) THEN As(inbox[r][j], "superseded")
                            ELSE inbox[r][j]
        /\ \A p \in Runs : p # r /\ p # created + 1 => inbox'[p] = inbox[p]
    BY <1>4, ResumedRows
  <2>2. q # created + 1
    BY <2>1
  <2>3. i \notin PendingIn(q)
    BY DEF PendingIn
  <2> QED
    BY <2>1, <2>2, <2>3
\* Rows of one run are disposed of, and all of them were pending.
<1>5. ASSUME NEW r \in Runs, NEW rows \in SUBSET Indices, rows \subseteq PendingIn(r),
             NEW s \in {"consumed", "superseded"}, Disposes(r, rows, s)
      PROVE  inbox'[q][i] = inbox[q][i]
  <2>1. rows \subseteq DOMAIN inbox[r]
    BY <1>5 DEF PendingIn
  <2>2. inbox'[q][i] = IF q = r /\ i \in rows THEN As(inbox[q][i], s) ELSE inbox[q][i]
    BY <1>0, <1>1, <1>5, <2>1, DisposedRows
  <2>3. ~(q = r /\ i \in rows)
    BY <1>5 DEF PendingIn
  <2> QED
    BY <2>2, <2>3
<1> QED
  BY <1>2, <1>3, <1>4, <1>5, LiveSteps

\* No step gives a submission a second row that is pending or consumed: a row
\* is transferred only as its original is superseded, and nothing revives it.
LEMMA OneRowStep ==
  /\ ChannelInv /\ FencedRowsAreLive /\ OneRowPerSubmission /\ [SteeringNext]_allVars
  => OneRowPerSubmission'
<1> SUFFICES ASSUME ChannelInv, FencedRowsAreLive, OneRowPerSubmission,
                    [SteeringNext]_allVars,
                    NEW r \in Runs, NEW q \in Runs,
                    NEW i \in DOMAIN inbox'[r], NEW j \in DOMAIN inbox'[q],
                    inbox'[r][i].source = inbox'[q][j].source,
                    inbox'[r][i].state # "superseded",
                    inbox'[q][j].state # "superseded"
             PROVE  r = q /\ i = j
  BY DEF OneRowPerSubmission
<1>0. SteeringTypeOK /\ InboxGrows /\ IndInv /\ TypeOK
  BY InboxGrowth DEF ChannelInv, IndInv
\* A row that was there before was live before.
<1>1. ASSUME NEW p \in Runs, NEW n \in DOMAIN inbox[p],
             inbox'[p][n].state # "superseded"
      PROVE  /\ inbox[p][n].state # "superseded"
             /\ inbox'[p][n].source = inbox[p][n].source
  <2>1. inbox'[p][n].source = inbox[p][n].source
    BY <1>0 DEF InboxGrows
  <2>2. inbox[p][n].state = "superseded" => inbox'[p][n] = inbox[p][n]
    BY DispositionsStand
  <2> QED
    BY <1>1, <2>1, <2>2
<1>2. CASE i \in DOMAIN inbox[r] /\ j \in DOMAIN inbox[q]
  BY <1>1, <1>2 DEF OneRowPerSubmission
\* A new row is either submitted or transferred.
<1>3. ASSUME NEW p \in Runs, NEW k \in Keys, Submit(p, k) PROVE r = q /\ i = j
  <2> DEFINE n == Len(inbox[p]) + 1
  <2>1. /\ DOMAIN inbox'[p] = 1 .. n /\ DOMAIN inbox[p] = 1 .. Len(inbox[p])
        /\ Len(inbox[p]) \in Nat
        /\ inbox'[p][n] = Row(k, "pending", <<p, n>>)
        /\ \A x \in Runs : x # p => inbox'[x] = inbox[x]
    BY <1>0, <1>3, SubmittedRows, InboxTypes
  <2>2. /\ i \in DOMAIN inbox[r] \/ (r = p /\ i = n)
        /\ j \in DOMAIN inbox[q] \/ (q = p /\ j = n)
    <3>1. ASSUME NEW x \in Runs, NEW y \in DOMAIN inbox'[x]
          PROVE  y \in DOMAIN inbox[x] \/ (x = p /\ y = n)
      <4>1. CASE x = p
        <5>1. y \in 1 .. n
          BY <2>1, <4>1
        <5>2. y \in 1 .. Len(inbox[p]) \/ y = n
          BY <2>1, <5>1
        <5> QED
          BY <2>1, <4>1, <5>2
      <4>2. CASE x # p
        BY <2>1, <4>2
      <4> QED
        BY <4>1, <4>2
    <3> QED
      BY <3>1
  <2>3. inbox'[p][n].source = <<p, n>>
    BY <2>1 DEF Row
  <2>4. ASSUME NEW x \in Runs, NEW y \in DOMAIN inbox[x]
        PROVE  inbox'[x][y].source # <<p, n>>
    <3>1. inbox'[x][y].source = inbox[x][y].source
      BY <1>0 DEF InboxGrows
    <3>2. inbox[x][y].source[2] \in DOMAIN inbox[inbox[x][y].source[1]]
      BY DEF ChannelInv, InboxFits
    <3>3. n \notin DOMAIN inbox[p]
      BY <2>1
    <3> HIDE DEF n
    <3> QED
      BY <3>1, <3>2, <3>3
  <2> HIDE DEF n
  <2> QED
    BY <1>2, <2>2, <2>3, <2>4
<1>4. ASSUME NEW p \in Runs, ResumeWithSteering(p) PROVE r = q /\ i = j
  <2> DEFINE new == created + 1
             c   == Cardinality(PendingIn(p))
             m   == InOrder(PendingIn(p))
  <2>1. /\ new \in Runs /\ new # p /\ inbox[new] = <<>>
        /\ DOMAIN inbox'[p] = DOMAIN inbox[p]
        /\ \A x \in DOMAIN inbox[p] :
             inbox'[p][x] = IF x \in PendingIn(p)
                            THEN As(inbox[p][x], "superseded")
                            ELSE inbox[p][x]
        /\ DOMAIN inbox'[new] = 1 .. c
        /\ \A n \in 1 .. c : m[n] \in PendingIn(p) /\ inbox'[new][n] = inbox[p][m[n]]
        /\ \A x \in Runs : x # p /\ x # new => inbox'[x] = inbox[x]
    BY <1>4, ResumedRows
  <2>2. \A n1, n2 \in 1 .. c : m[n1] = m[n2] => n1 = n2
    BY PendingFits, InOrderOfRows
  <2> HIDE DEF new, c, m
  <2>3. ASSUME NEW x \in Runs, NEW y \in DOMAIN inbox'[x], x # new
        PROVE  y \in DOMAIN inbox[x]
    BY <2>1, <2>3
  <2>4. ASSUME NEW n \in 1 .. c
        PROVE  /\ m[n] \in DOMAIN inbox[p] /\ inbox[p][m[n]].state = "pending"
               /\ inbox'[new][n].source = inbox[p][m[n]].source
               /\ inbox'[p][m[n]].state = "superseded"
    <3>1. m[n] \in PendingIn(p) /\ m[n] \in DOMAIN inbox[p]
      BY <2>1 DEF PendingIn
    <3>2. inbox[p][m[n]] \in Rows
      BY <1>0, <3>1, InboxTypes
    <3>3. inbox'[p][m[n]] = As(inbox[p][m[n]], "superseded")
      BY <2>1, <3>1
    <3> QED
      BY <2>1, <3>1, <3>2, <3>3, AsKeeps DEF PendingIn, RowStates
  \* A transferred row beside one that was there before.
  <2>5. ASSUME NEW n \in 1 .. c, NEW x \in Runs, NEW y \in DOMAIN inbox[x],
               inbox'[x][y].state # "superseded",
               inbox'[new][n].source = inbox'[x][y].source
        PROVE  FALSE
    <3>1. inbox[x][y].state # "superseded" /\ inbox'[x][y].source = inbox[x][y].source
      BY <1>1, <2>5
    <3>2. x = p /\ y = m[n]
      BY <2>4, <2>5, <3>1 DEF OneRowPerSubmission
    <3> QED
      BY <2>4, <2>5, <3>2
  <2>6. CASE r = new /\ q = new
    <3>1. i \in 1 .. c /\ j \in 1 .. c
      BY <2>1, <2>6
    <3>2. m[i] = m[j]
      BY <2>4, <2>6, <3>1 DEF OneRowPerSubmission
    <3> QED
      BY <2>2, <2>6, <3>1, <3>2
  <2>7. CASE r = new /\ q # new
    <3>1. i \in 1 .. c /\ j \in DOMAIN inbox[q]
      BY <2>1, <2>3, <2>7
    <3> QED
      BY <2>5, <2>7, <3>1
  <2>8. CASE r # new /\ q = new
    <3>1. j \in 1 .. c /\ i \in DOMAIN inbox[r]
      BY <2>1, <2>3, <2>8
    <3> QED
      BY <2>5, <2>8, <3>1
  <2>9. CASE r # new /\ q # new
    BY <1>2, <2>3, <2>9
  <2> QED
    BY <2>6, <2>7, <2>8, <2>9
\* Every other step keeps the rows there are.
<1>5. ASSUME inbox' = inbox PROVE r = q /\ i = j
  BY <1>2, <1>5
<1>6. ASSUME NEW p \in Runs, NEW rows \in SUBSET Indices, rows \subseteq PendingIn(p),
             NEW s \in {"consumed", "superseded"}, Disposes(p, rows, s)
      PROVE  r = q /\ i = j
  <2>1. rows \subseteq DOMAIN inbox[p]
    BY <1>6 DEF PendingIn
  <2> QED
    BY <1>0, <1>2, <1>6, <2>1, DisposedRows
<1> QED
  BY <1>3, <1>4, <1>5, <1>6, LiveSteps

-----------------------------------------------------------------------------
(* Every disposition is told of once                                        *)

\* How often a log tells that a row was accepted, consumed or superseded.
Mentions(log, kind, i) == {n \in DOMAIN log : log[n] = [kind |-> kind, row |-> i]}
Times(log, kind, i)    == Cardinality(Mentions(log, kind, i))

\* The longer log has one mention more of each of the rows, and no other.
Adds(log, longer, kind, rows) ==
  \A k \in Kinds, i \in Indices :
    /\ Times(log, k, i) \in Nat
    /\ k = kind /\ i \in rows => Times(longer, k, i) = Times(log, k, i) + 1
    /\ k # kind \/ i \notin rows => Times(longer, k, i) = Times(log, k, i)

\* An announcement adds one mention of each of its rows, and no other.
LEMMA MentionsGrow ==
  ASSUME NEW log \in Seq(Notices), NEW rows \in SUBSET Indices, NEW kind \in Kinds,
         NEW longer, longer = log \o Announce(kind, rows)
  PROVE  Adds(log, longer, kind, rows)
<1> SUFFICES ASSUME NEW k \in Kinds, NEW i \in Indices
             PROVE
      /\ Times(log, k, i) \in Nat
      /\ k = kind /\ i \in rows => Times(longer, k, i) = Times(log, k, i) + 1
      /\ k # kind \/ i \notin rows => Times(longer, k, i) = Times(log, k, i)
  BY DEF Adds
<1> USE DEF Times
<1> DEFINE news == Announce(kind, rows)
           c == Cardinality(rows)
           len == Len(log)
           M == Mentions(log, k, i)
           L == Mentions(longer, k, i)
           order == InOrder(rows)
<1>1. /\ news \in Seq(Notices) /\ Len(news) = c /\ c \in Nat
      /\ \A n \in 1 .. c : news[n] = [kind |-> kind, row |-> order[n]]
  BY Announced, RowsAreFinite
<1>2. /\ \A n \in 1 .. c : order[n] \in rows
      /\ \A x \in rows : \E n \in 1 .. c : order[n] = x
      /\ \A m, n \in 1 .. c : order[m] = order[n] => m = n
  BY InOrderOfRows
<1>3. len \in Nat /\ DOMAIN log = 1 .. len
  BY LenProperties
<1> HIDE DEF news, c, len, order
<1>4. /\ longer \in Seq(Notices) /\ Len(longer) = len + c
      /\ \A n \in 1 .. len + c : longer[n] = IF n <= len THEN log[n] ELSE news[n - len]
  BY <1>1, ConcatProperties DEF news, len
<1>5. DOMAIN longer = 1 .. len + c
  BY <1>4, LenProperties
<1>6. IsFiniteSet(M) /\ Cardinality(M) \in Nat
  <2>1. IsFiniteSet(1 .. len)
    BY <1>3, FS_Interval
  <2>2. M \subseteq 1 .. len
    BY <1>3 DEF Mentions
  <2> HIDE DEF M
  <2> QED
    BY <2>1, <2>2, FS_Subset, FS_CardinalityType
\* The mentions among the first len events are those of log.
<1>7. ASSUME NEW n \in 1 .. len + c, n <= len PROVE n \in L <=> n \in M
  <2>1. n \in 1 .. len /\ longer[n] = log[n]
    BY <1>3, <1>4, <1>7
  <2> QED
    BY <1>3, <1>5, <2>1 DEF Mentions
\* The others are in the announcement.
<1>8. ASSUME NEW n \in 1 .. len + c, ~(n <= len)
      PROVE  /\ n - len \in 1 .. c /\ n \notin M
             /\ n \in L <=> k = kind /\ order[n - len] = i
  <2>1. n - len \in 1 .. c /\ n \notin 1 .. len
    BY <1>1, <1>3, <1>8
  <2>2. longer[n] = [kind |-> kind, row |-> order[n - len]]
    BY <1>1, <1>4, <1>8, <2>1
  <2>3. n \in L <=> longer[n] = [kind |-> k, row |-> i]
    BY <1>5 DEF Mentions
  <2>4. [kind |-> kind, row |-> order[n - len]] = [kind |-> k, row |-> i]
        <=> k = kind /\ order[n - len] = i
    OBVIOUS
  <2>5. n \notin M
    BY <1>3, <2>1 DEF Mentions
  <2> QED
    BY <2>1, <2>2, <2>3, <2>4, <2>5
<1>9. L \subseteq 1 .. len + c /\ M \subseteq 1 .. len + c
  <2>1. M \subseteq 1 .. len
    BY <1>3 DEF Mentions
  <2>2. 1 .. len \subseteq 1 .. len + c
    BY <1>1, <1>3
  <2> QED
    BY <1>5, <2>1, <2>2 DEF Mentions
<1> HIDE DEF L, M
<1>10. CASE k = kind /\ i \in rows
  <2>1. PICK m \in 1 .. c : order[m] = i
    BY <1>2, <1>10
  <2>2. len + m \in 1 .. len + c /\ ~(len + m <= len) /\ (len + m) - len = m
    BY <1>1, <1>3
  <2>3. len + m \in L /\ len + m \notin M
    BY <1>8, <1>10, <2>1, <2>2
  <2>4. ASSUME NEW n \in L PROVE n \in M \cup {len + m}
    <3>1. n \in 1 .. len + c
      BY <1>9
    <3>2. CASE n <= len
      BY <1>7, <3>1, <3>2
    <3>3. CASE ~(n <= len)
      <4>1. n - len \in 1 .. c /\ order[n - len] = i
        BY <1>8, <3>1, <3>3
      <4>2. n - len = m
        BY <1>2, <2>1, <4>1
      <4>3. n = len + m
        BY <1>3, <3>1, <4>2
      <4> QED
        BY <4>3
    <3> QED
      BY <3>2, <3>3
  <2>5. ASSUME NEW n \in M PROVE n \in L
    <3>1. n \in 1 .. len + c
      BY <1>9
    <3> QED
      BY <1>7, <1>8, <3>1
  <2>6. L = M \cup {len + m}
    BY <2>3, <2>4, <2>5
  <2>7. Cardinality(M \cup {len + m}) = Cardinality(M) + 1
    BY <1>6, <2>3, FS_AddElement
  <2> QED
    BY <1>6, <1>10, <2>6, <2>7 DEF L, M
<1>11. CASE ~(k = kind /\ i \in rows)
  <2>1. ASSUME NEW n \in 1 .. len + c PROVE n \in L <=> n \in M
    BY <1>2, <1>7, <1>8, <1>11
  <2>2. L = M
    BY <1>9, <2>1
  <2> QED
    BY <1>6, <1>11, <2>2 DEF L, M
<1> QED
  BY <1>10, <1>11

\* The log of a run tells of each row that it was accepted, and of the
\* disposition it has.
Tells(rows, log) ==
  \A i \in DOMAIN rows :
    /\ Times(log, "accepted", i) = 1
    /\ \A s \in {"consumed", "superseded"} :
         Times(log, s, i) = IF rows[i].state = s THEN 1 ELSE 0

LEMMA ToldOnceIsTells ==
  /\ TellsOnce <=> \A r \in Runs : Tells(inbox[r], told[r])
  /\ TellsOnce' <=> \A r \in Runs : Tells(inbox'[r], told'[r])
BY DEF TellsOnce, TimesTold, Tells, Mentions, Times

\* Rows of an inbox, all of them pending, are given a disposition.
Disposed(old, new, rows, s) ==
  /\ DOMAIN new = DOMAIN old
  /\ \A i \in DOMAIN old :
       /\ i \in rows => old[i].state = "pending"
       /\ new[i] = IF i \in rows THEN As(old[i], s) ELSE old[i]

\* A log that tells of its rows still does after pending ones of them are
\* disposed of and announced.
LEMMA TellsDisposal ==
  ASSUME NEW log \in Seq(Notices), NEW old \in Seq(Rows), DOMAIN old \subseteq Indices,
         Tells(old, log), NEW s \in {"consumed", "superseded"},
         NEW rows \in SUBSET Indices,
         NEW longer, longer = log \o Announce(s, rows),
         NEW new, Disposed(old, new, rows, s)
  PROVE  Tells(new, longer)
<1>0. /\ DOMAIN new = DOMAIN old
      /\ \A i \in DOMAIN old :
           /\ i \in rows => old[i].state = "pending"
           /\ new[i] = IF i \in rows THEN As(old[i], s) ELSE old[i]
  BY DEF Disposed
<1> SUFFICES ASSUME NEW i \in DOMAIN old
             PROVE  /\ Times(longer, "accepted", i) = 1
                    /\ \A t \in {"consumed", "superseded"} :
                         Times(longer, t, i) =
                           IF new[i].state = t THEN 1 ELSE 0
  BY <1>0 DEF Tells
<1>1. /\ Times(log, "accepted", i) = 1
      /\ \A t \in {"consumed", "superseded"} :
           Times(log, t, i) = IF old[i].state = t THEN 1 ELSE 0
  BY DEF Tells
<1>2. i \in Indices /\ s \in Kinds /\ s # "accepted"
  BY DEF Kinds
<1>a. Adds(log, longer, s, rows)
  BY <1>2, MentionsGrow
<1>3. ASSUME NEW k \in Kinds
      PROVE  /\ Times(log, k, i) \in Nat
             /\ k = s /\ i \in rows => Times(longer, k, i) = Times(log, k, i) + 1
             /\ k # s \/ i \notin rows => Times(longer, k, i) = Times(log, k, i)
  BY <1>2, <1>a DEF Adds
<1>4. Times(longer, "accepted", i) = 1
  BY <1>1, <1>2, <1>3 DEF Kinds
<1>5. CASE i \in rows
  <2>1. old[i].state = "pending" /\ old[i] \in Rows
    BY <1>0, <1>5, ElementOfSeq, LenProperties
  <2>2. new[i].state = s
    BY <1>0, <1>5, <2>1, AsKeeps DEF RowStates
  <2>3. ASSUME NEW t \in {"consumed", "superseded"}
        PROVE  Times(longer, t, i) = IF new[i].state = t THEN 1 ELSE 0
    <3>1. Times(log, t, i) = 0
      BY <1>1, <2>1
    <3> QED
      BY <1>3, <1>5, <2>2, <3>1 DEF Kinds
  <2> QED
    BY <1>4, <2>3
<1>6. CASE i \notin rows
  <2>1. ASSUME NEW t \in {"consumed", "superseded"}
        PROVE  Times(longer, t, i) = IF new[i].state = t THEN 1 ELSE 0
    <3>1. new[i] = old[i]
      BY <1>0, <1>6
    <3>2. Times(longer, t, i) = Times(log, t, i)
      BY <1>3, <1>6 DEF Kinds
    <3> QED
      BY <1>1, <3>1, <3>2
  <2> QED
    BY <1>4, <2>1
<1> QED
  BY <1>5, <1>6

\* A log that has no event about a row gets the one that it was accepted.
LEMMA TellsAcceptance ==
  ASSUME NEW log \in Seq(Notices), NEW rows \in SUBSET Indices,
         NEW longer, longer = log \o Announce("accepted", rows),
         NEW i \in rows, \A n \in DOMAIN log : log[n].row # i
  PROVE  /\ Times(longer, "accepted", i) = 1
         /\ \A s \in {"consumed", "superseded"} : Times(longer, s, i) = 0
<1>1. ASSUME NEW k \in Kinds PROVE Times(log, k, i) = 0
  <2>1. Mentions(log, k, i) = {}
    BY DEF Mentions
  <2> QED
    BY <2>1, FS_EmptySet DEF Times
<1>2. i \in Indices
  OBVIOUS
<1>3. "accepted" \in Kinds
  BY DEF Kinds
<1>4. Adds(log, longer, "accepted", rows)
  BY <1>3, MentionsGrow
<1> QED
  BY <1>1, <1>2, <1>4 DEF Adds, Kinds

\* However commits are retried, lose their answer or land late, each event is
\* recorded with the change it tells of, and that change happens once.
LEMMA ToldStep ==
  ChannelInv /\ FencedRowsAreLive /\ TellsOnce /\ [SteeringNext]_allVars => TellsOnce'
<1> SUFFICES ASSUME ChannelInv, FencedRowsAreLive, TellsOnce, [SteeringNext]_allVars,
                    NEW q \in Runs
             PROVE  Tells(inbox'[q], told'[q])
  BY ToldOnceIsTells
<1>0. SteeringTypeOK
  BY DEF ChannelInv
<1>1. /\ inbox[q] \in Seq(Rows) /\ told[q] \in Seq(Notices)
      /\ DOMAIN inbox[q] = 1 .. Len(inbox[q]) /\ Len(inbox[q]) \in Nat
      /\ DOMAIN inbox[q] \subseteq Indices
      /\ \A n \in DOMAIN told[q] : told[q][n].row \in DOMAIN inbox[q]
      /\ Tells(inbox[q], told[q])
  <2>1. Len(inbox[q]) <= MaxRows /\ \A n \in DOMAIN told[q] : told[q][n].row \in DOMAIN inbox[q]
    BY DEF ChannelInv, InboxFits
  <2>2. /\ inbox[q] \in Seq(Rows) /\ told[q] \in Seq(Notices)
        /\ DOMAIN inbox[q] = 1 .. Len(inbox[q]) /\ Len(inbox[q]) \in Nat
    BY <1>0, InboxTypes
  <2>3. DOMAIN inbox[q] \subseteq Indices
    BY <2>1, <2>2, SteeringAssumption DEF Indices
  <2>4. Tells(inbox[q], told[q])
    BY ToldOnceIsTells
  <2> QED
    BY <2>1, <2>2, <2>3, <2>4
<1>2. ASSUME inbox'[q] = inbox[q], told'[q] = told[q] PROVE Tells(inbox'[q], told'[q])
  BY <1>1, <1>2
<1>3. ASSUME NEW r \in Runs, NEW k \in Keys, Submit(r, k)
      PROVE  Tells(inbox'[q], told'[q])
  <2> DEFINE n == Len(inbox[r]) + 1
             news == {n}
  <2>1. /\ n \in Indices
        /\ DOMAIN inbox'[r] = 1 .. n
        /\ \A i \in DOMAIN inbox[r] : inbox'[r][i] = inbox[r][i]
        /\ inbox'[r][n] = Row(k, "pending", <<r, n>>)
        /\ told'[r] = told[r] \o Announce("accepted", news)
        /\ \A x \in Runs : x # r => inbox'[x] = inbox[x] /\ told'[x] = told[x]
    BY <1>0, <1>3, SubmittedRows
  <2>2. news \in SUBSET Indices /\ n \in news /\ \A i : i \in news => i = n
    BY <2>1
  <2>3. CASE q # r
    BY <1>2, <2>1, <2>3
  <2>4. CASE q = r
    <3>1. ASSUME NEW i \in DOMAIN inbox'[q]
          PROVE  i = n \/ (i # n /\ i \in DOMAIN inbox[q])
      BY <1>1, <2>1, <2>4
    <3>2. \A j \in DOMAIN told[q] : told[q][j].row # n
      BY <1>1, <2>4
    <3> HIDE DEF n, news
    <3>3. told'[q] = told[q] \o Announce("accepted", news)
      BY <2>1, <2>4
    <3>4. /\ Times(told'[q], "accepted", n) = 1
          /\ \A s \in {"consumed", "superseded"} :
               Times(told'[q], s, n) = 0
      BY <1>1, <2>2, <3>2, <3>3, TellsAcceptance
    <3>5. inbox'[q][n].state = "pending"
      BY <2>1, <2>4 DEF Row
    <3>6. ASSUME NEW i \in DOMAIN inbox[q], i # n, NEW kind \in Kinds
          PROVE  Times(told'[q], kind, i)
                   = Times(told[q], kind, i)
      <4>1. i \in Indices /\ i \notin news /\ "accepted" \in Kinds
        BY <1>1, <2>2, <3>6 DEF Kinds
      <4>2. Adds(told[q], told'[q], "accepted", news)
        BY <1>1, <2>2, <3>3, <4>1, MentionsGrow
      <4> QED
        BY <4>1, <4>2 DEF Adds
    <3>7. ASSUME NEW i \in DOMAIN inbox[q], i # n
          PROVE  /\ Times(told'[q], "accepted", i) = 1
                 /\ \A s \in {"consumed", "superseded"} :
                      Times(told'[q], s, i) =
                        IF inbox'[q][i].state = s THEN 1 ELSE 0
      <4>1. inbox'[q][i] = inbox[q][i]
        BY <2>1, <2>4
      <4> QED
        BY <1>1, <3>6, <3>7, <4>1 DEF Tells, Kinds
    <3> QED
      BY <3>1, <3>4, <3>5, <3>7 DEF Tells
  <2> QED
    BY <2>3, <2>4
<1>4. ASSUME NEW r \in Runs, ResumeWithSteering(r) PROVE Tells(inbox'[q], told'[q])
  <2> DEFINE new == created + 1
             P   == PendingIn(r)
             c   == Cardinality(P)
             m   == InOrder(P)
             rows == 1 .. c
  <2>1. /\ new \in Runs /\ new # r /\ told[new] = <<>>
        /\ c \in Nat /\ c <= MaxRows
        /\ DOMAIN inbox'[r] = DOMAIN inbox[r]
        /\ \A i \in DOMAIN inbox[r] :
             inbox'[r][i] = IF i \in P THEN As(inbox[r][i], "superseded") ELSE inbox[r][i]
        /\ DOMAIN inbox'[new] = 1 .. c
        /\ \A n \in 1 .. c : m[n] \in P /\ inbox'[new][n] = inbox[r][m[n]]
        /\ told'[r] = told[r] \o Announce("superseded", P)
        /\ told'[new] = Announce("accepted", rows)
        /\ \A x \in Runs : x # r /\ x # new => inbox'[x] = inbox[x] /\ told'[x] = told[x]
    BY <1>4, ResumedRows
  <2>2. /\ P \in SUBSET Indices /\ rows \in SUBSET Indices
        /\ \A i \in P : inbox[r][i].state = "pending"
    <3>1. P \in SUBSET Indices
      BY PendingFits
    <3>2. \A i \in P : inbox[r][i].state = "pending"
      BY DEF PendingIn
    <3> HIDE DEF P, c, m, new
    <3>3. rows \in SUBSET Indices
      BY <2>1, SteeringAssumption DEF Indices
    <3> QED
      BY <3>1, <3>2, <3>3
  <2> HIDE DEF new, P, c, m
  <2>3. CASE q = r
    <3>1. Disposed(inbox[q], inbox'[q], P, "superseded")
      BY <2>1, <2>2, <2>3 DEF Disposed
    <3>2. told'[q] = told[q] \o Announce("superseded", P)
      BY <2>1, <2>3
    <3> QED
      BY <1>1, <2>2, <3>1, <3>2, TellsDisposal
  <2>4. CASE q = new
    <3> SUFFICES ASSUME NEW i \in DOMAIN inbox'[new]
                 PROVE  /\ Times(told'[new], "accepted", i) = 1
                        /\ \A s \in {"consumed", "superseded"} :
                             Times(told'[new], s, i) =
                               IF inbox'[new][i].state = s THEN 1 ELSE 0
      BY <2>4 DEF Tells
    <3>1. i \in rows /\ inbox'[new][i].state = "pending"
      BY <2>1, <2>2
    <3> HIDE DEF rows
    <3>2. told'[new] = <<>> \o Announce("accepted", rows) /\ <<>> \in Seq(Notices)
      <4>1. "accepted" \in Kinds
        BY DEF Kinds
      <4>2. Announce("accepted", rows) \in Seq(Notices)
        BY <2>2, <4>1, Announced
      <4> QED
        BY <2>1, <4>2, ConcatEmptySeq, EmptySeq
    <3>3. \A j \in DOMAIN <<>> : <<>>[j].row # i
      BY EmptySeq
    <3>4. /\ Times(told'[new], "accepted", i) = 1
          /\ \A s \in {"consumed", "superseded"} :
               Times(told'[new], s, i) = 0
      BY <2>2, <3>1, <3>2, <3>3, TellsAcceptance
    <3> QED
      BY <3>1, <3>4
  <2>5. CASE q # r /\ q # new
    BY <1>2, <2>1, <2>5
  <2> QED
    BY <2>3, <2>4, <2>5
<1>5. ASSUME NEW r \in Runs, NEW rows \in SUBSET Indices, NEW s \in {"consumed", "superseded"},
             rows \subseteq PendingIn(r), Disposes(r, rows, s)
      PROVE  Tells(inbox'[q], told'[q])
  <2>1. rows \subseteq DOMAIN inbox[r] /\ \A i \in rows : inbox[r][i].state = "pending"
    BY <1>5 DEF PendingIn
  <2>2. told'[r] = told[r] \o Announce(s, rows)
    BY <1>0, <1>5 DEF Disposes, SteeringTypeOK
  <2>3. DOMAIN inbox'[q] = DOMAIN inbox[q]
    BY <1>0, <1>5, <2>1, DisposedRows
  <2>4. ASSUME NEW i \in DOMAIN inbox[q]
        PROVE  inbox'[q][i] = IF q = r /\ i \in rows THEN As(inbox[q][i], s)
                              ELSE inbox[q][i]
    BY <1>0, <1>1, <1>5, <2>1, DisposedRows
  <2>5. CASE q = r
    <3>1. Disposed(inbox[q], inbox'[q], rows, s)
      BY <2>1, <2>3, <2>4, <2>5 DEF Disposed
    <3> QED
      BY <1>1, <2>2, <2>5, <3>1, TellsDisposal
  <2>6. CASE q # r
    <3>1. inbox'[q] = inbox[q] /\ told'[q] = told[q]
      BY <1>0, <1>5, <2>1, <2>6, DisposedRows
    <3> QED
      BY <1>2, <3>1
  <2> QED
    BY <2>5, <2>6
<1> QED
  BY <1>2, <1>3, <1>4, <1>5, LiveSteps

-----------------------------------------------------------------------------
(* The theorems                                                             *)

\* Every step preserves the whole invariant.
LEMMA SteeringStep == SteeringInv /\ [SteeringNext]_allVars => SteeringInv'
<1> SUFFICES ASSUME SteeringInv, [SteeringNext]_allVars PROVE SteeringInv'
  OBVIOUS
<1>1. ChannelInv /\ ChannelInv'
  BY ChannelStep DEF SteeringInv
<1>2. ASSUME redrives' = 0
      PROVE  AttemptsGrow' /\ FencedRowsAreLive' /\ OneRowPerSubmission' /\ TellsOnce'
  <2>1. redrives = 0
    BY <1>1, <1>2, QueueSteps, NoRedriveYet DEF ChannelInv
  <2>2. AttemptsGrow /\ FencedRowsAreLive /\ OneRowPerSubmission /\ TellsOnce
    BY <2>1 DEF SteeringInv, FenceInv
  <2> QED
    BY <1>1, <1>2, <2>2, AttemptsGrowStep, FencedStep, OneRowStep, ToldStep
<1> QED
  BY <1>1, <1>2 DEF SteeringInv, FenceInv

\* Every reachable state satisfies SteeringInv.
THEOREM SteeringInvariance == SteeringSafetySpec => []SteeringInv
<1>1. QED
  BY SteeringInitInv, SteeringStep, PTL DEF SteeringSafetySpec

\* Whatever is submitted while a run closes, ends, pauses or is resumed is disposed
\* of in the run it belongs to and, until a run is redriven, takes effect at most
\* once.
THEOREM InboxSettles == SteeringSafetySpec => []InboxIsSettled
<1>1. SteeringInv => InboxIsSettled
  BY DEF SteeringInv, ChannelInv, FenceInv, InboxIsSettled, Unrepeated
<1>2. QED
  BY <1>1, SteeringInvariance, PTL

\* The owner of a run hands its graph no row that was disposed of before.
LEMMA OwnersHaveLiveRows == ChannelInv /\ FencedRowsAreLive => OwnerHasLiveRows
<1> SUFFICES ASSUME ChannelInv, FencedRowsAreLive, NEW w \in Workers, Owns(w)
             PROVE  /\ \A i \in fresh[w] : inbox[held[w]][i].state = "pending"
                    /\ \A i \in drained[w] :
                         inbox[held[w]][i].state \in {"pending", "consumed"}
  BY DEF OwnerHasLiveRows
<1>1. \A i \in drained[w] : inbox[held[w]][i] \in Rows
  <2>1. held[w] \in Runs /\ drained[w] \subseteq DOMAIN inbox[held[w]]
    BY DrainedAreRows DEF Owns
  <2> QED
    BY <2>1, InboxTypes DEF ChannelInv
<1> QED
  BY <1>1 DEF FencedRowsAreLive, Rows, RowStates

\* What a graph is handed is what the inbox holds for it: in order, once and, until
\* a run is redriven, not disposed of before by anyone.
THEOREM GraphMeetsItsInbox == SteeringSafetySpec => []GraphMeetsInbox
<1>1. SteeringInv => GraphMeetsInbox
  BY OwnersHaveLiveRows
     DEF SteeringInv, ChannelInv, FenceInv, GraphMeetsInbox, Unrepeated
<1>2. QED
  BY <1>1, SteeringInvariance, PTL

\* Until a run is redriven, the lifecycle events tell of every row what became of
\* it, exactly once.
THEOREM EventsTellOnce == SteeringSafetySpec => []ToldOnce
<1>1. SteeringInv => ToldOnce
  BY DEF SteeringInv, FenceInv, ToldOnce, Unrepeated
<1>2. QED
  BY <1>1, SteeringInvariance, PTL

\* Whatever was redriven, only a late commit changes a disposition, and only from
\* superseded to consumed.
LEMMA DispositionsHold ==
  ASSUME SteeringInv, [SteeringNext]_allVars,
         NEW q \in Runs, NEW i \in DOMAIN inbox[q], inbox[q][i].state # "pending"
  PROVE  inbox'[q][i] = inbox[q][i] \/ ConsumedLate(q, i)
<1>0. ChannelInv /\ SteeringTypeOK /\ IndInv /\ TypeOK
  BY DEF SteeringInv, ChannelInv, IndInv
<1>1. inbox[q][i] \in Rows /\ i \in Indices
  <2>1. Len(inbox[q]) <= MaxRows
    BY <1>0 DEF ChannelInv, InboxFits
  <2> QED
    BY <1>0, <2>1, InboxTypes, SteeringAssumption DEF Indices
<1>2. CASE Unrepeated
  BY <1>0, <1>2, DispositionsStand DEF SteeringInv, FenceInv, Unrepeated
<1>3. CASE ~Unrepeated
  <2>1. CASE Quiet
    BY <2>1 DEF Quiet
  <2>2. ASSUME NEW r \in Runs, NEW k \in Keys, Submit(r, k)
        PROVE  inbox'[q][i] = inbox[q][i]
    BY <1>0, <2>2, SubmittedRows
  <2>3. ASSUME NEW r \in Runs, ResumeWithSteering(r) PROVE inbox'[q][i] = inbox[q][i]
    <3>1. /\ inbox[created + 1] = <<>>
          /\ \A j \in DOMAIN inbox[r] :
               inbox'[r][j] = IF j \in PendingIn(r) THEN As(inbox[r][j], "superseded")
                              ELSE inbox[r][j]
          /\ \A p \in Runs : p # r /\ p # created + 1 => inbox'[p] = inbox[p]
      BY <1>0, <2>3, ResumedRows
    <3>2. q # created + 1 /\ i \notin PendingIn(q)
      BY <3>1 DEF PendingIn
    <3> QED
      BY <3>1, <3>2
  <2>4. ASSUME NEW w \in Workers, Finalize(w) PROVE inbox'[q][i] = inbox[q][i]
    <3>1. held[w] \in Runs
      BY <1>0, <2>4, BoundsAssumption
         DEF Finalize, FinalizeRun, FinishIfOwned, Owns, TypeOK, Runs
    <3>2. Disposes(held[w], PendingIn(held[w]), "superseded")
      BY <2>4 DEF Finalize, Leftover, Disposes
    <3>3. /\ PendingIn(held[w]) \in SUBSET Indices
          /\ PendingIn(held[w]) \subseteq DOMAIN inbox[held[w]]
      BY <1>0, <3>1, PendingFits
    <3>4. ~(q = held[w] /\ i \in PendingIn(held[w]))
      BY DEF PendingIn
    <3> QED
      BY <1>0, <1>1, <3>1, <3>2, <3>3, <3>4, DisposedRows
  <2>5. ASSUME NEW w \in Workers, Fenced(w)
        PROVE  inbox'[q][i] = inbox[q][i] \/ ConsumedLate(q, i)
    <3>1. PICK r \in Runs, rows \in SUBSET Indices :
            /\ CommitRows(r, rows) /\ rows \subseteq DOMAIN inbox[r]
            /\ \/ /\ Owns(w) /\ r = held[w] /\ rows \subseteq drained[w]
               \/ /\ late[w] # NoCommit /\ r = late[w].run /\ rows = late[w].rows
                  /\ late'[w] = NoCommit
      BY <2>5 DEF Fenced
    <3> DEFINE changed == {j \in rows : inbox[r][j].state # "consumed"}
    <3>2. inbox'[q][i] = IF q = r /\ i \in changed THEN As(inbox[q][i], "consumed")
                         ELSE inbox[q][i]
      <4>1. /\ Disposes(r, changed, "consumed")
            /\ changed \in SUBSET Indices /\ changed \subseteq DOMAIN inbox[r]
        BY <3>1, CommitDisposes
      <4> HIDE DEF changed
      <4> QED
        BY <1>0, <1>1, <4>1, DisposedRows
    <3>3. ASSUME q = r, i \in changed PROVE ConsumedLate(q, i)
      <4>1. inbox[q][i].state = "superseded"
        BY <1>1, <3>3 DEF Rows, RowStates
      <4>2. ~(Owns(w) /\ r = held[w] /\ rows \subseteq drained[w])
        BY <1>0, <3>3, <4>1 DEF ChannelInv, OwnedRowsStand
      <4>3. As(inbox[q][i], "consumed").state = "consumed"
        BY <1>1, AsKeeps DEF RowStates
      <4> QED
        BY <1>3, <3>1, <3>2, <3>3, <4>1, <4>2, <4>3 DEF ConsumedLate
    <3> QED
      BY <3>2, <3>3
  <2> QED
    BY <1>0, <2>1, <2>2, <2>3, <2>4, <2>5, InboxSteps
<1> QED
  BY <1>2, <1>3

\* A disposition is final: no delivery that lost its lease, no repeated commit, no
\* redrive and no end of a run changes it, and a late commit does so in one case
\* only, after a redrive.
THEOREM DispositionsAreFinal == SteeringSafetySpec => DispositionIsFinal
<1>1. SteeringInv /\ [SteeringNext]_allVars =>
        [\A r \in Runs : \A i \in DOMAIN inbox[r] :
           inbox[r][i].state # "pending" =>
             inbox'[r][i] = inbox[r][i] \/ ConsumedLate(r, i)]_allVars
  BY DispositionsHold
<1>2. QED
  BY <1>1, SteeringInvariance, PTL DEF SteeringSafetySpec, DispositionIsFinal

=============================================================================
