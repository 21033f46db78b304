------------------------------ MODULE Steering ------------------------------
(***************************************************************************)
(* Mid-run steering: the durable inbox of a run (run_steering_events), the  *)
(* lifecycle events about it, and the channel through which the worker that *)
(* delivers the run feeds its graph.                                        *)
(*                                                                         *)
(* Every action is a conjunction of an action of RunQueue, or none, with    *)
(* what the same code does to inbox and channel.  A repository call that a  *)
(* worker awaits is a step of its own; on PostgreSQL it runs in a thread    *)
(* that cancelling the caller does not stop, so a commit may land late.     *)
(***************************************************************************)
EXTENDS RunQueue, Ordering, SequencesExt

CONSTANTS
  Keys,            \* idempotency keys; a request without one has a fresh one
  MaxRows,         \* bound: rows per inbox
  MaxFaults        \* bound: repository calls that fail or lose their answer

ASSUME SteeringAssumption == MaxRows \in Nat /\ MaxFaults \in Nat

VARIABLES
  inbox,           \* per run, its rows in sequence order
  told,            \* per run, its run.steer.* events in sequence order
  beat,            \* where the heartbeat task of a worker is
  snapshot,        \* rows list_pending_steering returned, not yet ingested
  fresh,           \* SteeringChannel._pending of the delivery
  handed,          \* rows the graph drained in this delivery, in order
  drained,         \* SteeringChannel._consumed_log: not yet acked
  batch,           \* the part of it the heartbeat is committing
  late,            \* a commit that outlived its cancelled heartbeat
  faults           \* counts against MaxFaults

channelVars == <<beat, snapshot, fresh, handed, drained, batch>>
steerVars   == <<inbox, told, channelVars, late, faults>>
allVars     == <<vars, steerVars>>

\* A row remembers the submission it stems from: its own place, or the one of
\* the row it was transferred from (source_event_id).
Row(key, state, from) == [key |-> key, state |-> state, source |-> from]
Indices    == 1 .. MaxRows
RowStates  == {"pending", "consumed", "superseded"}
Notices    == [kind : {"accepted", "consumed", "superseded"}, row : Indices]
NoCommit   == [run |-> 0, attempt |-> 0, rows |-> {}]

BeatPhases == {"off",         \* no heartbeat task
           "starting",    \* run claimed, inbox not read
           "entering",    \* inbox read, channel not filled
           "waiting",     \* between two rounds, cancel flag read
           "listed",      \* inbox read
           "committing",  \* commit of batch in flight
           "renewing",    \* about to renew the lease
           "gone"}        \* ended by an exception or by a lost lease

SteeringTypeOK ==
  /\ inbox \in [Runs -> Seq([key : Keys, state : RowStates, source : Runs \X Indices])]
  /\ told \in [Runs -> Seq(Notices)]
  /\ beat \in [Workers -> BeatPhases]
  /\ snapshot \in [Workers -> SUBSET Indices]
  /\ fresh \in [Workers -> SUBSET Indices]
  /\ handed \in [Workers -> Seq(Indices)]
  /\ drained \in [Workers -> SUBSET Indices]
  /\ batch \in [Workers -> SUBSET Indices]
  /\ late \in [Workers -> [run : 0 .. MaxRuns, attempt : Nat, rows : SUBSET Indices]]
  /\ faults \in 0 .. MaxFaults

SteeringInit ==
  /\ Init
  /\ inbox = [r \in Runs |-> <<>>]
  /\ told = [r \in Runs |-> <<>>]
  /\ beat = [w \in Workers |-> "off"]
  /\ snapshot = [w \in Workers |-> {}]
  /\ fresh = [w \in Workers |-> {}]
  /\ handed = [w \in Workers |-> <<>>]
  /\ drained = [w \in Workers |-> {}]
  /\ batch = [w \in Workers |-> {}]
  /\ late = [w \in Workers |-> NoCommit]
  /\ faults = 0

-----------------------------------------------------------------------------
(* The inbox                                                                *)

PendingIn(r) == {i \in DOMAIN inbox[r] : inbox[r][i].state = "pending"}

Marked(r, rows, state) ==
  [i \in DOMAIN inbox[r] |->
     IF i \in rows THEN [inbox[r][i] EXCEPT !.state = state] ELSE inbox[r][i]]

\* One lifecycle event per row, in sequence order.
Announce(kind, rows) ==
  LET order == InOrder(rows)
  IN  [n \in DOMAIN order |-> [kind |-> kind, row |-> order[n]]]

\* Mutant: the gate of a run that was resumed is not looked at.
AdmitsWhenResumed(r) == status[r] \notin TERMINAL \cup {"absent"} /\ ~closed[r]

Admits(r) ==
  status[r] \notin TERMINAL \cup {"absent"} /\ ~closed[r] /\ successor[r] = 0

\* A key the inbox knows is looked up before the gates and only reads back
\* the row that was accepted for it: a stuttering step.
Submit(r, k) ==
  LET i == Len(inbox[r]) + 1
  IN  /\ Admits(r)
      /\ \A j \in DOMAIN inbox[r] : inbox[r][j].key # k
      /\ i <= MaxRows
      /\ inbox' = [inbox EXCEPT ![r] = Append(@, Row(k, "pending", <<r, i>>))]
      /\ told' = [told EXCEPT ![r] = @ \o Announce("accepted", {i})]
      /\ UNCHANGED <<vars, channelVars, late, faults>>

Vacated(r) == Marked(r, PendingIn(r), "superseded")

\* Resuming moves what is still pending to the run that continues.
ResumeWithSteering(r) ==
  LET new   == created + 1
      moved == InOrder(PendingIn(r))
  IN  /\ Resume(r)
      /\ inbox' = [inbox EXCEPT
           ![r] = Vacated(r),
           ![new] = [n \in DOMAIN moved |->
                       [inbox[r][moved[n]] EXCEPT !.state = "pending"]]]
      /\ told' = [told EXCEPT
           ![r] = @ \o Announce("superseded", PendingIn(r)),
           ![new] = Announce("accepted", DOMAIN moved)]
      /\ UNCHANGED <<channelVars, late, faults>>

\* Mutant: every row of a batch is told of, the ones consumed before as well.
CommitRetelling(r, rows) ==
  /\ inbox' = [inbox EXCEPT ![r] = Marked(r, rows, "consumed")]
  /\ told' = [told EXCEPT ![r] = @ \o Announce("consumed", rows)]

\* _commit_steering_consumptions_locked tells of the rows it changes only.
CommitRows(r, rows) ==
  LET changed == {i \in rows : inbox[r][i].state # "consumed"}
  IN  /\ inbox' = [inbox EXCEPT ![r] = Marked(r, changed, "consumed")]
      /\ told' = [told EXCEPT ![r] = @ \o Announce("consumed", changed)]

-----------------------------------------------------------------------------
(* The heartbeat and the channel                                            *)

\* A delivery begins and ends with a channel of its own.
NewChannel(w, phase) ==
  /\ beat' = [beat EXCEPT ![w] = phase]
  /\ snapshot' = [snapshot EXCEPT ![w] = {}]
  /\ fresh' = [fresh EXCEPT ![w] = {}]
  /\ handed' = [handed EXCEPT ![w] = <<>>]
  /\ drained' = [drained EXCEPT ![w] = {}]
  /\ batch' = [batch EXCEPT ![w] = {}]

Claim(w) ==
  /\ ClaimRun(w)
  /\ NewChannel(w, "starting")
  /\ UNCHANGED <<inbox, told, late, faults>>

\* list_pending_steering
Listed(r) == PendingIn(r)

\* _sync_steering_in reads the inbox, once before the graph starts and then in
\* every round of the heartbeat.
ReadInbox(w) ==
  /\ beat[w] \in {"starting", "waiting"}
  /\ beat' = [beat EXCEPT ![w] = IF @ = "starting" THEN "entering" ELSE "listed"]
  /\ snapshot' = [snapshot EXCEPT ![w] = Listed(held[w])]
  /\ UNCHANGED <<vars, inbox, told, fresh, handed, drained, batch, late, faults>>

\* Mutant: ingest forgets the rows the graph drained already.
KnownPending(w) == fresh[w]

\* SteeringChannel._seen_ids
Known(w) == fresh[w] \cup ToSet(handed[w])

\* ... and fills the channel with the rows it does not know yet.  A heartbeat
\* goes on to _sync_steering_out, which peeks at the consumption log at once.
Ingest(w) ==
  /\ beat[w] \in {"entering", "listed"}
  /\ fresh' = [fresh EXCEPT ![w] = @ \cup (snapshot[w] \ Known(w))]
  /\ snapshot' = [snapshot EXCEPT ![w] = {}]
  /\ IF beat[w] = "entering"
     THEN beat' = [beat EXCEPT ![w] = "waiting"] /\ UNCHANGED batch
     ELSE /\ beat' = [beat EXCEPT ![w] = IF drained[w] = {} THEN "renewing"
                                         ELSE "committing"]
          /\ batch' = [batch EXCEPT ![w] = drained[w]]
  /\ UNCHANGED <<vars, inbox, told, handed, drained, late, faults>>

Running(w) == pc[w] = "executing" /\ beat[w] \notin {"starting", "entering"}

\* A node calls runtime.drain_steering.
DrainSteering(w) ==
  /\ Running(w) /\ fresh[w] # {}
  /\ handed' = [handed EXCEPT ![w] = @ \o InOrder(fresh[w])]
  /\ drained' = [drained EXCEPT ![w] = @ \cup fresh[w]]
  /\ fresh' = [fresh EXCEPT ![w] = {}]
  /\ UNCHANGED <<vars, inbox, told, beat, snapshot, batch, late, faults>>

\* Mutant: the commit is not fenced.
AnyoneMayCommit(w, r, a) == TRUE

\* The fence of commit_steering_consumptions_if_owned.
MayCommit(w, r, a) == owner[r] = w /\ attempt[r] = a /\ status[r] \in ACTIVE

\* The commit of the heartbeat's batch: only its rows are acked, the graph may
\* have drained more since.  A refused commit acks nothing.
CommitBatch(w) ==
  /\ beat[w] = "committing"
  /\ IF MayCommit(w, held[w], heldAttempt[w])
     THEN /\ CommitRows(held[w], batch[w])
          /\ drained' = [drained EXCEPT ![w] = @ \ batch[w]]
     ELSE UNCHANGED <<inbox, told, drained>>
  /\ beat' = [beat EXCEPT ![w] = "renewing"]
  /\ batch' = [batch EXCEPT ![w] = {}]
  /\ UNCHANGED <<vars, snapshot, fresh, handed, late, faults>>

\* A call fails for the worker, whether or not it reached the database.
CommitFails(w, r, a, rows) ==
  /\ faults < MaxFaults
  /\ faults' = faults + 1
  /\ \/ UNCHANGED <<inbox, told>>
     \/ MayCommit(w, r, a) /\ CommitRows(r, rows)

\* The batch stays in the log for the next round.
CommitBatchFails(w) ==
  /\ beat[w] = "committing"
  /\ CommitFails(w, held[w], heldAttempt[w], batch[w])
  /\ beat' = [beat EXCEPT ![w] = "renewing"]
  /\ batch' = [batch EXCEPT ![w] = {}]
  /\ UNCHANGED <<vars, snapshot, fresh, handed, drained, late>>

\* Any other exception ends the heartbeat task, unnoticed until the graph ends.
HeartbeatDies(w) ==
  /\ beat[w] \in {"waiting", "renewing"}
  /\ faults < MaxFaults
  /\ faults' = faults + 1
  /\ beat' = [beat EXCEPT ![w] = "gone"]
  /\ UNCHANGED <<vars, inbox, told, snapshot, fresh, handed, drained, batch, late>>

\* The lease is renewed at the end of a round; while finalizing, by the renewal
\* loop whenever it likes.
Renew(w) ==
  /\ RenewLease(w)
  /\ pc[w] = "executing" => beat[w] = "renewing"
  /\ beat' = [beat EXCEPT ![w] = IF pc[w] = "executing" THEN "waiting" ELSE @]
  /\ UNCHANGED <<inbox, told, snapshot, fresh, handed, drained, batch, late, faults>>

\* A round starts with the cancel flag; a lost lease ends the task.
Notice(w) ==
  /\ NoticeCancel(w)
  /\ \/ beat[w] = "waiting" /\ status[held[w]] \in {"cancelling", "cancelled"}
        /\ UNCHANGED beat
     \/ beat[w] = "renewing" /\ ~Beats(w)
        /\ beat' = [beat EXCEPT ![w] = "gone"]
  /\ UNCHANGED <<inbox, told, snapshot, fresh, handed, drained, batch, late, faults>>

-----------------------------------------------------------------------------
(* The end of a delivery                                                    *)

\* The heartbeat is cancelled wherever it is.  A commit in flight is not: its
\* thread goes on.  Bound: one such commit per worker.
Settle(w) ==
  /\ Running(w)
  /\ GraphEnds(w)
  /\ beat' = [beat EXCEPT ![w] = "off"]
  /\ snapshot' = [snapshot EXCEPT ![w] = {}]
  /\ batch' = [batch EXCEPT ![w] = {}]
  /\ \/ UNCHANGED late
     \/ /\ beat[w] = "committing" /\ late[w] = NoCommit
        /\ late' = [late EXCEPT ![w] = [run |-> held[w], rows |-> batch[w],
                                        attempt |-> heldAttempt[w]]]
  /\ UNCHANGED <<inbox, told, fresh, handed, drained, faults>>

\* The late commit lands, if the fence still lets it, or comes to nothing.
LateCommit(w) ==
  /\ late[w] # NoCommit
  /\ LET c == late[w]
     IN  \/ MayCommit(w, c.run, c.attempt) /\ CommitRows(c.run, c.rows)
         \/ UNCHANGED <<inbox, told>>
  /\ late' = [late EXCEPT ![w] = NoCommit]
  /\ UNCHANGED <<vars, channelVars, faults>>

Close(w) == CloseSteering(w) /\ UNCHANGED steerVars

\* _final_steering_flush commits what is left of the log, or has nothing to.
Flush(w) ==
  /\ FlushDone(w)
  /\ \/ drained[w] = {} /\ UNCHANGED <<inbox, told, drained>>
     \/ /\ drained[w] # {} /\ MayCommit(w, held[w], heldAttempt[w])
        /\ CommitRows(held[w], drained[w])
        /\ drained' = [drained EXCEPT ![w] = {}]
  /\ UNCHANGED <<beat, snapshot, fresh, handed, batch, late, faults>>

\* A failed flush is tried again for as long as the lease lasts.
FlushAgain(w) ==
  /\ pc[w] = "flushing" /\ drained[w] # {}
  /\ ~draining[w]
  /\ CommitFails(w, held[w], heldAttempt[w], drained[w])
  /\ UNCHANGED <<vars, channelVars, late>>

GiveUp(w) ==
  /\ FlushGivesUp(w) /\ drained[w] # {}
  /\ \/ ~Owns(w) /\ UNCHANGED <<inbox, told, faults>>
     \/ draining[w] /\ CommitFails(w, held[w], heldAttempt[w], drained[w])
  /\ UNCHANGED <<channelVars, late>>

\* Mutant: only the rows that reached the channel are disposed of.
LeftByChannel(w) == PendingIn(held[w]) \cap Known(w)

\* The rows nobody will consume any more.
Leftover(w) == PendingIn(held[w])

\* Terminal status, dispositions and their events are one write.
Finalize(w) ==
  /\ FinalizeRun(w)
  /\ inbox' = [inbox EXCEPT ![held[w]] = Marked(held[w], Leftover(w), "superseded")]
  /\ told' = [told EXCEPT ![held[w]] = @ \o Announce("superseded", Leftover(w))]
  /\ NewChannel(w, "off")
  /\ UNCHANGED <<late, faults>>

\* Pausing, retrying and dead-lettering leave the rows where they are.
LeaveRows(w) ==
  /\ PauseRun(w) \/ RetryRun(w) \/ DeadLetter(w) \/ Abandon(w)
  /\ NewChannel(w, "off")
  /\ UNCHANGED <<inbox, told, late, faults>>

CrashWithChannel(w) ==
  /\ Crash(w)
  /\ NewChannel(w, "off")
  /\ UNCHANGED <<inbox, told, late, faults>>

-----------------------------------------------------------------------------
SteeringProgress(w) ==
  \/ Claim(w) \/ (SweepOnly(w) /\ UNCHANGED steerVars)
  \/ (beat[w] = "starting" /\ ReadInbox(w)) \/ (beat[w] = "entering" /\ Ingest(w))
  \/ Settle(w) \/ Close(w) \/ Flush(w) \/ FlushAgain(w) \/ GiveUp(w)
  \/ Finalize(w) \/ LeaveRows(w)

SteeringWorker(w) ==
  \/ SteeringProgress(w)
  \/ ReadInbox(w) \/ Ingest(w) \/ CommitBatch(w) \/ CommitBatchFails(w)
  \/ HeartbeatDies(w) \/ Renew(w) \/ Notice(w)
  \/ DrainSteering(w) \/ LateCommit(w)
  \/ (Running(w) /\ TripToken(w) /\ UNCHANGED steerVars)

\* What the rest of the system does leaves inboxes and channels alone.
Elsewhere ==
  /\ \/ \E t \in Threads, s \in Strategies : CreateRun(t, s)
     \/ \E r \in Runs : \/ RequestCancel(r) \/ Redrive(r)
                        \/ OrphanLapses(r) \/ StalledLapses(r)
     \/ \E w \in Mortal : Drain(w)
  /\ UNCHANGED steerVars

SteeringNext ==
  \/ Elsewhere
  \/ \E r \in Runs, k \in Keys : Submit(r, k)
  \/ \E r \in Runs : ResumeWithSteering(r)
  \/ \E w \in Mortal : CrashWithChannel(w)
  \/ \E w \in Workers : SteeringWorker(w)

SteeringSafetySpec == SteeringInit /\ [][SteeringNext]_allVars

\* As for the queue; heartbeats and drains are left to chance.
SteeringSpec ==
  /\ SteeringSafetySpec
  /\ \A w \in Workers : WF_allVars(SteeringProgress(w))
  /\ \A r \in Runs : WF_allVars(OrphanLapses(r) /\ UNCHANGED steerVars)

-----------------------------------------------------------------------------
(* Safety                                                                   *)

\* A run that ended by its own outcome leaves no row behind without a
\* disposition, whatever was submitted while its worker was closing, flushing
\* and finalizing.  (Cancelled runs, and dead letters of a flush that gave up,
\* may keep pending rows.)
NothingStranded ==
  \A r \in Runs : status[r] \in {"succeeded", "failed", "timed_out"}
                    => PendingIn(r) = {}

\* A graph gets each row once per delivery and in the order of acceptance,
\* however reading the inbox, draining and committing interleave.
HandedInOrder ==
  \A w \in Workers : \A i, j \in DOMAIN handed[w] :
    i < j => handed[w][i] < handed[w][j]

\* The owner of a run never hands its graph a row that was consumed or
\* superseded before, and has not lost a row it owes a commit for.
OwnerHasLiveRows ==
  \A w \in Workers : Owns(w) =>
    /\ \A i \in fresh[w] : inbox[held[w]][i].state = "pending"
    /\ \A i \in drained[w] : inbox[held[w]][i].state \in {"pending", "consumed"}

\* The lifecycle events tell of every row what became of it, exactly once,
\* although commits are retried, lose their answer or land late.
TimesTold(r, kind, i) ==
  Cardinality({n \in DOMAIN told[r] : told[r][n] = [kind |-> kind, row |-> i]})
TellsOnce ==
  \A r \in Runs : \A i \in DOMAIN inbox[r] :
    /\ TimesTold(r, "accepted", i) = 1
    /\ \A s \in {"consumed", "superseded"} :
         TimesTold(r, s, i) = IF inbox[r][i].state = s THEN 1 ELSE 0

\* Along a chain of resumed runs, a submission has at most one row that is
\* pending or consumed: it cannot take effect twice.
OneRowPerSubmission ==
  \A r, q \in Runs : \A i \in DOMAIN inbox[r], j \in DOMAIN inbox[q] :
    /\ inbox[r][i].source = inbox[q][j].source
    /\ inbox[r][i].state # "superseded" /\ inbox[q][j].state # "superseded"
    => r = q /\ i = j

\* Nothing waits in the inbox of a run that another run continues.
ResumedInboxIsSettled ==
  \A r \in Runs : successor[r] # 0 => PendingIn(r) = {}

\* A redrive makes the number of an attempt come again: the fence then takes the
\* late commit of the old delivery for one of the new.  What rests on the fence
\* is claimed for as long as no run was redriven.
Unrepeated == redrives = 0

\* Whatever is submitted while a run closes, ends, pauses or is resumed is disposed
\* of in the run it belongs to and, until a run is redriven, takes effect at most
\* once.
InboxIsSettled ==
  NothingStranded /\ ResumedInboxIsSettled /\ (Unrepeated => OneRowPerSubmission)

\* What a graph is handed is what the inbox holds for it: in order, once and, until
\* a run is redriven, live.
GraphMeetsInbox == HandedInOrder /\ (Unrepeated => OwnerHasLiveRows)

\* Until a run is redriven, lifecycle events tell of every row once.
ToldOnce == Unrepeated => TellsOnce

\* The one way to lose a disposition: after a redrive, the commit that outlived an
\* old delivery of the same worker consumes what was superseded meanwhile.
ConsumedLate(r, i) ==
  /\ ~Unrepeated
  /\ inbox[r][i].state = "superseded" /\ inbox'[r][i].state = "consumed"
  /\ \E w \in Workers : /\ late[w] # NoCommit /\ late'[w] = NoCommit
                        /\ late[w].run = r /\ i \in late[w].rows

\* A disposition is final: no delivery, no repeated commit, no redrive changes it,
\* and a late commit does so in the one case above only.
DispositionIsFinal ==
  [][\A r \in Runs : \A i \in DOMAIN inbox[r] :
       inbox[r][i].state # "pending" =>
         inbox'[r][i] = inbox[r][i] \/ ConsumedLate(r, i)]_allVars

\* A resume moves what is pending: the rows of the run that continues are those,
\* in order, and none of them stays pending where it was.  Then and later, no
\* row changes its key, its source or its place.
ResumeMovesPending ==
  [][\A r \in Runs :
       /\ successor'[r] # successor[r] =>
            LET new == inbox'[successor'[r]]
            IN  /\ DOMAIN new = 1 .. Cardinality(PendingIn(r))
                /\ \A n \in DOMAIN new : new[n] = inbox[r][InOrder(PendingIn(r))[n]]
                /\ PendingIn(r)' = {}
       /\ \A i \in DOMAIN inbox[r] :
            /\ i \in DOMAIN inbox'[r]
            /\ inbox'[r][i].key = inbox[r][i].key
            /\ inbox'[r][i].source = inbox[r][i].source]_allVars

\* An accepted row is consumed, superseded, or parked with a run that paused,
\* was cancelled or became a dead letter.
AcceptedIsSettled ==
  \A r \in Runs, i \in Indices :
    i \in PendingIn(r) ~> \/ i \notin PendingIn(r)
                          \/ status[r] \in {"paused", "cancelled", "dead_letter"}
-----------------------------------------------------------------------------
(* The inductive invariant behind the safety properties                     *)

\* An inbox is within its bound, a run that is not created has none, events
\* tell of rows there are, and rows stem from rows there were.
InboxFits ==
  \A r \in Runs :
    /\ Len(inbox[r]) <= MaxRows
    /\ r > created => inbox[r] = <<>> /\ told[r] = <<>>
    /\ \A n \in DOMAIN told[r] : told[r][n].row \in DOMAIN inbox[r]
    /\ \A i \in DOMAIN inbox[r] :
         inbox[r][i].source[2] \in DOMAIN inbox[inbox[r][i].source[1]]

\* What a worker knows of an inbox, it read there: a drained row was handed to
\* the graph, and a commit in flight is a part of what was drained.
ChannelFits ==
  \A w \in Workers :
    /\ held[w] <= created
    /\ held[w] = 0 => Known(w) \cup snapshot[w] = {}
    /\ held[w] # 0 => Known(w) \cup snapshot[w] \subseteq DOMAIN inbox[held[w]]
    /\ fresh[w] \cap ToSet(handed[w]) = {}
    /\ batch[w] \subseteq drained[w] /\ drained[w] \subseteq ToSet(handed[w])
    /\ late[w] # NoCommit => /\ late[w].run \in 1 .. created
                             /\ late[w].rows \subseteq DOMAIN inbox[late[w].run]

\* A heartbeat runs beside a graph, and holds what its round has come to.
BeatFits ==
  \A w \in Workers :
    /\ beat[w] # "off" => pc[w] = "executing"
    /\ snapshot[w] # {} => beat[w] \in {"entering", "listed"}
    /\ batch[w] # {} => beat[w] = "committing"

\* What was read later was accepted later: a row that was passed over is not
\* pending any more.
ReadsInOrder ==
  \A w \in Workers :
    /\ \A i \in fresh[w], j \in ToSet(handed[w]) : j < i
    /\ \A i \in snapshot[w] \ Known(w), j \in Known(w) : j < i
    /\ \A j \in Known(w) \cup snapshot[w] : \A i \in 1 .. j - 1 :
         i \in Known(w) \cup snapshot[w] \/ inbox[held[w]][i].state # "pending"

\* As long as no redrive resets it, a run's attempt passes every older one: a
\* delivery that lost the run, and its late commit, stay behind the fence.
AttemptsGrow ==
  \A w \in Workers :
    /\ held[w] # 0 => heldAttempt[w] <= attempt[held[w]]
    /\ late[w] # NoCommit => late[w].attempt <= attempt[late[w].run]

\* What the owner of a run has read, drained or still commits is live.
FencedRowsAreLive ==
  \A w \in Workers :
    /\ Owns(w) => \A i \in fresh[w] \cup (snapshot[w] \ Known(w)) :
                    inbox[held[w]][i].state = "pending"
    /\ Owns(w) => \A i \in drained[w] : inbox[held[w]][i].state # "superseded"
    /\ late[w] # NoCommit /\ MayCommit(w, late[w].run, late[w].attempt) =>
         /\ \A i \in late[w].rows : inbox[late[w].run][i].state # "superseded"
         /\ held[w] # 0 => late[w].rows \subseteq ToSet(handed[w])

\* What the owner has read or drained may, after a redrive, have been consumed by
\* a late commit; superseded it never is.
OwnedRowsStand ==
  \A w \in Workers : Owns(w) =>
    \A i \in fresh[w] \cup (snapshot[w] \ Known(w)) \cup drained[w] :
      inbox[held[w]][i].state # "superseded"

\* The part that holds whatever operators do ...
ChannelInv ==
  /\ IndInv /\ SteeringTypeOK /\ InboxFits /\ ChannelFits /\ BeatFits
  /\ ReadsInOrder /\ HandedInOrder /\ NothingStranded /\ ResumedInboxIsSettled
  /\ OwnedRowsStand

\* ... and the part a redrive ends, as it makes an attempt's number come again.
FenceInv ==
  redrives = 0 =>
    AttemptsGrow /\ FencedRowsAreLive /\ OneRowPerSubmission /\ TellsOnce

SteeringInv == ChannelInv /\ FenceInv

=============================================================================
