----------------------------- MODULE EventStream -----------------------------
(***************************************************************************)
(* The event log of one run (run_events), the deliveries and requests that  *)
(* append to it, and the SSE streams through which clients of one API       *)
(* replica follow it.                                                       *)
(*                                                                         *)
(* An append is a transaction: lock the run's row, number the event, insert *)
(* it.  On PostgreSQL these are separate statements, so they are separate   *)
(* steps here.  A stream is a loop of awaits: list, send, look at the run,  *)
(* wait for a wake that may never come.  Deliveries are numbered in the     *)
(* order of their claims; a delivery whose lease was recovered goes on, and *)
(* nothing fences its ordinary events.                                      *)
(***************************************************************************)
EXTENDS Naturals, FiniteSets, SequencesExt

CONSTANTS
  Clients,         \* clients that may follow the run
  MaxSse,          \* limits.max_sse_connections
  MaxFaults,       \* bound: broken connections, restarts of the API replica
  Audiences        \* who follows the run, and bounds: see audience

ASSUME StreamAssumption ==
  /\ MaxSse \in Nat \ {0}
  /\ MaxFaults \in Nat
  /\ \A a \in Audiences :
       a.clients \subseteq Clients /\ {a.claims, a.events, a.unstarted} \subseteq Nat

VARIABLES
  audience,        \* one of Audiences; fixed
  log,             \* rows of run_events, in the order of their commits
  status,          \* status of the run
  owner,           \* the delivery that holds its lease, 0 if none
  claims,          \* deliveries claimed so far
  alive,           \* deliveries that are still executing
  lock,            \* who holds the row lock of the run
  doing,           \* per writer, its transaction
  number,          \* per writer, the sequence number it computed
  clash,           \* an insert hit UNIQUE (tenant_id, run_id, sequence)
  conn,            \* per client, where generate() is
  cursor,          \* per client, the local variable sequence of generate()
  batch,           \* per client, the events listed and not yet sent
  received,        \* per client, all it received, over all its connections
  slots,           \* app.state.sse_counts of the tenant
  flag,            \* the asyncio.Event of the in-memory bus is set
  faults,          \* counts against MaxFaults
  unstarted        \* counts against MaxUnstarted

runVars    == <<status, owner, claims, alive>>
txVars     == <<lock, doing, number, clash>>
streamVars == <<conn, cursor, batch, received, slots>>
vars == <<audience, log, runVars, txVars, streamVars, flag, faults, unstarted>>

Followers    == audience.clients    \* clients that follow the run
MaxEvents    == audience.events     \* bound: events of the run
MaxClaims    == audience.claims     \* bound: deliveries of the run
MaxUnstarted == audience.unstarted  \* bound: responses whose generator never starts

API        == 0                   \* the writer behind POST /steer
Deliveries == 1 .. MaxClaims
Writers    == {API} \cup Deliveries
Nobody     == MaxClaims + 1

Statuses == {"pending", "running", "cancelling", "paused", "failed", "ended"}
ACTIVE   == {"running", "cancelling"}
TERMINAL == {"failed", "ended"}

\* Statuses at which generate() returns.
Closing == TERMINAL \cup {"paused"}

Transactions == {"step",        \* append_event of a delivery
                 "retry",       \* retry_run_with_event_if_owned
                 "finish",      \* the fenced write of an outcome
                 "accept"}      \* submit_steering with its accepted event
Kinds == {"step", "worker_retrying", "accepted", "superseded"}
MaxNumber == CHOOSE n \in {a.events : a \in Audiences} : \A a \in Audiences : a.events <= n
Event == [sequence : 1 .. MaxNumber, by : Writers, kind : Kinds]

Phases == {"off", "listing", "sending", "waiting"}
Open   == {c \in Clients : conn[c] # "off"}

TypeOK ==
  /\ log \in Seq(Event)
  /\ status \in Statuses
  /\ owner \in 0 .. claims
  /\ claims \in 0 .. MaxClaims
  /\ alive \subseteq 1 .. claims
  /\ lock \in Writers \cup {Nobody}
  /\ doing \in [Writers -> Transactions \cup {"idle", "publish"}]
  /\ number \in [Writers -> 0 .. MaxEvents + 1]
  /\ clash \in BOOLEAN
  /\ conn \in [Clients -> Phases]
  /\ cursor \in [Clients -> 0 .. MaxEvents]
  /\ batch \in [Clients -> Seq(Event)]
  /\ received \in [Clients -> Seq(Event)]
  /\ slots \in 0 .. MaxSse
  /\ flag \in BOOLEAN
  /\ faults \in 0 .. MaxFaults
  /\ unstarted \in 0 .. MaxUnstarted

Init ==
  /\ audience \in Audiences
  /\ log = <<>>
  /\ status = "pending" /\ owner = 0 /\ claims = 0 /\ alive = {}
  /\ lock = Nobody
  /\ doing = [w \in Writers |-> "idle"]
  /\ number = [w \in Writers |-> 0]
  /\ clash = FALSE
  /\ conn = [c \in Clients |-> "off"]
  /\ cursor = [c \in Clients |-> 0]
  /\ batch = [c \in Clients |-> <<>>]
  /\ received = [c \in Clients |-> <<>>]
  /\ slots = 0 /\ flag = FALSE /\ faults = 0 /\ unstarted = 0

-----------------------------------------------------------------------------
(* The run: claims, recovery of a lease, cancel requests, redrive.  Each of  *)
(* them takes the row lock of the run.                                      *)

ClaimRun ==
  /\ lock = Nobody
  /\ status = "pending" /\ claims < MaxClaims
  /\ status' = "running"
  /\ claims' = claims + 1
  /\ owner' = claims'
  /\ alive' = alive \cup {claims'}
  /\ UNCHANGED <<log, txVars, streamVars, flag, faults, unstarted>>

\* The lease of the owner lapsed and a claim recovers the run.  The former
\* owner may be alive; RunQueue says when.
RecoverLease ==
  /\ lock = Nobody
  /\ status \in ACTIVE
  /\ status' = IF status = "running" THEN "pending" ELSE "ended"
  /\ owner' = 0
  /\ UNCHANGED <<log, claims, alive, txVars, streamVars, flag, faults, unstarted>>

RequestCancel ==
  /\ lock = Nobody
  /\ status \in {"pending", "paused", "running"}
  /\ status' = IF status = "running" THEN "cancelling" ELSE "ended"
  /\ UNCHANGED <<log, owner, claims, alive, txVars, streamVars, flag, faults, unstarted>>

Redrive ==
  /\ lock = Nobody
  /\ status = "failed"
  /\ status' = "pending"
  /\ UNCHANGED <<log, owner, claims, alive, txVars, streamVars, flag, faults, unstarted>>

-----------------------------------------------------------------------------
(* Appending to the log                                                     *)

Owns(w) == owner = w /\ status \in ACTIVE

MayBegin(w, kind) ==
  CASE kind = "step"   -> w \in alive
    [] kind \in {"retry", "finish"} -> w \in alive /\ Owns(w)
    [] kind = "accept" -> w = API /\ status \notin TERMINAL

LockFree == lock = Nobody

\* SELECT ... FOR UPDATE, the checks on the row, then MAX(sequence) + 1.
Begin(w, kind) ==
  /\ LockFree
  /\ doing[w] = "idle"
  /\ MayBegin(w, kind)
  /\ kind = "finish" \/ Len(log) < MaxEvents
  /\ lock' = w
  /\ doing' = [doing EXCEPT ![w] = kind]
  /\ number' = [number EXCEPT ![w] = Len(log) + 1]
  /\ UNCHANGED <<log, runVars, clash, streamVars, flag, faults, unstarted>>

\* The insert and the commit.  An event that is in the log is published next.
Insert(w, kind) ==
  /\ number[w] <= MaxEvents
  /\ IF \E i \in DOMAIN log : log[i].sequence = number[w]
     THEN clash' = TRUE /\ doing' = [doing EXCEPT ![w] = "idle"] /\ UNCHANGED log
     ELSE /\ log' = Append(log, [sequence |-> number[w], by |-> w, kind |-> kind])
          /\ doing' = [doing EXCEPT ![w] = "publish"]
          /\ UNCHANGED clash

InsertNothing(w) ==
  doing' = [doing EXCEPT ![w] = "idle"] /\ UNCHANGED <<log, clash>>

EndTx(w) == /\ lock' = IF lock = w THEN Nobody ELSE lock
            /\ number' = [number EXCEPT ![w] = 0]
            /\ UNCHANGED <<streamVars, flag, faults, unstarted>>

CommitEvent(w) ==
  /\ doing[w] \in {"step", "accept"}
  /\ Insert(w, IF doing[w] = "step" THEN "step" ELSE "accepted")
  /\ EndTx(w)
  /\ UNCHANGED runVars

\* Mutant: the status is written, and seen, before the event is appended.
CommitRetryInTwo(w) ==
  \/ /\ doing[w] = "retry"
     /\ status' = IF status = "cancelling" THEN "ended" ELSE "pending"
     /\ owner' = 0 /\ alive' = alive \ {w} /\ UNCHANGED claims
     /\ lock' = Nobody /\ number' = [number EXCEPT ![w] = 0]
     /\ UNCHANGED <<log, doing, clash, streamVars, flag, faults, unstarted>>
  \/ /\ doing[w] = "retry" /\ w \notin alive /\ Len(log) < MaxEvents
     /\ log' = Append(log, [sequence |-> Len(log) + 1, by |-> w, kind |-> "worker_retrying"])
     /\ doing' = [doing EXCEPT ![w] = "publish"]
     /\ UNCHANGED <<runVars, lock, number, clash, streamVars, flag, faults, unstarted>>

\* A retry and its event are one write, and a cancel request wins over both.
CommitRetry(w) ==
  /\ doing[w] = "retry"
  /\ \/ status = "running" /\ status' = "pending" /\ Insert(w, "worker_retrying")
     \/ status = "cancelling" /\ status' = "ended" /\ InsertNothing(w)
  /\ owner' = 0
  /\ alive' = alive \ {w}
  /\ EndTx(w)
  /\ UNCHANGED claims

\* The outcome.  A final one comes with what became of pending steering, if
\* there is any; a paused one appends nothing, and nothing is published.
CommitFinish(w) ==
  /\ doing[w] = "finish"
  /\ \/ status' \in TERMINAL /\ Insert(w, "superseded")
     \/ status' \in TERMINAL \cup {"paused"} /\ InsertNothing(w)
  /\ status = "cancelling" => status' = "ended"
  /\ owner' = 0
  /\ alive' = alive \ {w}
  /\ EndTx(w)
  /\ UNCHANGED claims

Commit(w) == CommitEvent(w) \/ CommitRetry(w) \/ CommitFinish(w)

\* A fenced write found the lease gone.
Abandon(w) ==
  /\ w \in alive /\ doing[w] = "idle" /\ ~Owns(w)
  /\ alive' = alive \ {w}
  /\ UNCHANGED <<log, status, owner, claims, txVars, streamVars, flag, faults, unstarted>>

\* The process of a delivery dies: its transaction is rolled back.
Crash(w) ==
  /\ w \in alive \/ doing[w] # "idle"
  /\ alive' = alive \ {w}
  /\ doing' = [doing EXCEPT ![w] = "idle"]
  /\ EndTx(w)
  /\ UNCHANGED <<log, status, owner, claims, clash>>

-----------------------------------------------------------------------------
(* The event bus                                                            *)

\* publish() wakes those who wait.  With none, the in-memory bus remembers it
\* for the next to wait, and Redis forgets it.  A publish that fails, or on the
\* in-memory bus of another process, is not heard at all.
Publish(w) ==
  /\ doing[w] = "publish"
  /\ doing' = [doing EXCEPT ![w] = "idle"]
  /\ \/ /\ conn' = [c \in Clients |->
                      IF conn[c] = "waiting" THEN "listing" ELSE conn[c]]
        /\ flag' \in IF \E c \in Clients : conn[c] = "waiting" THEN {flag} ELSE BOOLEAN
     \/ UNCHANGED <<conn, flag>>
  /\ UNCHANGED <<log, runVars, lock, number, clash, cursor, batch, received,
                 slots, faults, unstarted>>

\* The heartbeat of the delivery waits on the same bus and takes the wake.
HeartbeatTakesWake ==
  /\ flag
  /\ flag' = FALSE
  /\ UNCHANGED <<log, runVars, txVars, streamVars, faults, unstarted>>

-----------------------------------------------------------------------------
(* A stream                                                                 *)

\* Mutant: the quota is compared with <=.
AdmitsOneMore == slots <= MaxSse

AdmitsStream == slots < MaxSse

LastEventId(c) ==
  IF received[c] = <<>> THEN 0 ELSE Last(received[c]).sequence

\* A slot is taken before the response starts.  The client asks for what
\* follows the last event it received.
Connect(c) ==
  /\ conn[c] = "off"
  /\ AdmitsStream
  /\ slots' = slots + 1
  /\ conn' = [conn EXCEPT ![c] = "listing"]
  /\ cursor' = [cursor EXCEPT ![c] = LastEventId(c)]
  /\ UNCHANGED <<log, runVars, txVars, batch, received, flag, faults, unstarted>>

\* int(Last-Event-ID) raises, or the client is gone before the generator is
\* first advanced: its finally clause never runs.
ConnectInVain(c) ==
  /\ conn[c] = "off"
  /\ AdmitsStream
  /\ unstarted < MaxUnstarted
  /\ unstarted' = unstarted + 1
  /\ slots' = slots + 1
  /\ UNCHANGED <<log, runVars, txVars, conn, cursor, batch, received, flag, faults>>

\* SELECT ... WHERE sequence > after ORDER BY sequence.
Following(after) ==
  LET late == {log[i] : i \in {j \in DOMAIN log : log[j].sequence > after}}
  IN  CHOOSE rows \in [1 .. Cardinality(late) -> late] :
        \A m, n \in DOMAIN rows : m < n => rows[m].sequence < rows[n].sequence

ListEvents(c) ==
  /\ conn[c] = "listing"
  /\ batch' = [batch EXCEPT ![c] = Following(cursor[c])]
  /\ conn' = [conn EXCEPT ![c] = "sending"]
  /\ UNCHANGED <<log, runVars, txVars, cursor, received, slots, flag, faults, unstarted>>

SendEvent(c) ==
  /\ conn[c] = "sending" /\ batch[c] # <<>>
  /\ cursor' = [cursor EXCEPT ![c] = Head(batch[c]).sequence]
  /\ received' = [received EXCEPT ![c] = Append(@, Head(batch[c]))]
  /\ batch' = [batch EXCEPT ![c] = Tail(@)]
  /\ UNCHANGED <<log, runVars, txVars, conn, slots, flag, faults, unstarted>>

\* The connection ends: the generator is closed and gives its slot back.
Close(c) == /\ conn' = [conn EXCEPT ![c] = "off"]
            /\ cursor' = [cursor EXCEPT ![c] = 0]
            /\ batch' = [batch EXCEPT ![c] = <<>>]
            /\ slots' = slots - 1

\* get_run comes after the events were listed: what was appended in between
\* stays unsent when the run is over.
CloseWhenOver(c) ==
  /\ conn[c] = "sending" /\ batch[c] = <<>>
  /\ status \in Closing
  /\ Close(c)
  /\ UNCHANGED <<log, runVars, txVars, received, flag, faults, unstarted>>

\* A wake the bus remembers ends the wait at once.
StartWaiting(c) ==
  /\ conn[c] = "sending" /\ batch[c] = <<>>
  /\ status \notin Closing
  /\ conn' = [conn EXCEPT ![c] = IF flag THEN "listing" ELSE "waiting"]
  /\ flag' = FALSE
  /\ UNCHANGED <<log, runVars, txVars, cursor, batch, received, slots, faults, unstarted>>

\* Mutant: the wait has no timeout.
NeverTimesOut(c) == FALSE /\ UNCHANGED <<log, runVars, txVars, streamVars, flag, faults, unstarted>>

TimesOut(c) ==
  /\ conn[c] = "waiting"
  /\ conn' = [conn EXCEPT ![c] = "listing"]
  /\ UNCHANGED <<log, runVars, txVars, cursor, batch, received, slots, flag,
                 faults, unstarted>>

Disconnect(c) ==
  /\ conn[c] # "off" /\ faults < MaxFaults
  /\ faults' = faults + 1
  /\ Close(c)
  /\ UNCHANGED <<log, runVars, txVars, received, flag, unstarted>>

\* The API replica restarts, and with it its counter and an in-memory bus.
RestartApi ==
  /\ faults < MaxFaults
  /\ faults' = faults + 1
  /\ conn' = [c \in Clients |-> "off"]
  /\ cursor' = [c \in Clients |-> 0]
  /\ batch' = [c \in Clients |-> <<>>]
  /\ slots' = 0 /\ flag' = FALSE
  /\ doing' = [doing EXCEPT ![API] = "idle"]
  /\ number' = [number EXCEPT ![API] = 0]
  /\ lock' = IF lock = API THEN Nobody ELSE lock
  /\ UNCHANGED <<log, runVars, clash, received, unstarted>>

StreamStep(c) ==
  \/ Connect(c) \/ ListEvents(c) \/ SendEvent(c) \/ CloseWhenOver(c)
  \/ StartWaiting(c) \/ TimesOut(c)

Step ==
  \/ ClaimRun \/ RecoverLease \/ RequestCancel \/ Redrive
  \/ \E w \in Writers : (\E kind \in Transactions : Begin(w, kind)) \/ Commit(w) \/ Publish(w)
  \/ \E w \in Deliveries : Abandon(w) \/ Crash(w)
  \/ HeartbeatTakesWake \/ RestartApi
  \/ \E c \in Followers : StreamStep(c) \/ ConnectInVain(c) \/ Disconnect(c)

Next == Step /\ UNCHANGED audience

Spec == Init /\ [][Next]_vars

\* An API replica runs its coroutines, the timer of a wait goes off, and a
\* client that is cut off connects again.  Nothing is assumed of deliveries,
\* transactions, wakes or requests.
FairSpec == Spec /\ \A c \in Clients : WF_vars(c \in Followers /\ StreamStep(c) /\ UNCHANGED audience)

-----------------------------------------------------------------------------
(* Properties                                                               *)

\* The sequence number an append computes is still free when it inserts, so
\* the unique constraint never fails a delivery or a steer request: the row
\* lock is held from the numbering to the commit (_append_event_sync).
AppendsNeverClash == ~clash

\* What a client has received, over all its connections, is the log from its
\* first event on, without gap or repetition: "the server starts at the next
\* event" (stream_run; Wiki/content/docs/en/api/errors-events.mdx, "SSE format
\* and resume").
ReceivedIsPrefix ==
  \A c \in Clients :
    /\ IsPrefix(received[c], log)
    /\ \A i \in DOMAIN received[c] : received[c][i].sequence = i

\* worker_retrying of a delivery precedes every event of a later delivery, the
\* order the docstring of retry_run_with_event_if_owned claims; a delivery whose
\* lease was recovered never logs one.
RetryPrecedesNext ==
  \A i, j \in DOMAIN log :
    log[i].kind = "worker_retrying" /\ log[j].by > log[i].by => i < j

\* The log is numbered without a clash, and in the order of the deliveries.
LogIsOrdered == AppendsNeverClash /\ RetryPrecedesNext

\* The log is in order, and every client sees it from its start in that order.
ClientsFollowTheLog == LogIsOrdered /\ ReceivedIsPrefix

\* No more streams are open than the tenant's quota, through disconnections,
\* restarts and responses that never start (stream_run, sse_lock).
WithinSseQuota == Cardinality(Open) <= MaxSse

\* There is a slot for everyone, and none was lost.
Roomy == Cardinality(Followers) <= MaxSse /\ MaxUnstarted = 0

\* Every event reaches every client that keeps connecting, although wakes are
\* missed, the outcome of a run is not published at all, and a stream that
\* sees the run over does not send what was appended since it listed.
EverythingArrives ==
  \A c \in Clients : \A n \in 1 .. MaxNumber :
    (Roomy /\ c \in Followers /\ Len(log) >= n) ~> (Len(received[c]) >= n)

\* A stream does not outlive a run that is over or paused.
StreamsEndWithRun ==
  \A c \in Clients :
    LET over == status \in TERMINAL \cup {"paused"}
    IN  (over /\ conn[c] # "off") ~> (~over \/ conn[c] = "off")

\* Streams bring everything, and end.
StreamsDeliver == EverythingArrives /\ StreamsEndWithRun

-----------------------------------------------------------------------------
(* The inductive invariant, of which EventStreamProofs shows that it holds   *)

Rows == [sequence : Nat, by : Nat, kind : Kinds]

\* Deliveries are numbered, and only the last one claimed can own the run.
DeliveriesFit ==
  /\ claims \in Nat /\ owner \in {0, claims}
  /\ alive \subseteq 1 .. claims

\* Events are numbered from 1 on without a gap, by deliveries that were claimed.
LogFits ==
  /\ log \in Seq(Rows)
  /\ \A i \in DOMAIN log : log[i].sequence = i /\ log[i].by \in 0 .. claims

\* Whoever is between its numbering and its commit holds the row lock, so the
\* number is still the next one and the owner still the owner.
TransactionsFit ==
  /\ doing \in [Writers -> Transactions \cup {"idle", "publish"}]
  /\ number \in [Writers -> Nat]
  /\ \A w \in Writers : doing[w] \in Transactions =>
       /\ lock = w /\ number[w] = Len(log) + 1 /\ w <= claims
       /\ doing[w] \in {"retry", "finish"} => w = owner /\ w # API

\* A client has the log up to its cursor; what was listed for it comes next.
StreamFits(c) ==
  /\ Len(received[c]) <= Len(log)
  /\ \A i \in 1 .. Len(received[c]) : received[c][i] = log[i]
  /\ conn[c] # "off" => cursor[c] = Len(received[c])
  /\ conn[c] = "sending" =>
       /\ Len(received[c]) + Len(batch[c]) <= Len(log)
       /\ \A i \in 1 .. Len(batch[c]) : batch[c][i] = log[Len(received[c]) + i]

StreamsFit ==
  /\ conn \in [Clients -> Phases]
  /\ received \in [Clients -> Seq(Rows)] /\ batch \in [Clients -> Seq(Rows)]
  /\ cursor \in [Clients -> Nat]
  /\ \A c \in Clients : StreamFits(c)

\* Every open stream has a slot.
SlotsFit ==
  /\ slots \in 0 .. MaxSse
  /\ IsFiniteSet(Open) /\ Cardinality(Open) <= slots

StreamInv ==
  /\ audience \in Audiences
  /\ DeliveriesFit /\ LogFits /\ TransactionsFit /\ LogIsOrdered
  /\ StreamsFit /\ SlotsFit

-----------------------------------------------------------------------------
(* A statement of the documents that the code does not keep                 *)

\* The gauge lingxigraph_sse_clients, "Active SSE clients on this API replica",
\* counts the open streams.  A response that never starts breaks this.
SlotPerStream == slots = Cardinality(Open)
=============================================================================
