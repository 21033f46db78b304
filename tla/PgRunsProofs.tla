---------------------------- MODULE PgRunsProofs ----------------------------
(***************************************************************************)
(* What the locks, the rechecks and the indexes of the runs table keep, for *)
(* any number of sessions and runs: the inductive invariant of PgRuns, the  *)
(* isolation it implies, and that the table implements RunContract.         *)
(***************************************************************************)
EXTENDS PgRuns, OrderLemmas

-----------------------------------------------------------------------------
(* Rows                                                                     *)

\* The least of a set of runs is one of them.
LEMMA LeastIn ==
  ASSUME NEW S \in SUBSET Ids, S # {}
  PROVE  Least(S) \in S
<1>1. S \in SUBSET Nat
  BY DEF Ids
<1>2. \E m \in S : \A y \in S : m <= y
  BY <1>1, LeastNat
<1> QED
  BY <1>2 DEF Least

LEMMA NoRowFits == NoRow \in Row
BY DEF NoRow, Row, Statuses, Keys

\* A row that is given up, whatever its new status.
LEMMA ReleasedRow ==
  ASSUME NEW row \in Row, NEW to \in Statuses
  PROVE  /\ Released(row, to) \in Row
         /\ Released(row, to).status = to
         /\ Released(row, to).thread = row.thread /\ Released(row, to).key = row.key
         /\ Released(row, to).successor = row.successor /\ Released(row, to).origin = row.origin
         /\ Released(row, to).attempt = row.attempt
         /\ Released(row, to).owner = Nobody /\ Released(row, to).closed = row.closed
         /\ Released(row, to).lapsed = FALSE
BY DEF Released, Row

LEMMA RequeuedRow ==
  ASSUME NEW row \in Row
  PROVE  /\ Requeued(row) \in Row
         /\ Requeued(row).status = "pending"
         /\ Requeued(row).thread = row.thread /\ Requeued(row).key = row.key
         /\ Requeued(row).successor = row.successor /\ Requeued(row).origin = row.origin
         /\ Requeued(row).attempt = row.attempt
         /\ Requeued(row).owner = Nobody /\ Requeued(row).closed = FALSE
         /\ Requeued(row).lapsed = FALSE
<1>1. "pending" \in Statuses
  BY DEF Statuses
<1> DEFINE w == Released(row, "pending")
<1>2. /\ w \in Row /\ w.status = "pending" /\ w.thread = row.thread /\ w.key = row.key
      /\ w.successor = row.successor /\ w.origin = row.origin /\ w.attempt = row.attempt
      /\ w.owner = Nobody /\ w.lapsed = FALSE
  BY <1>1, ReleasedRow
<1>3. Requeued(row) = [w EXCEPT !.closed = FALSE]
  BY DEF Requeued
<1> HIDE DEF w
<1> QED
  BY <1>2, <1>3 DEF Row

\* The status a transaction on one row writes.
Outcome(op, arg, row) ==
  CASE op \in {"finish", "finalize"} -> IF row.status = "cancelling" THEN "cancelled" ELSE arg
    [] op = "retry"   -> IF row.status = "cancelling" THEN "cancelled" ELSE "pending"
    [] op = "cancel"  -> IF CancelRefused(row) THEN row.status
                         ELSE IF row.status \in {"pending", "paused"} THEN "cancelled" ELSE "cancelling"
    [] op = "redrive" -> "pending"
    [] OTHER          -> row.status

ArgFits(op, arg) ==
  /\ op = "finish" => arg \in {"paused", "dead_letter"}
  /\ op = "finalize" => arg \in {"succeeded", "failed", "timed_out"}

\* Rows of one thread and key, at one place in the chain of continuations.
SamePlace(row, other) == /\ row.thread = other.thread /\ row.key = other.key
                         /\ row.successor = other.successor /\ row.origin = other.origin

\* What a transaction writes into its row: a row of the same thread, key and
\* place in the chain of continuations.
LEMMA WrittenRow ==
  ASSUME NEW op \in OneRow, NEW arg, ArgFits(op, arg), NEW row \in Row
  PROVE  /\ Written(op, arg, row) \in Row
         /\ Written(op, arg, row).status = Outcome(op, arg, row)
         /\ SamePlace(Written(op, arg, row), row)
<1> DEFINE W(w) == /\ w \in Row /\ w.status = Outcome(op, arg, row)
                   /\ w.thread = row.thread /\ w.key = row.key
                   /\ w.successor = row.successor /\ w.origin = row.origin
<1> SUFFICES W(Written(op, arg, row))
  BY DEF SamePlace
<1>1. CASE op \in {"finish", "finalize"}
  <2> DEFINE to == IF row.status = "cancelling" THEN "cancelled" ELSE arg
  <2>1. to \in Statuses
    BY <1>1 DEF ArgFits, Statuses, TERMINAL
  <2>2. Written(op, arg, row) = Released(row, to)
    BY <1>1 DEF Written, Finished
  <2>3. Outcome(op, arg, row) = to
    BY <1>1 DEF Outcome
  <2> HIDE DEF to
  <2>4. /\ Released(row, to) \in Row /\ Released(row, to).status = to
        /\ Released(row, to).thread = row.thread /\ Released(row, to).key = row.key
        /\ Released(row, to).successor = row.successor
        /\ Released(row, to).origin = row.origin
    BY <2>1, ReleasedRow
  <2> QED
    BY <2>2, <2>3, <2>4
<1>2. CASE op = "retry"
  <2>1. CASE row.status = "cancelling"
    <3>1. "cancelled" \in Statuses
      BY DEF Statuses, TERMINAL
    <3>2. Written(op, arg, row) = Released(row, "cancelled") /\ Outcome(op, arg, row) = "cancelled"
      BY <1>2, <2>1 DEF Written, RetriedRow, Outcome
    <3>3. /\ Released(row, "cancelled") \in Row /\ Released(row, "cancelled").status = "cancelled"
          /\ Released(row, "cancelled").thread = row.thread
          /\ Released(row, "cancelled").key = row.key
          /\ Released(row, "cancelled").successor = row.successor
          /\ Released(row, "cancelled").origin = row.origin
      BY <3>1, ReleasedRow
    <3> QED
      BY <3>2, <3>3
  <2>2. CASE row.status # "cancelling"
    <3>1. Written(op, arg, row) = Requeued(row) /\ Outcome(op, arg, row) = "pending"
      BY <1>2, <2>2 DEF Written, RetriedRow, Outcome
    <3> QED
      BY <3>1, RequeuedRow
  <2> QED
    BY <2>1, <2>2
<1>3. CASE op = "cancel"
  <2>1. CASE CancelRefused(row)
    BY <1>3, <2>1 DEF Written, CancelledRow, Outcome
  <2>2. CASE ~CancelRefused(row)
    <3> DEFINE to == IF row.status \in {"pending", "paused"} THEN "cancelled" ELSE "cancelling"
    <3>1. to \in Statuses /\ Outcome(op, arg, row) = to
      BY <1>3, <2>2 DEF Statuses, TERMINAL, ACTIVE, Outcome
    <3>2. Written(op, arg, row) = [row EXCEPT !.status = to]
      BY <1>3, <2>2 DEF Written, CancelledRow, Row
    <3> HIDE DEF to
    <3> QED
      BY <3>1, <3>2 DEF Row
  <2> QED
    BY <2>1, <2>2
<1>4. CASE op = "redrive"
  <2> DEFINE w == Requeued(row)
  <2>1. Written(op, arg, row) = [w EXCEPT !.attempt = 0] /\ Outcome(op, arg, row) = "pending"
    BY <1>4 DEF Written, RedrivenRow, Outcome
  <2>2. /\ w \in Row /\ w.status = "pending" /\ w.thread = row.thread /\ w.key = row.key
        /\ w.successor = row.successor /\ w.origin = row.origin
    BY RequeuedRow
  <2> HIDE DEF w
  <2> QED
    BY <2>1, <2>2 DEF Row
<1>5. CASE op = "close"
  <2>1. Written(op, arg, row) = [row EXCEPT !.closed = TRUE] /\ Outcome(op, arg, row) = row.status
    BY <1>5 DEF Written, ClosedRow, Outcome
  <2> QED
    BY <2>1 DEF Row
<1>6. CASE op = "heartbeat"
  <2>1. Written(op, arg, row) = [row EXCEPT !.lapsed = FALSE] /\ Outcome(op, arg, row) = row.status
    BY <1>6 DEF Written, RenewedRow, Outcome
  <2> QED
    BY <2>1 DEF Row
<1>7. CASE op \in {"consume", "append", "steer"}
  <2>1. Written(op, arg, row) = row /\ Outcome(op, arg, row) = row.status
    BY <1>7 DEF Written, Outcome
  <2> QED
    BY <2>1
<1> QED
  BY <1>1, <1>2, <1>3, <1>4, <1>5, <1>6, <1>7 DEF OneRow, Fenced

\* What the sweeps write into a row whose lease has ended.
LEMMA RecoveredRow ==
  ASSUME NEW row \in Row
  PROVE  /\ Recovered(row) \in Row
         /\ Recovered(row).status = IF row.status = "cancelling" THEN "cancelled" ELSE "pending"
         /\ SamePlace(Recovered(row), row)
<1>1. CASE row.status = "cancelling"
  <2>1. "cancelled" \in Statuses
    BY DEF Statuses, TERMINAL
  <2>2. Recovered(row) = Released(row, "cancelled")
    BY <1>1 DEF Recovered
  <2>3. /\ Released(row, "cancelled") \in Row /\ Released(row, "cancelled").status = "cancelled"
        /\ SamePlace(Released(row, "cancelled"), row)
    BY <2>1, ReleasedRow DEF SamePlace
  <2> QED
    BY <1>1, <2>2, <2>3
<1>2. CASE row.status # "cancelling"
  <2>1. Recovered(row) = Requeued(row)
    BY <1>2 DEF Recovered
  <2>2. /\ Requeued(row) \in Row /\ Requeued(row).status = "pending"
        /\ SamePlace(Requeued(row), row)
    BY RequeuedRow DEF SamePlace
  <2> QED
    BY <1>2, <2>1, <2>2
<1> QED
  BY <1>1, <1>2

LEMMA ClaimedRow ==
  ASSUME NEW row \in Row, NEW s \in Sessions
  PROVE  /\ Claimed(row, s) \in Row
         /\ Claimed(row, s).status = "running"
         /\ SamePlace(Claimed(row, s), row)
         /\ Claimed(row, s).attempt \in Nat
<1>1. "running" \in Statuses
  BY DEF Statuses, ACTIVE
<1> DEFINE n == row.attempt + 1
<1>2. n \in Nat
  BY DEF Row
<1>3. Claimed(row, s) = [row EXCEPT !.status = "running", !.owner = s, !.lapsed = FALSE, !.attempt = n]
  BY DEF Claimed
<1> HIDE DEF n
<1> QED
  BY <1>1, <1>2, <1>3 DEF Row, SamePlace

\* What a claim sees in a row: the row, or what its sweep will make of it.
LEMMA SeenRow ==
  ASSUME NEW t, NEW r \in Ids, runs \in [Ids -> Row]
  PROVE  /\ Seen(t, r) \in Row
         /\ SamePlace(Seen(t, r), runs[r])
         /\ r \notin t.hit => Seen(t, r) = runs[r]
         /\ r \in t.hit => Seen(t, r).status = IF runs[r].status = "cancelling" THEN "cancelled" ELSE "pending"
         /\ Active(Seen(t, r)) => r \notin t.hit /\ Active(runs[r])
<1>1. runs[r] \in Row
  OBVIOUS
<1>2. CASE r \in t.hit
  <2>1. Seen(t, r) = Recovered(runs[r])
    BY <1>2 DEF Seen
  <2>2. /\ Seen(t, r) \in Row
        /\ Seen(t, r).status = IF runs[r].status = "cancelling" THEN "cancelled" ELSE "pending"
        /\ SamePlace(Seen(t, r), runs[r])
    BY <1>1, <2>1, RecoveredRow
  <2>3. ~Active(Seen(t, r))
    BY <2>2 DEF Active, ACTIVE
  <2> QED
    BY <1>2, <2>2, <2>3
<1>3. CASE r \notin t.hit
  BY <1>1, <1>3 DEF Seen, SamePlace
<1> QED
  BY <1>2, <1>3

-----------------------------------------------------------------------------
(* What the others do to a transaction                                      *)

LEMMA AgreeFacts ==
  ASSUME NEW a, NEW b, Agree(a, b)
  PROVE  /\ Active(a) <=> Active(b)
         /\ CancelRefused(a) <=> CancelRefused(b)
         /\ Resumable(a) <=> Resumable(b)
         /\ \A op, arg : Outcome(op, arg, a) = Outcome(op, arg, b)
BY DEF Agree, Active, CancelRefused, Resumable, Outcome

\* A transaction that does not move keeps what it relies on, while the rows it
\* has locked stay as they are, rows stay where they are, nobody takes its key
\* and nobody starts a run in its thread.
LEMMA TxKept ==
  ASSUME RowsFit, RowsFit', NEW o \in Sessions, TxFits(tx[o]), tx'[o] = tx[o],
         \A r \in tx[o].locks : Agree(runs'[r], runs[r]),
         \A r \in Existing : /\ r \in Existing' /\ runs'[r].thread = runs[r].thread
                             /\ runs'[r].key = runs[r].key,
         KeyHeld(tx[o]) => \A r \in Existing' \ Existing : runs'[r].key # tx[o].arg.key,
         Enters(tx[o]) => \A q \in Rivals(tx[o])' : Active(runs'[q]) => Active(runs[q])
  PROVE  TxFits(tx[o])'
<1> DEFINE t == tx[o]
<1>0. t' = t
  OBVIOUS
<1>1. /\ t = [op |-> t.op, phase |-> t.phase, run |-> t.run, arg |-> t.arg,
              locks |-> t.locks, todo |-> t.todo, hit |-> t.hit, put |-> t.put]
      /\ t.op \in {"none", "create", "resume", "claim"} \cup OneRow
      /\ t.op = "none" \/ t.phase = "idle" => t = NoTx
      /\ t.locks \subseteq Existing /\ t.todo \subseteq Existing /\ t.hit \subseteq t.locks
      /\ t.phase = "lock" => t.locks = {}
      /\ OneFits(t) /\ CreateFits(t) /\ ResumeFits(t) /\ ClaimFits(t)
  BY DEF TxFits
<1>2. t.locks \subseteq Existing' /\ t.todo \subseteq Existing'
  BY <1>1
<1>3. runs \in [Ids -> Row] /\ runs' \in [Ids -> Row]
  BY DEF RowsFit
<1>4. OneFits(tx[o])'
  <2> SUFFICES ASSUME t.op \in OneRow
               PROVE  /\ t.phase \in {"lock", "commit"} /\ t.run \in Existing'
                      /\ t.op = "finish" => t.arg \in {"paused", "dead_letter"}
                      /\ t.op = "finalize" => t.arg \in {"succeeded", "failed", "timed_out"}
                      /\ t.op = "steer" => t.arg \in Keys
                      /\ t.phase = "commit" =>
                          /\ t.run \in t.locks
                          /\ t.op \in Fenced => Active(runs'[t.run])
                          /\ t.op = "redrive" => runs'[t.run].status \in {"failed", "dead_letter"}
                          /\ t.put \in Row /\ Agree(t.put, Written(t.op, t.arg, runs'[t.run]))
    BY <1>0 DEF OneFits
  <2>1. /\ t.phase \in {"lock", "commit"} /\ t.run \in Existing /\ t.run \in Existing'
        /\ t.op = "finish" => t.arg \in {"paused", "dead_letter"}
        /\ t.op = "finalize" => t.arg \in {"succeeded", "failed", "timed_out"}
        /\ t.op = "steer" => t.arg \in Keys
    BY <1>1 DEF OneFits
  <2>2. ASSUME t.phase = "commit"
        PROVE  /\ t.run \in t.locks
               /\ t.op \in Fenced => Active(runs'[t.run])
               /\ t.op = "redrive" => runs'[t.run].status \in {"failed", "dead_letter"}
               /\ t.put \in Row /\ Agree(t.put, Written(t.op, t.arg, runs'[t.run]))
    <3>1. /\ t.run \in t.locks
          /\ t.op \in Fenced => Active(runs[t.run])
          /\ t.op = "redrive" => runs[t.run].status \in {"failed", "dead_letter"}
          /\ t.put \in Row /\ Agree(t.put, Written(t.op, t.arg, runs[t.run]))
      BY <1>1, <2>2 DEF OneFits
    <3>2. Agree(runs'[t.run], runs[t.run])
      BY <3>1
    <3>3. runs'[t.run].status = runs[t.run].status
      BY <3>2 DEF Agree
    <3>4. t.op \in Fenced => Active(runs'[t.run])
      BY <3>1, <3>2, AgreeFacts
    <3>5. ArgFits(t.op, t.arg)
      BY <2>1 DEF ArgFits
    <3>6. t.run \in Ids /\ runs[t.run] \in Row /\ runs'[t.run] \in Row
      BY <1>3, <2>1 DEF Existing
    <3>7. Agree(Written(t.op, t.arg, runs[t.run]), Written(t.op, t.arg, runs'[t.run]))
      <4> DEFINE a == runs[t.run]
                 b == runs'[t.run]
      <4>1. /\ Written(t.op, t.arg, a).status = Outcome(t.op, t.arg, a)
            /\ SamePlace(Written(t.op, t.arg, a), a)
        BY <3>5, <3>6, WrittenRow
      <4>2. /\ Written(t.op, t.arg, b).status = Outcome(t.op, t.arg, b)
            /\ SamePlace(Written(t.op, t.arg, b), b)
        BY <3>5, <3>6, WrittenRow
      <4>3. Outcome(t.op, t.arg, b) = Outcome(t.op, t.arg, a) /\ Agree(b, a)
        BY <3>2, AgreeFacts
      <4> HIDE DEF a, b, t
      <4>4. Agree(Written(t.op, t.arg, a), Written(t.op, t.arg, b))
        BY <4>1, <4>2, <4>3 DEF Agree, SamePlace
      <4> QED
        BY <4>4 DEF a, b
    <3>8. Agree(t.put, Written(t.op, t.arg, runs'[t.run]))
      BY <3>1, <3>7 DEF Agree
    <3> QED
      BY <3>1, <3>3, <3>4, <3>8
  <2> QED
    BY <2>1, <2>2
<1>5. CreateFits(tx[o])'
  <2> SUFFICES ASSUME t.op = "create"
               PROVE  /\ t.phase \in {"key", "look", "count", "find", "thread"}
                      /\ t.arg.thread \in Threads /\ t.arg.key \in Keys
                      /\ t.phase \in {"count", "find", "thread"} /\ t.arg.key # NoKey
                           => \A r \in Existing' : runs'[r].key # t.arg.key
    BY <1>0 DEF CreateFits
  <2>1. /\ t.phase \in {"key", "look", "count", "find", "thread"}
        /\ t.arg.thread \in Threads /\ t.arg.key \in Keys
        /\ t.phase \in {"count", "find", "thread"} /\ t.arg.key # NoKey
              => \A r \in Existing : runs[r].key # t.arg.key
    BY <1>1 DEF CreateFits
  <2>2. ASSUME t.phase \in {"count", "find", "thread"}, t.arg.key # NoKey, NEW r \in Existing'
        PROVE  runs'[r].key # t.arg.key
    <3>1. KeyHeld(tx[o])
      BY <2>2 DEF KeyHeld
    <3> QED
      BY <2>1, <2>2, <3>1
  <2> QED
    BY <2>1, <2>2
<1>6. ResumeFits(tx[o])'
  <2> SUFFICES ASSUME t.op = "resume"
               PROVE  /\ t.phase \in {"lock", "count", "find", "thread"} /\ t.run \in Existing'
                      /\ t.arg.thread = runs'[t.run].thread /\ t.arg.key = NoKey
                      /\ t.phase # "lock" => t.run \in t.locks /\ Resumable(runs'[t.run])
    BY <1>0 DEF ResumeFits
  <2>1. /\ t.phase \in {"lock", "count", "find", "thread"} /\ t.run \in Existing
        /\ t.arg.thread = runs[t.run].thread /\ t.arg.key = NoKey
        /\ t.phase # "lock" => t.run \in t.locks /\ Resumable(runs[t.run])
    BY <1>1 DEF ResumeFits
  <2>2. t.phase # "lock" => Resumable(runs'[t.run])
    BY <2>1, AgreeFacts
  <2> QED
    BY <2>1, <2>2
<1>7. ClaimFits(tx[o])'
  <2> SUFFICES ASSUME t.op = "claim"
               PROVE  /\ t.phase \in {"sweep", "settle", "mark", "commit"} /\ t.run \in {0} \cup Ids
                      /\ \A r \in t.hit : Active(runs'[r])
                      /\ t.phase \in {"sweep", "settle"} => t.run = 0
                      /\ t.phase = "mark" => t.run # 0
                      /\ t.run # 0 => t.run \in t.locks /\ Seen(t, t.run)'.status = "pending"
                      /\ t.phase = "commit" /\ t.run # 0 => \A q \in Rivals(t)' : ~Active(Seen(t, q)')
    BY <1>0 DEF ClaimFits
  <2>1. /\ t.phase \in {"sweep", "settle", "mark", "commit"} /\ t.run \in {0} \cup Ids
        /\ \A r \in t.hit : Active(runs[r])
        /\ t.phase \in {"sweep", "settle"} => t.run = 0
        /\ t.phase = "mark" => t.run # 0
        /\ t.run # 0 => t.run \in t.locks /\ Seen(t, t.run).status = "pending"
        /\ t.phase = "commit" /\ t.run # 0 => \A q \in Rivals(t) : ~Active(Seen(t, q))
    BY <1>1 DEF ClaimFits
  <2>2. \A r \in t.hit : Active(runs'[r])
    BY <1>1, <2>1, AgreeFacts
  <2>3. ASSUME t.run # 0 PROVE Seen(t, t.run)'.status = "pending"
    <3>1. /\ t.run \in t.locks /\ t.run \in Ids /\ Seen(t, t.run).status = "pending"
          /\ runs'[t.run].status = runs[t.run].status
      BY <2>1, <2>3 DEF Agree
    <3>2. /\ t.run \notin t.hit => Seen(t, t.run) = runs[t.run]
          /\ t.run \in t.hit
                => Seen(t, t.run).status = IF runs[t.run].status = "cancelling" THEN "cancelled" ELSE "pending"
      BY <1>3, <3>1, SeenRow
    <3>3. CASE t.run \in t.hit
      <4>1. Seen(t, t.run)' = Recovered(runs'[t.run])
        BY <1>0, <3>3 DEF Seen
      <4>2. Recovered(runs'[t.run]).status = IF runs'[t.run].status = "cancelling" THEN "cancelled" ELSE "pending"
        BY <1>3, <3>1, RecoveredRow
      <4> QED
        BY <3>1, <3>2, <3>3, <4>1, <4>2
    <3>4. CASE t.run \notin t.hit
      <4>1. Seen(t, t.run)' = runs'[t.run]
        BY <1>0, <3>4 DEF Seen
      <4> QED
        BY <3>1, <3>2, <3>4, <4>1
    <3> QED
      BY <3>3, <3>4
  <2>4. ASSUME t.phase = "commit", t.run # 0, NEW q \in Rivals(t)' PROVE ~Active(Seen(t, q)')
    <3>1. t.run \in t.locks /\ t.run \in Ids /\ Enters(t) /\ t.run \in Existing
      BY <1>1, <2>1, <2>4 DEF Enters
    <3>2. q \in Ids \ {t.run} /\ runs'[q].thread = runs'[t.run].thread /\ runs'[q].thread # NoThread
      BY <1>0, <2>4 DEF Rivals
    <3>3. CASE q \in Existing
      <4>1. q \in Rivals(t)
        BY <3>1, <3>2, <3>3 DEF Rivals
      <4>2. ~Active(Seen(t, q)) /\ (Active(runs'[q]) => Active(runs[q]))
        BY <1>0, <2>1, <2>4, <3>1, <4>1
      <4>3. CASE q \in t.hit
        <5>1. Seen(t, q)' = Recovered(runs'[q])
          BY <1>0, <4>3 DEF Seen
        <5>2. Recovered(runs'[q]).status \in {"cancelled", "pending"}
          BY <1>3, <3>2, RecoveredRow
        <5> QED
          BY <5>1, <5>2 DEF Active, ACTIVE
      <4>4. CASE q \notin t.hit
        <5>1. Seen(t, q)' = runs'[q] /\ Seen(t, q) = runs[q]
          BY <1>0, <4>4 DEF Seen
        <5> QED
          BY <4>2, <5>1
      <4> QED
        BY <4>3, <4>4
    <3>4. CASE q \notin Existing
      <4>1. q \in Ids \ Existing
        BY <3>2, <3>4
      <4>2. runs[q] = NoRow
        BY <4>1 DEF RowsFit
      <4>3. ~Active(runs[q])
        BY <4>2 DEF NoRow, Active, ACTIVE
      <4>4. ~Active(runs'[q])
        BY <1>0, <2>4, <3>1, <4>3
      <4>5. q \notin t.hit
        BY <1>1, <3>4
      <4> QED
        BY <1>0, <4>4, <4>5 DEF Seen
    <3> QED
      BY <3>3, <3>4
  <2> QED
    BY <2>1, <2>2, <2>3, <2>4
<1> QED
  BY <1>0, <1>1, <1>2, <1>4, <1>5, <1>6, <1>7 DEF TxFits

LEMMA NoTxFits ==
  ASSUME NEW s \in Sessions, tx[s] = NoTx
  PROVE  TxFits(tx[s]) /\ tx[s].locks = {} /\ ~KeyHeld(tx[s]) /\ ~Enters(tx[s])
BY DEF TxFits, NoTx, OneFits, CreateFits, ResumeFits, ClaimFits, KeyHeld, Enters, OneRow, Fenced

\* A transaction that locks free rows, takes a free key and enters the index
\* for a thread without rivals: the others need not look.
LEMMA TxsStep ==
  ASSUME RowsFit, TxsFit, NEW s \in Sessions, UNCHANGED <<setup, runs, inbox, asked>>,
         tx' = [tx EXCEPT ![s] = tx'[s]], TxFits(tx[s])',
         \A r \in tx'[s].locks \ tx[s].locks : Free(s, r),
         KeyHeld(tx'[s]) => \/ KeyFree(s, tx'[s].arg.key)
                            \/ KeyHeld(tx[s]) /\ tx'[s].arg.key = tx[s].arg.key,
         Enters(tx'[s]) => \A q \in Rivals(tx'[s]) : ~Entering(s, q)
  PROVE  TxsFit'
<1>1. /\ DOMAIN tx = Sessions /\ DOMAIN tx' = Sessions
      /\ \A o \in Sessions \ {s} : tx'[o] = tx[o]
  BY DEF TxsFit
<1>2. Existing' = Existing /\ RowsFit'
  BY DEF Existing, RowsFit
<1>3. ASSUME NEW o \in Sessions PROVE TxFits(tx[o])'
  <2>1. CASE o = s
    BY <2>1
  <2>2. CASE o # s
    <3>1. TxFits(tx[o]) /\ tx'[o] = tx[o]
      BY <1>1, <2>2 DEF TxsFit
    <3>2. \A r \in tx[o].locks : Agree(runs'[r], runs[r])
      BY DEF Agree
    <3> QED
      BY <1>2, <3>1, <3>2, TxKept
  <2> QED
    BY <2>1, <2>2
<1>4. ASSUME NEW o \in Sessions \ {s}
      PROVE  /\ LocksExclude(tx[s], tx[o])' /\ KeysExclude(tx[s], tx[o])' /\ EntriesExclude(tx[s], tx[o])'
             /\ LocksExclude(tx[o], tx[s])' /\ KeysExclude(tx[o], tx[s])' /\ EntriesExclude(tx[o], tx[s])'
  <2>1. /\ LocksExclude(tx[s], tx[o]) /\ KeysExclude(tx[s], tx[o])
        /\ tx'[o] = tx[o] /\ TxFits(tx[o])
    BY <1>1, <1>4 DEF TxsFit
  <2>2. tx'[s].locks \cap tx'[o].locks = {}
    BY <2>1 DEF LocksExclude, Free
  <2>3. KeyHeld(tx'[s]) /\ KeyHeld(tx'[o]) => tx'[s].arg.key # tx'[o].arg.key
    <3>1. ASSUME KeyHeld(tx'[s]), KeyHeld(tx'[o]) PROVE tx'[s].arg.key # tx'[o].arg.key
      <4>1. /\ KeyHeld(tx[o]) /\ tx[o].op = "create" /\ tx[o].phase \notin {"key", "idle"}
        BY <2>1, <3>1 DEF KeyHeld, TxFits, CreateFits
      <4>2. CASE KeyFree(s, tx'[s].arg.key)
        BY <2>1, <4>1, <4>2 DEF KeyFree
      <4>3. CASE KeyHeld(tx[s]) /\ tx'[s].arg.key = tx[s].arg.key
        BY <2>1, <4>1, <4>3 DEF KeysExclude
      <4> QED
        BY <3>1, <4>2, <4>3
    <3> QED
      BY <3>1
  <2>4. ASSUME Enters(tx'[s]), Enters(tx'[o])
        PROVE  \/ runs[tx'[s].run].thread = NoThread
               \/ runs[tx'[s].run].thread # runs[tx'[o].run].thread
    <3>1. Enters(tx[o]) /\ tx[o].op = "claim" /\ tx[o].phase = "commit" /\ tx[o].run # 0
      BY <2>1, <2>4 DEF Enters
    <3>2. tx[o].run \in tx[o].locks /\ tx[o].run \in Ids
      BY <2>1, <3>1 DEF TxFits, ClaimFits
    <3>3. tx'[s].op = "claim" /\ tx'[s].phase = "commit" /\ tx'[s].run # 0
      BY <2>4 DEF Enters
    <3>4. tx'[s].run \in tx'[s].locks
      BY <3>3 DEF TxFits, ClaimFits
    <3>5. tx'[s].run # tx[o].run
      BY <2>1, <2>2, <3>2, <3>4
    <3>6. tx[o].run \notin Rivals(tx'[s])
      <4>1. Entering(s, tx[o].run)
        BY <3>1 DEF Entering
      <4> QED
        BY <2>4, <4>1
    <3> QED
      BY <2>1, <3>2, <3>5, <3>6 DEF Rivals
  <2>5. LocksExclude(tx[s], tx[o])' /\ LocksExclude(tx[o], tx[s])'
    BY <2>2 DEF LocksExclude
  <2>6. KeysExclude(tx[s], tx[o])' /\ KeysExclude(tx[o], tx[s])'
    BY <2>3 DEF KeysExclude, KeyHeld
  <2>7. EntriesExclude(tx[s], tx[o])' /\ EntriesExclude(tx[o], tx[s])'
    BY <2>4 DEF EntriesExclude, Enters
  <2> QED
    BY <2>5, <2>6, <2>7
<1>5. ASSUME NEW p \in Sessions, NEW o \in Sessions \ {p}
      PROVE  LocksExclude(tx[p], tx[o])' /\ KeysExclude(tx[p], tx[o])' /\ EntriesExclude(tx[p], tx[o])'
  <2>1. CASE p = s
    BY <1>4, <1>5, <2>1
  <2>2. CASE o = s
    BY <1>4, <1>5, <2>2
  <2>3. CASE p # s /\ o # s
    <3>1. tx'[p] = tx[p] /\ tx'[o] = tx[o]
      BY <1>1, <1>5, <2>3
    <3>2. LocksExclude(tx[p], tx[o]) /\ KeysExclude(tx[p], tx[o]) /\ EntriesExclude(tx[p], tx[o])
      BY <1>5 DEF TxsFit
    <3> QED
      BY <3>1, <3>2 DEF LocksExclude, KeysExclude, EntriesExclude, KeyHeld, Enters
  <2> QED
    BY <2>1, <2>2, <2>3
<1> QED
  BY <1>1, <1>3, <1>5 DEF TxsFit

\* What a transaction that writes must leave alone, for the others' sake.
Considerate(s) ==
  /\ \A o \in Sessions \ {s} : \A r \in tx[o].locks : Agree(runs'[r], runs[r])
  /\ \A r \in Existing : /\ r \in Existing' /\ runs'[r].thread = runs[r].thread
                         /\ runs'[r].key = runs[r].key
  /\ \A r \in Existing' \ Existing :
        runs'[r].key = NoKey \/ (KeyHeld(tx[s]) /\ runs'[r].key = tx[s].arg.key)
  /\ \A r \in Ids : Active(runs'[r]) => Active(runs[r]) \/ (Enters(tx[s]) /\ r = tx[s].run)

LEMMA TxsWrite ==
  ASSUME RowsFit, RowsFit', TxsFit, NEW s \in Sessions,
         tx' = [tx EXCEPT ![s] = NoTx], Considerate(s)
  PROVE  TxsFit'
<1>1. /\ DOMAIN tx = Sessions /\ DOMAIN tx' = Sessions /\ tx'[s] = NoTx
      /\ \A o \in Sessions \ {s} : tx'[o] = tx[o]
  BY DEF TxsFit
<1>2. /\ TxFits(tx[s])' /\ tx'[s].locks = {} /\ ~KeyHeld(tx[s])' /\ ~Enters(tx[s])'
  BY <1>1 DEF TxFits, NoTx, OneFits, CreateFits, ResumeFits, ClaimFits, KeyHeld, Enters, OneRow, Fenced
<1>3. ASSUME NEW o \in Sessions \ {s} PROVE TxFits(tx[o])'
  <2>1. TxFits(tx[o]) /\ tx'[o] = tx[o] /\ KeysExclude(tx[s], tx[o]) /\ EntriesExclude(tx[s], tx[o])
        /\ LocksExclude(tx[s], tx[o])
    BY <1>1 DEF TxsFit
  <2>2. \A r \in tx[o].locks : Agree(runs'[r], runs[r])
    BY DEF Considerate
  <2>3. \A r \in Existing : /\ r \in Existing' /\ runs'[r].thread = runs[r].thread
                            /\ runs'[r].key = runs[r].key
    BY DEF Considerate
  <2>4. ASSUME KeyHeld(tx[o]), NEW r \in Existing' \ Existing PROVE runs'[r].key # tx[o].arg.key
    <3>1. runs'[r].key = NoKey \/ (KeyHeld(tx[s]) /\ runs'[r].key = tx[s].arg.key)
      BY <2>4 DEF Considerate
    <3> QED
      BY <2>1, <2>4, <3>1 DEF KeysExclude, KeyHeld
  <2>5. ASSUME Enters(tx[o]), NEW q \in Rivals(tx[o])', Active(runs'[q]) PROVE Active(runs[q])
    <3>1. q \in Ids /\ runs'[q].thread = runs'[tx[o].run].thread /\ runs'[q].thread # NoThread
      BY <2>1, <2>5 DEF Rivals
    <3>2. tx[o].run \in Existing
      BY <2>1, <2>5 DEF TxFits, ClaimFits, Enters
    <3>3. ASSUME Enters(tx[s]), q = tx[s].run PROVE FALSE
      <4>1. tx[s].run \in Existing
        BY <3>3 DEF TxsFit, TxFits, ClaimFits, Enters
      <4>2. runs[q].thread = runs'[q].thread /\ runs[tx[o].run].thread = runs'[tx[o].run].thread
        BY <2>3, <3>2, <3>3, <4>1
      <4> QED
        BY <2>1, <2>5, <3>1, <3>3, <4>2 DEF EntriesExclude
    <3> QED
      BY <2>5, <3>1, <3>3 DEF Considerate
  <2> QED
    BY <2>1, <2>2, <2>3, <2>4, <2>5, TxKept
<1>4. ASSUME NEW p \in Sessions, NEW o \in Sessions \ {p}
      PROVE  LocksExclude(tx[p], tx[o])' /\ KeysExclude(tx[p], tx[o])' /\ EntriesExclude(tx[p], tx[o])'
  <2>1. CASE p = s \/ o = s
    BY <1>2, <2>1 DEF LocksExclude, KeysExclude, EntriesExclude
  <2>2. CASE p # s /\ o # s
    <3>1. tx'[p] = tx[p] /\ tx'[o] = tx[o]
      BY <1>1, <1>4, <2>2
    <3>2. LocksExclude(tx[p], tx[o]) /\ KeysExclude(tx[p], tx[o]) /\ EntriesExclude(tx[p], tx[o])
      BY <1>4 DEF TxsFit
    <3>3. ASSUME Enters(tx[p]), Enters(tx[o])
          PROVE  /\ runs'[tx[p].run].thread = runs[tx[p].run].thread
                 /\ runs'[tx[o].run].thread = runs[tx[o].run].thread
      <4>1. tx[p].run \in Existing /\ tx[o].run \in Existing
        BY <1>4, <3>3 DEF TxsFit, TxFits, ClaimFits, Enters
      <4> QED
        BY <4>1 DEF Considerate
    <3> QED
      BY <3>1, <3>2, <3>3 DEF LocksExclude, KeysExclude, EntriesExclude, KeyHeld, Enters
  <2> QED
    BY <2>1, <2>2
<1>5. \A o \in Sessions : TxFits(tx[o])'
  BY <1>2, <1>3
<1> QED
  BY <1>1, <1>4, <1>5 DEF TxsFit

-----------------------------------------------------------------------------
(* Steps of one session that write no row                                   *)

LEMMA CreatingIsFinite == IsFiniteSet(Creating) /\ IsFiniteSet(Existing)
<1>1. IsFiniteSet(Sessions) /\ Creating \subseteq Sessions
  BY PgAssumption DEF Creating
<1>2. IsFiniteSet(Ids) /\ Existing \subseteq Ids
  BY PgAssumption, FS_Interval DEF Ids, Existing
<1> QED
  BY <1>1, <1>2, FS_Subset

LEMMA RoomKept ==
  ASSUME RoomFits, setup \in Setups, UNCHANGED <<setup, runs>>, Creating' \subseteq Creating
  PROVE  RoomFits'
<1>1. Existing' = Existing
  BY DEF Existing
<1>2. IsFiniteSet(Creating) /\ IsFiniteSet(Existing)
  BY CreatingIsFinite
<1>3. IsFiniteSet(Creating') /\ Cardinality(Creating') <= Cardinality(Creating)
  BY <1>2, FS_Subset
<1>4. /\ Cardinality(Creating) \in Nat /\ Cardinality(Creating') \in Nat
      /\ Cardinality(Existing) \in Nat
  BY <1>2, <1>3, FS_CardinalityType
<1>5. setup.runs \in Nat
  BY PgAssumption
<1>6. Cardinality(Existing) + Cardinality(Creating) <= setup.runs
  BY DEF RoomFits
<1> DEFINE n == setup.runs
<1>7. Cardinality(Existing) + Cardinality(Creating') <= n
  <2> HIDE DEF n
  <2>1. n \in Nat /\ Cardinality(Existing) + Cardinality(Creating) <= n
    BY <1>5, <1>6 DEF n
  <2> QED
    BY <1>3, <1>4, <2>1
<1> QED
  BY <1>1, <1>7 DEF RoomFits

LEMMA RoomTaken ==
  ASSUME Roomy, setup \in Setups, UNCHANGED <<setup, runs>>, NEW s, Creating' \subseteq Creating \cup {s}
  PROVE  RoomFits'
<1>1. Existing' = Existing
  BY DEF Existing
<1>2. IsFiniteSet(Creating) /\ IsFiniteSet(Existing)
  BY CreatingIsFinite
<1>3. /\ IsFiniteSet(Creating \cup {s})
      /\ Cardinality(Creating \cup {s}) = Cardinality(Creating)
            \/ Cardinality(Creating \cup {s}) = Cardinality(Creating) + 1
  BY <1>2, FS_AddElement
<1>4. IsFiniteSet(Creating') /\ Cardinality(Creating') <= Cardinality(Creating \cup {s})
  BY <1>3, FS_Subset
<1>5. /\ Cardinality(Creating) \in Nat /\ Cardinality(Creating') \in Nat
      /\ Cardinality(Existing) \in Nat
  BY <1>2, <1>4, FS_CardinalityType
<1>6. setup.runs \in Nat
  BY PgAssumption
<1>7. Cardinality(Existing) + Cardinality(Creating) < setup.runs
  BY DEF Roomy, Creating
<1> DEFINE n == setup.runs
<1>8. Cardinality(Existing) + Cardinality(Creating') <= n
  <2> HIDE DEF n
  <2>1. n \in Nat /\ Cardinality(Existing) + Cardinality(Creating) < n
    BY <1>6, <1>7 DEF n
  <2>2. Cardinality(Creating') <= Cardinality(Creating) + 1
    BY <1>3, <1>4, <1>5
  <2> QED
    BY <1>5, <2>1, <2>2
<1> QED
  BY <1>1, <1>8 DEF RoomFits

\* A step of a session that changes its transaction and no row.
LEMMA OnlyStep ==
  ASSUME PgInv, NEW s \in Sessions, UNCHANGED <<setup, runs, inbox, asked>>,
         JobsFit', "create" \notin errors',
         tx' = [tx EXCEPT ![s] = tx'[s]], TxFits(tx[s])',
         \A r \in tx'[s].locks \ tx[s].locks : Free(s, r),
         KeyHeld(tx'[s]) => \/ KeyFree(s, tx'[s].arg.key)
                            \/ KeyHeld(tx[s]) /\ tx'[s].arg.key = tx[s].arg.key,
         Enters(tx'[s]) => \A q \in Rivals(tx'[s]) : ~Entering(s, q),
         Roomy \/ (tx'[s].op \in {"create", "resume"} => tx[s].op \in {"create", "resume"})
  PROVE  PgInv'
<1>1. TxsFit'
  BY TxsStep DEF PgInv
<1>2. RowsFit'
  BY DEF PgInv, RowsFit, Existing
<1>3. InboxesFit'
  BY DEF PgInv, InboxesFit
<1>4. RoomFits'
  <2>1. \A o \in Sessions \ {s} : tx'[o] = tx[o]
    BY DEF PgInv, TxsFit
  <2>2. CASE Roomy
    <3>1. Creating' \subseteq Creating \cup {s}
      BY <2>1 DEF Creating
    <3> QED
      BY <2>2, <3>1, RoomTaken DEF PgInv, RowsFit
  <2>3. CASE tx'[s].op \in {"create", "resume"} => tx[s].op \in {"create", "resume"}
    <3>1. Creating' \subseteq Creating
      BY <2>1, <2>3 DEF Creating
    <3> QED
      BY <3>1, RoomKept DEF PgInv, RowsFit
  <2> QED
    BY <2>2, <2>3
<1>5. IsolationHolds'
  BY DEF PgInv, IsolationHolds, OneActivePerThread, KeysAreIdempotent, OneDescendant, SuccessorsMatch,
         LeftEmpty, OpenOnce, Existing, Pending
<1> QED
  BY <1>1, <1>2, <1>3, <1>4, <1>5 DEF PgInv

\* A transaction is rolled back, or ends without having written.
LEMMA GiveUp ==
  ASSUME PgInv, NEW s \in Sessions, UNCHANGED <<setup, runs, inbox, asked>>,
         JobsFit', "create" \notin errors', tx' = [tx EXCEPT ![s] = NoTx]
  PROVE  PgInv'
<1>1. tx'[s] = NoTx
  BY DEF PgInv, TxsFit
<1>2. /\ TxFits(tx[s])' /\ tx'[s].locks = {} /\ ~KeyHeld(tx'[s]) /\ ~Enters(tx'[s])
      /\ tx'[s].op \notin {"create", "resume"}
  BY <1>1 DEF TxFits, NoTx, OneFits, CreateFits, ResumeFits, ClaimFits, KeyHeld, Enters, OneRow, Fenced
<1>3. tx' = [tx EXCEPT ![s] = tx'[s]]
  BY <1>1
<1> QED
  BY <1>2, <1>3, OnlyStep

LEMMA OneRowBegins ==
  ASSUME PgInv, NEW s \in Sessions, NEW op \in OneRow, NEW r \in Ids, NEW arg, NEW attempt,
         ArgFits(op, arg), op = "steer" => arg \in Keys,
         BeginOne(s, op, r, arg, attempt), UNCHANGED <<setup, runs, inbox, asked, job, errors>>
  PROVE  PgInv'
<1>1. tx' = [tx EXCEPT ![s] = [NoTx EXCEPT !.op = op, !.phase = "lock", !.run = r, !.arg = arg]]
  BY DEF BeginOne
<1>2. tx'[s] = [op |-> op, phase |-> "lock", run |-> r, arg |-> arg,
                locks |-> {}, todo |-> {}, hit |-> {}, put |-> NoRow]
  BY <1>1 DEF PgInv, TxsFit, NoTx
<1>3. r \in Existing
  <2>1. Selects(s, op, runs[r], attempt)
    BY DEF BeginOne
  <2>2. runs[r].status # "absent"
    BY <2>1 DEF Selects, Owned, Active, ACTIVE, Fenced, OneRow
  <2> QED
    BY <2>2 DEF Existing
<1>4. TxFits(tx[s])'
  <2>1. op \notin {"none", "create", "resume", "claim"}
    BY DEF OneRow, Fenced
  <2>2. r \in Existing'
    BY <1>3 DEF Existing
  <2>3. OneFits(tx[s])'
    BY <1>2, <2>2 DEF OneFits, ArgFits
  <2>4. CreateFits(tx[s])' /\ ResumeFits(tx[s])' /\ ClaimFits(tx[s])'
    BY <1>2, <2>1 DEF CreateFits, ResumeFits, ClaimFits
  <2> QED
    BY <1>2, <2>1, <2>3, <2>4 DEF TxFits
<1>5. ~KeyHeld(tx'[s]) /\ ~Enters(tx'[s]) /\ tx'[s].op \notin {"create", "resume"} /\ tx'[s].locks = {}
  BY <1>2 DEF KeyHeld, Enters, OneRow, Fenced
<1>6. tx' = [tx EXCEPT ![s] = tx'[s]]
  BY <1>1, <1>2 DEF NoTx
<1>7. JobsFit' /\ "create" \notin errors'
  BY DEF PgInv, JobsFit, IsolationHolds, KeysAreIdempotent
<1> QED
  BY <1>4, <1>5, <1>6, <1>7, OnlyStep

LEMMA LockOneKeeps ==
  ASSUME PgInv, NEW s \in Sessions, LockOne(s)
  PROVE  PgInv'
<1> DEFINE t == tx[s]
           row == runs[t.run]
<1>1. /\ t.phase = "lock" /\ t.op \in OneRow /\ Free(s, t.run)
      /\ UNCHANGED <<setup, runs, inbox, asked, up, errors, spent>>
  BY DEF LockOne
<1>2. TxFits(t) /\ OneFits(t) /\ t.run \in Existing /\ t.run \in Ids /\ row \in Row
  BY <1>1 DEF PgInv, TxsFit, TxFits, OneFits, Existing, RowsFit
<1>3. "create" \notin errors'
  BY <1>1 DEF PgInv, IsolationHolds, KeysAreIdempotent
<1>4. CASE Selects(s, t.op, row, job[s].attempt)
  <2>1. /\ tx' = [tx EXCEPT ![s].phase = "commit", ![s].locks = {t.run},
                           ![s].put = Written(t.op, t.arg, row)]
        /\ job' = job
    BY <1>4 DEF LockOne
  <2> DEFINE w == Written(t.op, t.arg, row)
  <2>2. ArgFits(t.op, t.arg)
    BY <1>1, <1>2 DEF OneFits, ArgFits
  <2>3. w \in Row
    BY <1>1, <1>2, <2>2, WrittenRow
  <2>4. tx'[s] = [op |-> t.op, phase |-> "commit", run |-> t.run, arg |-> t.arg,
                  locks |-> {t.run}, todo |-> t.todo, hit |-> t.hit, put |-> w]
    <3> HIDE DEF w
    <3>1. tx'[s] = [t EXCEPT !.phase = "commit", !.locks = {t.run}, !.put = w]
      BY <2>1 DEF PgInv, TxsFit, w
    <3>2. t = [op |-> t.op, phase |-> t.phase, run |-> t.run, arg |-> t.arg,
               locks |-> t.locks, todo |-> t.todo, hit |-> t.hit, put |-> t.put]
      BY <1>2 DEF TxFits
    <3> HIDE DEF t
    <3> QED
      BY <3>1, <3>2
  <2>5. TxFits(tx[s])'
    <3> HIDE DEF w
    <3>1. t.run \in Existing' /\ runs' = runs
      BY <1>1, <1>2 DEF Existing
    <3>2. t.op \in Fenced => Active(row)
      BY <1>4 DEF Selects, Owned, Fenced
    <3>3. t.op = "redrive" => row.status \in {"failed", "dead_letter"}
      BY <1>4 DEF Selects, Fenced
    <3>4. Agree(w, Written(t.op, t.arg, row))
      BY DEF w, Agree
    <3>5. OneFits(tx[s])'
      <4>1. /\ t.op = "finish" => t.arg \in {"paused", "dead_letter"}
            /\ t.op = "finalize" => t.arg \in {"succeeded", "failed", "timed_out"}
            /\ t.op = "steer" => t.arg \in Keys
        BY <1>1, <1>2 DEF OneFits
      <4> QED
        BY <2>3, <2>4, <3>1, <3>2, <3>3, <3>4, <4>1 DEF OneFits
    <3>6. t.op \notin {"none", "create", "resume", "claim"}
      BY <1>1 DEF OneRow, Fenced
    <3>7. CreateFits(tx[s])' /\ ResumeFits(tx[s])' /\ ClaimFits(tx[s])'
      BY <2>4, <3>6 DEF CreateFits, ResumeFits, ClaimFits
    <3>8. {t.run} \subseteq Existing' /\ t.todo \subseteq Existing' /\ t.hit \subseteq {t.run}
      BY <1>1, <1>2, <3>1 DEF TxFits, Existing
    <3> QED
      BY <1>1, <2>4, <3>5, <3>6, <3>7, <3>8 DEF TxFits
  <2>6. /\ \A r \in tx'[s].locks \ tx[s].locks : Free(s, r)
        /\ ~KeyHeld(tx'[s]) /\ ~Enters(tx'[s]) /\ tx'[s].op \notin {"create", "resume"}
    BY <1>1, <2>4 DEF KeyHeld, Enters, OneRow, Fenced
  <2>7. tx' = [tx EXCEPT ![s] = tx'[s]]
    BY <2>1, <2>4 DEF PgInv, TxsFit
  <2>8. JobsFit'
    BY <2>1 DEF PgInv, JobsFit
  <2> QED
    BY <1>1, <1>3, <2>5, <2>6, <2>7, <2>8, OnlyStep
<1>5. CASE ~Selects(s, t.op, row, job[s].attempt)
  <2>1. /\ tx' = [tx EXCEPT ![s] = NoTx]
        /\ job' = IF t.op \in Fenced THEN [job EXCEPT ![s] = NoJob] ELSE job
    BY <1>5 DEF LockOne
  <2>2. JobsFit'
    BY <2>1 DEF PgInv, JobsFit, NoJob
  <2> QED
    BY <1>1, <1>3, <2>1, <2>2, GiveUp
<1> QED
  BY <1>4, <1>5

LEMMA OnlyFacts ==
  ASSUME PgInv, NEW s \in Sessions, NEW t, Only(s, t)
  PROVE  /\ tx' = [tx EXCEPT ![s] = t] /\ tx'[s] = t /\ tx' = [tx EXCEPT ![s] = tx'[s]]
         /\ UNCHANGED <<setup, runs, inbox, asked>> /\ JobsFit' /\ "create" \notin errors'
<1>1. tx' = [tx EXCEPT ![s] = t] /\ UNCHANGED <<setup, runs, inbox, asked, job, up, errors, spent>>
  BY DEF Only, Goes
<1>2. tx'[s] = t
  BY <1>1 DEF PgInv, TxsFit
<1>3. JobsFit' /\ "create" \notin errors'
  BY <1>1 DEF PgInv, JobsFit, IsolationHolds, KeysAreIdempotent
<1> QED
  BY <1>1, <1>2, <1>3

\* Which kind of transaction is in a phase.
LEMMA PhaseTells ==
  ASSUME NEW s \in Sessions, TxFits(tx[s])
  PROVE  /\ tx[s].phase \in {"key", "look"} => tx[s].op = "create"
         /\ tx[s].phase \in {"count", "find", "thread"} => tx[s].op \in {"create", "resume"}
         /\ tx[s].phase \in {"sweep", "settle", "mark"} => tx[s].op = "claim"
         /\ tx[s].phase = "commit" => tx[s].op \in {"claim"} \cup OneRow
<1>1. tx[s].op = "none" => tx[s].phase = "idle"
  BY DEF TxFits, NoTx
<1>2. tx[s].op \in OneRow => tx[s].phase \in {"lock", "commit"}
  BY DEF TxFits, OneFits
<1>3. tx[s].op = "create" => tx[s].phase \in {"key", "look", "count", "find", "thread"}
  BY DEF TxFits, CreateFits
<1>4. tx[s].op = "resume" => tx[s].phase \in {"lock", "count", "find", "thread"}
  BY DEF TxFits, ResumeFits
<1>5. tx[s].op = "claim" => tx[s].phase \in {"sweep", "settle", "mark", "commit"}
  BY DEF TxFits, ClaimFits
<1>6. tx[s].op \in {"none", "create", "resume", "claim"} \cup OneRow
  BY DEF TxFits
<1> QED
  BY <1>1, <1>2, <1>3, <1>4, <1>5, <1>6

\* A request that creates a run goes on: it may lock rows, and it has looked for
\* its key before it counts.
LEMMA RequestGoesOn ==
  ASSUME PgInv, NEW s \in Sessions, NEW u, Only(s, u),
         u = [op |-> tx[s].op, phase |-> u.phase, run |-> tx[s].run, arg |-> tx[s].arg,
              locks |-> u.locks, todo |-> u.todo, hit |-> u.hit, put |-> tx[s].put],
         u.phase \in {"count", "find", "thread"}, tx[s].phase \in {"look", "count", "find", "thread"},
         tx[s].phase = "look" => \A r \in Existing : runs[r].key # tx[s].arg.key,
         u.locks \subseteq Existing, u.todo \subseteq Existing, u.hit \subseteq u.locks,
         tx[s].locks \subseteq u.locks, \A r \in u.locks \ tx[s].locks : Free(s, r)
  PROVE  PgInv'
<1> DEFINE t == tx[s]
<1>1. /\ TxFits(t) /\ t.op \in {"create", "resume"} /\ (t.phase = "look" => t.op = "create")
      /\ OneFits(t) /\ CreateFits(t) /\ ResumeFits(t)
  BY PhaseTells DEF PgInv, TxsFit, TxFits
<1>2. /\ tx'[s] = u
      /\ u.op = t.op /\ u.run = t.run /\ u.arg = t.arg /\ u.put = t.put
      /\ tx' = [tx EXCEPT ![s] = tx'[s]]
      /\ UNCHANGED <<setup, runs, inbox, asked>> /\ JobsFit' /\ "create" \notin errors'
  BY OnlyFacts
<1>3. Existing' = Existing
  BY <1>2 DEF Existing
<1>4. CreateFits(tx[s])'
  <2>1. t.op = "create" => /\ t.arg.thread \in Threads /\ t.arg.key \in Keys
                           /\ t.phase \in {"count", "find", "thread"} /\ t.arg.key # NoKey
                                => \A r \in Existing : runs[r].key # t.arg.key
    BY <1>1 DEF CreateFits
  <2>2. t.op = "create" /\ t.arg.key # NoKey => \A r \in Existing : runs[r].key # t.arg.key
    BY <2>1
  <2> QED
    BY <1>2, <1>3, <2>1, <2>2 DEF CreateFits
<1>5. ResumeFits(tx[s])'
  <2>1. t.op = "resume" => /\ t.run \in Existing /\ t.arg.thread = runs[t.run].thread
                           /\ t.arg.key = NoKey /\ t.run \in u.locks /\ Resumable(runs[t.run])
    BY <1>1 DEF ResumeFits
  <2>2. Resumable(runs'[t.run]) = Resumable(runs[t.run])
    BY <1>2
  <2> QED
    BY <1>2, <1>3, <2>1, <2>2 DEF ResumeFits
<1>6. TxFits(tx[s])'
  <2>1. t.op \notin OneRow
    BY <1>1 DEF OneRow, Fenced
  <2>2. OneFits(tx[s])' /\ ClaimFits(tx[s])'
    BY <1>1, <1>2, <2>1 DEF OneFits, ClaimFits
  <2> QED
    BY <1>1, <1>2, <1>3, <1>4, <1>5, <2>2 DEF TxFits
<1>7. KeyHeld(tx'[s]) => KeyHeld(tx[s]) /\ tx'[s].arg.key = tx[s].arg.key
  BY <1>2 DEF KeyHeld
<1>8. ~Enters(tx'[s]) /\ (tx'[s].op \in {"create", "resume"} => tx[s].op \in {"create", "resume"})
  BY <1>1, <1>2 DEF Enters
<1>9. \A r \in tx'[s].locks \ tx[s].locks : Free(s, r)
  BY <1>2
<1> QED
  BY <1>2, <1>6, <1>7, <1>8, <1>9, OnlyStep

LEMMA TxShape ==
  ASSUME PgInv, NEW s \in Sessions
  PROVE  /\ TxFits(tx[s])
         /\ tx[s] = [op |-> tx[s].op, phase |-> tx[s].phase, run |-> tx[s].run, arg |-> tx[s].arg,
                     locks |-> tx[s].locks, todo |-> tx[s].todo, hit |-> tx[s].hit, put |-> tx[s].put]
         /\ tx[s].locks \subseteq Existing /\ tx[s].todo \subseteq Existing
         /\ tx[s].hit \subseteq tx[s].locks /\ Existing \subseteq Ids
BY DEF PgInv, TxsFit, TxFits, Existing

LEMMA TakeKeyKeeps ==
  ASSUME PgInv, NEW s \in Sessions, TakeKey(s)
  PROVE  PgInv'
<1> DEFINE t == tx[s]
<1>1. PICK u : /\ u = [t EXCEPT !.phase = "look"]
               /\ t.phase = "key" /\ KeyFree(s, t.arg.key) /\ Only(s, u)
  BY DEF TakeKey
<1>2. t.op = "create" /\ TxFits(t) /\ CreateFits(t)
  BY <1>1, TxShape, PhaseTells DEF TxFits
<1>3. u = [op |-> t.op, phase |-> "look", run |-> t.run, arg |-> t.arg,
           locks |-> t.locks, todo |-> t.todo, hit |-> t.hit, put |-> t.put]
  <2>1. t = [op |-> t.op, phase |-> t.phase, run |-> t.run, arg |-> t.arg,
             locks |-> t.locks, todo |-> t.todo, hit |-> t.hit, put |-> t.put]
    BY TxShape
  <2> HIDE DEF t
  <2> QED
    BY <1>1, <2>1
<1>4. /\ tx'[s] = u /\ tx' = [tx EXCEPT ![s] = tx'[s]]
      /\ UNCHANGED <<setup, runs, inbox, asked>> /\ JobsFit' /\ "create" \notin errors'
  BY <1>1, OnlyFacts
<1>5. Existing' = Existing
  BY <1>4 DEF Existing
<1>6. TxFits(tx[s])'
  <2>1. t.arg.thread \in Threads /\ t.arg.key \in Keys
    BY <1>2 DEF CreateFits
  <2>2. CreateFits(tx[s])' /\ OneFits(tx[s])' /\ ResumeFits(tx[s])' /\ ClaimFits(tx[s])'
    BY <1>2, <1>3, <1>4, <2>1 DEF CreateFits, OneFits, ResumeFits, ClaimFits, OneRow, Fenced
  <2> QED
    BY <1>2, <1>3, <1>4, <1>5, <2>2, TxShape DEF TxFits
<1>7. KeyHeld(tx'[s]) => KeyFree(s, tx'[s].arg.key)
  BY <1>1, <1>3, <1>4
<1>8. ~Enters(tx'[s]) /\ tx'[s].locks = tx[s].locks /\ tx[s].op \in {"create", "resume"}
  BY <1>2, <1>3, <1>4 DEF Enters
<1> QED
  BY <1>4, <1>6, <1>7, <1>8, OnlyStep

\* Only(s, NoTx): what is not found, not resumable, beyond the quota or busy.
LEMMA EndsUnwritten ==
  ASSUME PgInv, NEW s \in Sessions, Only(s, NoTx)
  PROVE  PgInv'
BY OnlyFacts, GiveUp

LEMMA LookKeeps ==
  ASSUME PgInv, NEW s \in Sessions, Look(s)
  PROVE  PgInv'
<1> DEFINE t == tx[s]
<1>1. PICK u : /\ u = [t EXCEPT !.phase = "count"]
               /\ t.phase = "look"
               /\ Only(s, IF \E r \in Existing : runs[r].key = t.arg.key THEN NoTx ELSE u)
  BY DEF Look
<1>2. CASE \E r \in Existing : runs[r].key = t.arg.key
  BY <1>1, <1>2, EndsUnwritten
<1>3. CASE ~ \E r \in Existing : runs[r].key = t.arg.key
  <2>1. u = [op |-> t.op, phase |-> "count", run |-> t.run, arg |-> t.arg,
             locks |-> t.locks, todo |-> t.todo, hit |-> t.hit, put |-> t.put]
    <3>1. t = [op |-> t.op, phase |-> t.phase, run |-> t.run, arg |-> t.arg,
               locks |-> t.locks, todo |-> t.todo, hit |-> t.hit, put |-> t.put]
      BY TxShape
    <3> HIDE DEF t
    <3> QED
      BY <1>1, <3>1
  <2>2. Only(s, u)
    BY <1>1, <1>3
  <2> QED
    BY <1>1, <1>3, <2>1, <2>2, TxShape, RequestGoesOn
<1> QED
  BY <1>2, <1>3

LEMMA CountKeeps ==
  ASSUME PgInv, NEW s \in Sessions, Count(s)
  PROVE  PgInv'
<1> DEFINE t == tx[s]
<1>1. PICK u : /\ u = [t EXCEPT !.phase = "find"]
               /\ t.phase = "count"
               /\ Only(s, IF WithinQuota THEN u ELSE NoTx)
  BY DEF Count
<1>2. CASE ~WithinQuota
  BY <1>1, <1>2, EndsUnwritten
<1>3. CASE WithinQuota
  <2>1. u = [op |-> t.op, phase |-> "find", run |-> t.run, arg |-> t.arg,
             locks |-> t.locks, todo |-> t.todo, hit |-> t.hit, put |-> t.put]
    <3>1. t = [op |-> t.op, phase |-> t.phase, run |-> t.run, arg |-> t.arg,
               locks |-> t.locks, todo |-> t.todo, hit |-> t.hit, put |-> t.put]
      BY TxShape
    <3> HIDE DEF t
    <3> QED
      BY <1>1, <3>1
  <2>2. Only(s, u)
    BY <1>1, <1>3
  <2> QED
    BY <1>1, <2>1, <2>2, TxShape, RequestGoesOn
<1> QED
  BY <1>2, <1>3

LEMMA FindKeeps ==
  ASSUME PgInv, NEW s \in Sessions, Find(s)
  PROVE  PgInv'
<1> DEFINE t == tx[s]
           found == ActiveOn(t.arg.thread)
<1>1. PICK u : u = [t EXCEPT !.phase = "thread", !.todo = found] /\ t.phase = "find" /\ Only(s, u)
  BY DEF Find
<1>2. found \subseteq Existing
  BY DEF ActiveOn, Active, ACTIVE, Existing
<1> HIDE DEF found
<1>3. u = [op |-> t.op, phase |-> "thread", run |-> t.run, arg |-> t.arg,
           locks |-> t.locks, todo |-> found, hit |-> t.hit, put |-> t.put]
  <2>1. t = [op |-> t.op, phase |-> t.phase, run |-> t.run, arg |-> t.arg,
             locks |-> t.locks, todo |-> t.todo, hit |-> t.hit, put |-> t.put]
    BY TxShape
  <2> HIDE DEF t
  <2> QED
    BY <1>1, <2>1
<1> QED
  BY <1>1, <1>2, <1>3, TxShape, RequestGoesOn

LEMMA LockThreadKeeps ==
  ASSUME PgInv, NEW s \in Sessions, LockThread(s)
  PROVE  PgInv'
<1> DEFINE t == tx[s]
           r == Least(t.todo)
           hit == IF Active(runs[r]) THEN t.hit \cup {r} ELSE t.hit
           locks == t.locks \cup {r}
           todo == t.todo \ {r}
<1>1. PICK u : /\ u = [t EXCEPT !.todo = todo, !.locks = locks, !.hit = hit]
               /\ t.phase = "thread" /\ t.todo # {} /\ Free(s, r) /\ Only(s, u)
  BY DEF LockThread
<1>2. r \in t.todo /\ r \in Existing
  <2>1. t.todo \in SUBSET Ids
    BY TxShape
  <2> QED
    BY <1>1, <2>1, TxShape, LeastIn
<1> HIDE DEF r
<1>3. /\ hit \subseteq locks /\ locks \subseteq Existing /\ todo \subseteq Existing
      /\ t.locks \subseteq locks /\ \A q \in locks \ t.locks : Free(s, q)
  BY <1>1, <1>2, TxShape
<1> HIDE DEF hit, locks, todo
<1>4. u = [op |-> t.op, phase |-> t.phase, run |-> t.run, arg |-> t.arg,
           locks |-> locks, todo |-> todo, hit |-> hit, put |-> t.put]
  <2>1. t = [op |-> t.op, phase |-> t.phase, run |-> t.run, arg |-> t.arg,
             locks |-> t.locks, todo |-> t.todo, hit |-> t.hit, put |-> t.put]
    BY TxShape
  <2> HIDE DEF t
  <2> QED
    BY <1>1, <2>1
<1> QED
  BY <1>1, <1>3, <1>4, RequestGoesOn

LEMMA LockPausedKeeps ==
  ASSUME PgInv, NEW s \in Sessions, LockPaused(s)
  PROVE  PgInv'
<1> DEFINE t == tx[s]
           locks == {t.run}
<1>1. PICK u : /\ u = [t EXCEPT !.phase = "count", !.locks = locks]
               /\ t.phase = "lock" /\ t.op = "resume" /\ Free(s, t.run)
               /\ Only(s, IF Resumable(runs[t.run]) THEN u ELSE NoTx)
  BY DEF LockPaused
<1>2. CASE ~Resumable(runs[t.run])
  BY <1>1, <1>2, EndsUnwritten
<1>3. CASE Resumable(runs[t.run])
  <2>1. Only(s, u)
    BY <1>1, <1>3
  <2> HIDE DEF locks
  <2>2. u = [op |-> t.op, phase |-> "count", run |-> t.run, arg |-> t.arg,
             locks |-> locks, todo |-> t.todo, hit |-> t.hit, put |-> t.put]
    <3>1. t = [op |-> t.op, phase |-> t.phase, run |-> t.run, arg |-> t.arg,
               locks |-> t.locks, todo |-> t.todo, hit |-> t.hit, put |-> t.put]
      BY TxShape
    <3> HIDE DEF t
    <3> QED
      BY <1>1, <3>1
  <2>3. /\ tx'[s] = u /\ tx' = [tx EXCEPT ![s] = tx'[s]]
        /\ UNCHANGED <<setup, runs, inbox, asked>> /\ JobsFit' /\ "create" \notin errors'
    BY <2>1, OnlyFacts
  <2>4. /\ t.run \in Existing /\ t.arg.thread = runs[t.run].thread /\ t.arg.key = NoKey
        /\ t.locks = {} /\ t.hit = {} /\ t.todo \subseteq Existing /\ locks \subseteq Existing
    BY <1>1, TxShape DEF TxFits, ResumeFits, locks
  <2>5. Existing' = Existing
    BY <2>3 DEF Existing
  <2>6. TxFits(tx[s])'
    <3>1. ResumeFits(tx[s])'
      <4>1. Resumable(runs'[t.run])
        BY <1>3, <2>3
      <4> QED
        BY <1>1, <2>2, <2>3, <2>4, <2>5, <4>1 DEF ResumeFits, locks
    <3>2. OneFits(tx[s])' /\ CreateFits(tx[s])' /\ ClaimFits(tx[s])'
      BY <1>1, <2>2, <2>3 DEF OneFits, CreateFits, ClaimFits, OneRow, Fenced
    <3> QED
      BY <1>1, <2>2, <2>3, <2>4, <2>5, <3>1, <3>2 DEF TxFits
  <2>7. /\ ~KeyHeld(tx'[s]) /\ ~Enters(tx'[s]) /\ tx[s].op \in {"create", "resume"}
        /\ \A r \in tx'[s].locks \ tx[s].locks : Free(s, r)
    BY <1>1, <2>2, <2>3 DEF KeyHeld, Enters, locks
  <2> QED
    BY <2>3, <2>6, <2>7, OnlyStep
<1> QED
  BY <1>2, <1>3

\* A claim goes on: it locks rows that are free.
LEMMA ClaimGoesOn ==
  ASSUME PgInv, NEW s \in Sessions, NEW u, Only(s, u),
         u = [op |-> "claim", phase |-> u.phase, run |-> u.run, arg |-> u.arg,
              locks |-> u.locks, todo |-> u.todo, hit |-> u.hit, put |-> u.put],
         u.locks \subseteq Existing, u.todo \subseteq Existing, u.hit \subseteq u.locks,
         u.phase \in {"sweep", "settle", "mark", "commit"}, u.run \in {0} \cup Ids,
         \A r \in u.hit : Active(runs[r]),
         u.phase \in {"sweep", "settle"} => u.run = 0,
         u.phase = "mark" => u.run # 0,
         u.run # 0 => u.run \in u.locks /\ Seen(u, u.run).status = "pending",
         u.phase = "commit" /\ u.run # 0
            => \A q \in Rivals(u) : ~Active(Seen(u, q)) /\ ~Entering(s, q),
         \A r \in u.locks \ tx[s].locks : Free(s, r)
  PROVE  PgInv'
<1>1. /\ tx'[s] = u /\ tx' = [tx EXCEPT ![s] = tx'[s]]
      /\ UNCHANGED <<setup, runs, inbox, asked>> /\ JobsFit' /\ "create" \notin errors'
  BY OnlyFacts
<1>2. Existing' = Existing /\ u.op = "claim"
  BY <1>1 DEF Existing
<1>3. ClaimFits(tx[s])'
  <2>1. \A r \in Ids : Seen(u, r)' = Seen(u, r)
    BY <1>1 DEF Seen
  <2>2. Rivals(u)' = Rivals(u)
    BY <1>1 DEF Rivals
  <2>3. ASSUME u.run # 0 PROVE Seen(u, u.run)'.status = "pending"
    BY <1>1, <2>1, <2>3
  <2>4. ASSUME u.phase = "commit", u.run # 0, NEW q \in Rivals(u)' PROVE ~Active(Seen(u, q)')
    <3>1. q \in Rivals(u) /\ q \in Ids
      BY <2>2, <2>4 DEF Rivals
    <3>2. Seen(u, q)' = Seen(u, q)
      BY <2>1, <3>1
    <3> QED
      BY <2>4, <3>1, <3>2
  <2>5. \A r \in u.hit : Active(runs'[r])
    BY <1>1
  <2> SUFFICES /\ u.phase \in {"sweep", "settle", "mark", "commit"} /\ u.run \in {0} \cup Ids
               /\ \A r \in u.hit : Active(runs'[r])
               /\ u.phase \in {"sweep", "settle"} => u.run = 0
               /\ u.phase = "mark" => u.run # 0
               /\ u.run # 0 => u.run \in u.locks /\ Seen(u, u.run)'.status = "pending"
               /\ u.phase = "commit" /\ u.run # 0 => \A q \in Rivals(u)' : ~Active(Seen(u, q)')
    BY <1>1 DEF ClaimFits
  <2> QED
    BY <1>1, <2>3, <2>4, <2>5
<1>4. OneFits(tx[s])' /\ CreateFits(tx[s])' /\ ResumeFits(tx[s])'
  BY <1>1, <1>2 DEF OneFits, CreateFits, ResumeFits, OneRow, Fenced
<1>5. TxFits(tx[s])'
  BY <1>1, <1>2, <1>3, <1>4 DEF TxFits
<1>6. ~KeyHeld(tx'[s]) /\ tx'[s].op \notin {"create", "resume"}
  BY <1>1, <1>2 DEF KeyHeld
<1>7. Enters(tx'[s]) => \A q \in Rivals(tx'[s]) : ~Entering(s, q)
  BY <1>1 DEF Enters
<1> QED
  BY <1>1, <1>5, <1>6, <1>7, OnlyStep

LEMMA BeginClaimKeeps ==
  ASSUME PgInv, NEW s \in Sessions, BeginClaim(s)
  PROVE  PgInv'
<1> DEFINE todo == {r \in Ids : runs[r].status = "running" /\ runs[r].lapsed}
<1>1. PICK u : /\ u = [NoTx EXCEPT !.op = "claim", !.phase = "sweep", !.todo = todo]
               /\ tx[s].phase = "idle" /\ Only(s, u)
  BY DEF BeginClaim
<1>2. todo \subseteq Existing
  BY DEF Existing
<1> HIDE DEF todo
<1>3. u = [op |-> "claim", phase |-> "sweep", run |-> 0, arg |-> "none",
           locks |-> {}, todo |-> todo, hit |-> {}, put |-> NoRow]
  BY <1>1 DEF NoTx
<1> QED
  BY <1>1, <1>2, <1>3, ClaimGoesOn

LEMMA ClaimFacts ==
  ASSUME PgInv, NEW s \in Sessions, tx[s].op = "claim"
  PROVE  /\ \A r \in tx[s].hit : Active(runs[r])
         /\ tx[s].phase \in {"sweep", "settle", "mark", "commit"} /\ tx[s].run \in {0} \cup Ids
         /\ tx[s].phase \in {"sweep", "settle"} => tx[s].run = 0
         /\ tx[s].phase = "mark" => tx[s].run # 0
         /\ tx[s].run # 0 => tx[s].run \in tx[s].locks /\ Seen(tx[s], tx[s].run).status = "pending"
         /\ tx[s].phase = "commit" /\ tx[s].run # 0
              => \A q \in Rivals(tx[s]) : ~Active(Seen(tx[s], q))
BY TxShape DEF TxFits, ClaimFits

LEMMA SweepOneKeeps ==
  ASSUME PgInv, NEW s \in Sessions, SweepOne(s)
  PROVE  PgInv'
<1> DEFINE t == tx[s]
<1>r. PICK r \in t.todo :
        Free(s, r) /\ Only(s, [t EXCEPT !.todo = @ \ {r}, !.locks = @ \cup {r},
          !.hit = IF /\ runs[r].status = (IF t.phase = "sweep" THEN "running" ELSE "cancelling")
                     /\ runs[r].lapsed
                  THEN @ \cup {r} ELSE @])
  BY DEF SweepOne
<1> DEFINE wanted == IF t.phase = "sweep" THEN "running" ELSE "cancelling"
           hit == IF runs[r].status = wanted /\ runs[r].lapsed THEN t.hit \cup {r} ELSE t.hit
           locks == t.locks \cup {r}
           todo == t.todo \ {r}
<1>1. PICK u : /\ u = [t EXCEPT !.todo = todo, !.locks = locks, !.hit = hit]
               /\ t.phase \in {"sweep", "settle"} /\ Free(s, r) /\ Only(s, u)
  BY <1>r DEF SweepOne
<1>2. t.op = "claim"
  BY <1>1, TxShape, PhaseTells
<1>3. /\ \A q \in t.hit : Active(runs[q])
      /\ t.run = 0
  BY <1>1, <1>2, ClaimFacts
<1>4. r \in t.todo /\ r \in Existing
  BY <1>r, TxShape
<1>5. /\ hit \subseteq locks /\ locks \subseteq Existing /\ todo \subseteq Existing
      /\ \A q \in locks \ t.locks : Free(s, q)
  BY <1>1, <1>4, TxShape
<1>6. \A q \in hit : Active(runs[q])
  BY <1>3 DEF Active, ACTIVE
<1> HIDE DEF hit, locks, todo, wanted
<1>7. u = [op |-> t.op, phase |-> t.phase, run |-> t.run, arg |-> t.arg,
           locks |-> locks, todo |-> todo, hit |-> hit, put |-> t.put]
  <2>1. t = [op |-> t.op, phase |-> t.phase, run |-> t.run, arg |-> t.arg,
             locks |-> t.locks, todo |-> t.todo, hit |-> t.hit, put |-> t.put]
    BY TxShape
  <2> HIDE DEF t
  <2> QED
    BY <1>1, <2>1
<1>8. /\ u.op = "claim" /\ u.phase \in {"sweep", "settle"} /\ u.run = 0
      /\ u.locks = locks /\ u.todo = todo /\ u.hit = hit
      /\ u = [op |-> "claim", phase |-> u.phase, run |-> u.run, arg |-> u.arg,
              locks |-> u.locks, todo |-> u.todo, hit |-> u.hit, put |-> u.put]
  BY <1>1, <1>2, <1>3, <1>7
<1> QED
  BY <1>1, <1>5, <1>6, <1>8, ClaimGoesOn

LEMMA SettleKeeps ==
  ASSUME PgInv, NEW s \in Sessions, Settle(s)
  PROVE  PgInv'
<1> DEFINE t == tx[s]
           todo == {r \in Ids \ t.hit : runs[r].status = "cancelling" /\ runs[r].lapsed}
<1>1. PICK u : u = [t EXCEPT !.phase = "settle", !.todo = todo] /\ t.phase = "sweep" /\ Only(s, u)
  BY DEF Settle
<1>2. t.op = "claim"
  BY <1>1, TxShape, PhaseTells
<1>3. (\A q \in t.hit : Active(runs[q])) /\ t.run = 0
  BY <1>1, <1>2, ClaimFacts
<1>4. todo \subseteq Existing /\ t.locks \subseteq Existing /\ t.hit \subseteq t.locks
  BY TxShape DEF Existing
<1> HIDE DEF todo
<1>5. u = [op |-> t.op, phase |-> "settle", run |-> t.run, arg |-> t.arg,
           locks |-> t.locks, todo |-> todo, hit |-> t.hit, put |-> t.put]
  <2>1. t = [op |-> t.op, phase |-> t.phase, run |-> t.run, arg |-> t.arg,
             locks |-> t.locks, todo |-> t.todo, hit |-> t.hit, put |-> t.put]
    BY TxShape
  <2> HIDE DEF t
  <2> QED
    BY <1>1, <2>1
<1>6. /\ u.op = "claim" /\ u.phase = "settle" /\ u.run = 0
      /\ u.locks = t.locks /\ u.todo = todo /\ u.hit = t.hit
      /\ u = [op |-> "claim", phase |-> u.phase, run |-> u.run, arg |-> u.arg,
              locks |-> u.locks, todo |-> u.todo, hit |-> u.hit, put |-> u.put]
  BY <1>2, <1>3, <1>5
<1> QED
  BY <1>1, <1>3, <1>4, <1>6, ClaimGoesOn

LEMMA PickKeeps ==
  ASSUME PgInv, NEW s \in Sessions, Pick(s)
  PROVE  PgInv'
<1> DEFINE t == tx[s]
           open == {r \in Candidates(t) : Free(s, r)}
           locks == t.locks \cup {Least(open)}
<1>1. PICK u, v : /\ u = [t EXCEPT !.phase = "commit"]
                  /\ v = [t EXCEPT !.phase = "mark", !.run = Least(open), !.locks = locks]
                  /\ t.phase = "settle" /\ Only(s, IF open = {} THEN u ELSE v)
  BY DEF Pick
<1>2. t.op = "claim"
  BY <1>1, TxShape, PhaseTells
<1>3. (\A q \in t.hit : Active(runs[q])) /\ t.run = 0
  BY <1>1, <1>2, ClaimFacts
<1>4. /\ t.todo \subseteq Existing /\ t.locks \subseteq Existing /\ t.hit \subseteq t.locks
      /\ Existing \subseteq Ids
  BY TxShape
<1>5. CASE open = {}
  <2>1. Only(s, u)
    BY <1>1, <1>5
  <2>2. u = [op |-> t.op, phase |-> "commit", run |-> t.run, arg |-> t.arg,
             locks |-> t.locks, todo |-> t.todo, hit |-> t.hit, put |-> t.put]
    <3>1. t = [op |-> t.op, phase |-> t.phase, run |-> t.run, arg |-> t.arg,
               locks |-> t.locks, todo |-> t.todo, hit |-> t.hit, put |-> t.put]
      BY TxShape
    <3> HIDE DEF t
    <3> QED
      BY <1>1, <3>1
  <2>3. /\ u.op = "claim" /\ u.phase = "commit" /\ u.run = 0
        /\ u.locks = t.locks /\ u.todo = t.todo /\ u.hit = t.hit
        /\ u = [op |-> "claim", phase |-> u.phase, run |-> u.run, arg |-> u.arg,
                locks |-> u.locks, todo |-> u.todo, hit |-> u.hit, put |-> u.put]
    BY <1>2, <1>3, <2>2
  <2> QED
    BY <1>3, <1>4, <2>1, <2>3, ClaimGoesOn
<1>6. CASE open # {}
  <2> DEFINE r == Least(open)
  <2>1. Only(s, v)
    BY <1>1, <1>6
  <2>2. r \in open
    <3>1. open \in SUBSET Ids
      BY DEF Candidates
    <3> HIDE DEF open
    <3> QED
      BY <1>6, <3>1, LeastIn
  <2>3. r \in Ids /\ Seen(t, r).status = "pending" /\ Free(s, r)
    BY <2>2 DEF Candidates
  <2>4. r \in Existing
    <3>1. CASE r \in t.hit
      BY <1>4, <3>1
    <3>2. CASE r \notin t.hit
      BY <2>3, <3>2 DEF Seen, Existing
    <3> QED
      BY <3>1, <3>2
  <2>5. /\ t.hit \subseteq locks /\ locks \subseteq Existing /\ r \in locks /\ r # 0
        /\ \A q \in locks \ t.locks : Free(s, q)
    BY <1>4, <2>3, <2>4 DEF Ids
  <2> HIDE DEF locks, open
  <2>6. v = [op |-> t.op, phase |-> "mark", run |-> r, arg |-> t.arg,
             locks |-> locks, todo |-> t.todo, hit |-> t.hit, put |-> t.put]
    <3>1. t = [op |-> t.op, phase |-> t.phase, run |-> t.run, arg |-> t.arg,
               locks |-> t.locks, todo |-> t.todo, hit |-> t.hit, put |-> t.put]
      BY TxShape
    <3> HIDE DEF t
    <3> QED
      BY <1>1, <3>1
  <2> HIDE DEF r
  <2>7. /\ v.op = "claim" /\ v.phase = "mark" /\ v.run = r
        /\ v.locks = locks /\ v.todo = t.todo /\ v.hit = t.hit
        /\ v = [op |-> "claim", phase |-> v.phase, run |-> v.run, arg |-> v.arg,
                locks |-> v.locks, todo |-> v.todo, hit |-> v.hit, put |-> v.put]
    BY <1>2, <2>6
  <2>8. Seen(v, v.run).status = "pending"
    BY <2>3, <2>7 DEF Seen
  <2> QED
    BY <1>3, <1>4, <2>1, <2>3, <2>5, <2>7, <2>8, ClaimGoesOn
<1> QED
  BY <1>5, <1>6

LEMMA EnterKeeps ==
  ASSUME PgInv, NEW s \in Sessions, Enter(s)
  PROVE  PgInv'
<1> DEFINE t == tx[s]
<1>1. PICK u : /\ u = [t EXCEPT !.phase = "commit"] /\ t.phase = "mark" /\ Only(s, u)
               /\ \A q \in Rivals(t) : ~Active(Seen(t, q)) /\ ~Entering(s, q)
  BY DEF Enter
<1>2. t.op = "claim"
  BY <1>1, TxShape, PhaseTells
<1>3. /\ \A q \in t.hit : Active(runs[q])
      /\ t.run # 0 /\ t.run \in {0} \cup Ids /\ t.run \in t.locks /\ Seen(t, t.run).status = "pending"
  BY <1>1, <1>2, ClaimFacts
<1>4. t.todo \subseteq Existing /\ t.locks \subseteq Existing /\ t.hit \subseteq t.locks
  BY TxShape
<1>5. u = [op |-> t.op, phase |-> "commit", run |-> t.run, arg |-> t.arg,
           locks |-> t.locks, todo |-> t.todo, hit |-> t.hit, put |-> t.put]
  <2>1. t = [op |-> t.op, phase |-> t.phase, run |-> t.run, arg |-> t.arg,
             locks |-> t.locks, todo |-> t.todo, hit |-> t.hit, put |-> t.put]
    BY TxShape
  <2> HIDE DEF t
  <2> QED
    BY <1>1, <2>1
<1>6. /\ u.op = "claim" /\ u.phase = "commit" /\ u.run = t.run
      /\ u.locks = t.locks /\ u.todo = t.todo /\ u.hit = t.hit
      /\ u = [op |-> "claim", phase |-> u.phase, run |-> u.run, arg |-> u.arg,
              locks |-> u.locks, todo |-> u.todo, hit |-> u.hit, put |-> u.put]
  BY <1>2, <1>5
<1>7. Rivals(u) = Rivals(t) /\ \A q \in Ids : Seen(u, q) = Seen(t, q)
  BY <1>6 DEF Rivals, Seen
<1>8. \A q \in Rivals(u) : ~Active(Seen(u, q)) /\ ~Entering(s, q)
  BY <1>1, <1>7 DEF Rivals
<1>9. Seen(u, u.run).status = "pending" /\ u.run \in u.locks /\ u.run \in {0} \cup Ids
  BY <1>3, <1>6, <1>7
<1> QED
  BY <1>1, <1>3, <1>4, <1>6, <1>8, <1>9, ClaimGoesOn

LEMMA RejectKeeps ==
  ASSUME PgInv, NEW s \in Sessions, Reject(s)
  PROVE  PgInv'
BY EndsUnwritten DEF Reject

\* An API request: it creates a run, continues one, or writes into one.
LEMMA CallKeeps ==
  ASSUME PgInv, NEW s \in Sessions, BeginCall(s)
  PROVE  PgInv'
<1>1. /\ tx[s].phase = "idle" /\ UNCHANGED <<setup, runs, inbox, asked, job, up, errors>>
  BY DEF BeginCall
<1>2. /\ setup \in Setups /\ setup.keys \subseteq Keys /\ Existing' = Existing
      /\ JobsFit' /\ "create" \notin errors'
  BY <1>1 DEF PgInv, RowsFit, Keys, Existing, JobsFit, IsolationHolds, KeysAreIdempotent
<1>3. ASSUME Roomy, NEW thread \in setup.threads, NEW key \in setup.keys, NEW mode \in setup.modes,
             Goes(s, [NoTx EXCEPT !.op = "create", !.phase = IF key = NoKey THEN "count" ELSE "key",
                                  !.arg = [thread |-> thread, key |-> key, mode |-> mode]])
      PROVE  PgInv'
  <2> DEFINE phase == IF key = NoKey THEN "count" ELSE "key"
             arg == [thread |-> thread, key |-> key, mode |-> mode]
  <2>1. PICK u : u = [NoTx EXCEPT !.op = "create", !.phase = phase, !.arg = arg] /\ Goes(s, u)
    BY <1>3
  <2>2. phase \in {"key", "count"} /\ (phase = "count" => key = NoKey)
    OBVIOUS
  <2>3. arg.thread \in Threads /\ arg.key = key /\ key \in Keys
    BY <1>2, PgAssumption
  <2> HIDE DEF phase, arg
  <2>4. u = [op |-> "create", phase |-> phase, run |-> 0, arg |-> arg,
             locks |-> {}, todo |-> {}, hit |-> {}, put |-> NoRow]
    BY <2>1 DEF NoTx
  <2>5. tx'[s] = u /\ tx' = [tx EXCEPT ![s] = tx'[s]]
    BY <2>1 DEF Goes, PgInv, TxsFit
  <2>6. TxFits(tx[s])'
    <3>1. CreateFits(tx[s])'
      BY <2>2, <2>3, <2>4, <2>5 DEF CreateFits
    <3>2. OneFits(tx[s])' /\ ResumeFits(tx[s])' /\ ClaimFits(tx[s])'
      BY <2>4, <2>5 DEF OneFits, ResumeFits, ClaimFits, OneRow, Fenced
    <3> QED
      BY <2>2, <2>4, <2>5, <3>1, <3>2 DEF TxFits
  <2>7. ~KeyHeld(tx'[s]) /\ ~Enters(tx'[s]) /\ tx'[s].locks = {}
    BY <2>2, <2>3, <2>4, <2>5 DEF KeyHeld, Enters
  <2> QED
    BY <1>1, <1>2, <1>3, <2>5, <2>6, <2>7, OnlyStep
<1>4. ASSUME NEW r \in Ids, NEW mode \in setup.modes, runs[r].status = "paused", Roomy,
             Goes(s, [NoTx EXCEPT !.op = "resume", !.phase = "lock", !.run = r,
                                  !.arg = [thread |-> runs[r].thread, key |-> NoKey, mode |-> mode]])
      PROVE  PgInv'
  <2> DEFINE arg == [thread |-> runs[r].thread, key |-> NoKey, mode |-> mode]
  <2>1. PICK u : u = [NoTx EXCEPT !.op = "resume", !.phase = "lock", !.run = r, !.arg = arg] /\ Goes(s, u)
    BY <1>4
  <2>2. arg.thread = runs'[r].thread /\ arg.key = NoKey
    BY <1>1
  <2> HIDE DEF arg
  <2>3. u = [op |-> "resume", phase |-> "lock", run |-> r, arg |-> arg,
             locks |-> {}, todo |-> {}, hit |-> {}, put |-> NoRow]
    BY <2>1 DEF NoTx
  <2>4. tx'[s] = u /\ tx' = [tx EXCEPT ![s] = tx'[s]]
    BY <2>1 DEF Goes, PgInv, TxsFit
  <2>5. r \in Existing'
    BY <1>2, <1>4 DEF Existing
  <2>6. TxFits(tx[s])'
    <3>1. ResumeFits(tx[s])'
      BY <2>2, <2>3, <2>4, <2>5 DEF ResumeFits
    <3>2. OneFits(tx[s])' /\ CreateFits(tx[s])' /\ ClaimFits(tx[s])'
      BY <2>3, <2>4 DEF OneFits, CreateFits, ClaimFits, OneRow, Fenced
    <3> QED
      BY <2>3, <2>4, <3>1, <3>2 DEF TxFits
  <2>7. ~KeyHeld(tx'[s]) /\ ~Enters(tx'[s]) /\ tx'[s].locks = {}
    BY <2>3, <2>4 DEF KeyHeld, Enters
  <2> QED
    BY <1>1, <1>2, <1>4, <2>4, <2>6, <2>7, OnlyStep
<1>5. ASSUME NEW op \in setup.kinds \cap {"cancel", "redrive"}, NEW r \in Ids, BeginOne(s, op, r, "none", 0)
      PROVE  PgInv'
  <2>1. op \in OneRow /\ ArgFits(op, "none") /\ op # "steer"
    BY DEF OneRow, ArgFits
  <2> QED
    BY <1>1, <1>5, <2>1, OneRowBegins
<1>6. ASSUME NEW r \in Ids, NEW key \in setup.keys, BeginOne(s, "steer", r, key, 0)
      PROVE  PgInv'
  <2>1. "steer" \in OneRow /\ ArgFits("steer", key) /\ key \in Keys
    BY <1>2 DEF OneRow, ArgFits
  <2> QED
    BY <1>1, <1>6, <2>1, OneRowBegins
<1> QED
  BY <1>3, <1>4, <1>5, <1>6 DEF BeginCall

\* A worker writes for the run it executes.
LEMMA DeliverKeeps ==
  ASSUME PgInv, NEW s \in Sessions, Deliver(s)
  PROVE  PgInv'
<1> DEFINE r == job[s].run
           n == job[s].attempt
<1>1. job[s] # NoJob /\ UNCHANGED <<setup, runs, inbox, asked, job, up, errors, spent>>
  BY DEF Deliver
<1>2. r \in Ids
  BY <1>1 DEF PgInv, JobsFit
<1>3. ASSUME NEW op \in {"append", "heartbeat", "close", "retry", "consume"}, NEW arg, BeginOne(s, op, r, arg, n)
      PROVE  PgInv'
  <2>1. op \in OneRow /\ ArgFits(op, arg) /\ op # "steer"
    BY DEF OneRow, Fenced, ArgFits
  <2> QED
    BY <1>1, <1>2, <1>3, <2>1, OneRowBegins
<1>4. ASSUME NEW outcome \in {"paused", "dead_letter"}, BeginOne(s, "finish", r, outcome, n)
      PROVE  PgInv'
  <2>1. "finish" \in OneRow /\ ArgFits("finish", outcome) /\ "finish" # "steer"
    BY DEF OneRow, Fenced, ArgFits
  <2> QED
    BY <1>1, <1>2, <1>4, <2>1, OneRowBegins
<1>5. ASSUME NEW outcome \in {"succeeded", "failed", "timed_out"}, BeginOne(s, "finalize", r, outcome, n)
      PROVE  PgInv'
  <2>1. "finalize" \in OneRow /\ ArgFits("finalize", outcome) /\ "finalize" # "steer"
    BY DEF OneRow, Fenced, ArgFits
  <2> QED
    BY <1>1, <1>2, <1>5, <2>1, OneRowBegins
<1> QED
  BY <1>3, <1>4, <1>5 DEF Deliver

LEMMA RaiseKeeps ==
  ASSUME PgInv, NEW s \in Sessions, Raise(s)
  PROVE  PgInv'
<1>1. /\ errors' = errors \cup {"claim"} /\ tx' = [tx EXCEPT ![s] = NoTx]
      /\ UNCHANGED <<setup, runs, inbox, asked, job, spent>>
  BY DEF Raise, Goes
<1>2. JobsFit' /\ "create" \notin errors'
  BY <1>1 DEF PgInv, JobsFit, IsolationHolds, KeysAreIdempotent
<1> QED
  BY <1>1, <1>2, GiveUp

LEMMA DeadlockKeeps ==
  ASSUME PgInv, NEW s \in Sessions, Deadlock(s)
  PROVE  PgInv'
<1>1. /\ errors' = errors \cup {"deadlock"} /\ tx' = [tx EXCEPT ![s] = NoTx]
      /\ UNCHANGED <<setup, runs, inbox, asked, job, spent>>
  BY DEF Deadlock, Goes
<1>2. JobsFit' /\ "create" \notin errors'
  BY <1>1 DEF PgInv, JobsFit, IsolationHolds, KeysAreIdempotent
<1> QED
  BY <1>1, <1>2, GiveUp

LEMMA FailKeeps ==
  ASSUME PgInv, NEW s \in Sessions, Fail(s)
  PROVE  PgInv'
<1>1. /\ tx' = [tx EXCEPT ![s] = NoTx] /\ UNCHANGED <<setup, runs, inbox, asked, errors>>
      /\ job' = job \/ job' = [job EXCEPT ![s] = NoJob]
  BY DEF Fail, Goes
<1>2. JobsFit' /\ "create" \notin errors'
  BY <1>1 DEF PgInv, JobsFit, NoJob, IsolationHolds, KeysAreIdempotent
<1> QED
  BY <1>1, <1>2, GiveUp

\* Neither the rows, but for their leases, nor the transactions change.
LEMMA AllAgree ==
  ASSUME PgInv, UNCHANGED <<setup, inbox, asked, tx, errors>>, JobsFit', runs' \in [Ids -> Row],
         \A r \in Ids : Agree(runs'[r], runs[r]),
         \A r \in Ids \ Existing : runs'[r] = runs[r]
  PROVE  PgInv'
<1>1. /\ \A r \in Ids : runs'[r].status = runs[r].status /\ runs'[r].thread = runs[r].thread
      /\ \A r \in Ids : runs'[r].key = runs[r].key /\ runs'[r].successor = runs[r].successor
      /\ \A r \in Ids : runs'[r].origin = runs[r].origin
  BY DEF Agree
<1>2. Existing' = Existing /\ \A r \in Ids : Active(runs'[r]) <=> Active(runs[r])
  BY <1>1 DEF Existing, Active
<1>3. RowsFit'
  <2>1. asked' = {r \in Ids : runs'[r].status \in {"cancelling", "cancelled"}}
    BY <1>1 DEF PgInv, RowsFit
  <2>2. setup' \in Setups /\ \A r \in Ids \ Existing' : runs'[r] = NoRow /\ inbox'[r] = <<>>
    BY <1>2 DEF PgInv, RowsFit
  <2> QED
    BY <2>1, <2>2 DEF RowsFit
<1>4. InboxesFit'
  BY DEF PgInv, InboxesFit
<1>5. TxsFit'
  <2>1. ASSUME NEW o \in Sessions PROVE TxFits(tx[o])'
    <3>1. TxFits(tx[o]) /\ tx'[o] = tx[o] /\ tx[o].locks \subseteq Ids
      BY TxShape
    <3>2. \A r \in tx[o].locks : Agree(runs'[r], runs[r])
      BY <3>1
    <3>3. \A r \in Existing : /\ r \in Existing' /\ runs'[r].thread = runs[r].thread
                              /\ runs'[r].key = runs[r].key
      BY <1>1, <1>2 DEF Existing
    <3>4. \A q \in Rivals(tx[o])' : Active(runs'[q]) => Active(runs[q])
      BY <1>2 DEF Rivals
    <3> QED
      BY <1>2, <1>3, <3>1, <3>2, <3>3, <3>4, TxKept DEF PgInv
  <2>2. ASSUME NEW p \in Sessions, NEW o \in Sessions \ {p}
        PROVE  LocksExclude(tx[p], tx[o])' /\ KeysExclude(tx[p], tx[o])' /\ EntriesExclude(tx[p], tx[o])'
    <3>1. LocksExclude(tx[p], tx[o]) /\ KeysExclude(tx[p], tx[o]) /\ EntriesExclude(tx[p], tx[o])
      BY <2>2 DEF PgInv, TxsFit
    <3>2. ASSUME Enters(tx[p]), Enters(tx[o]) PROVE tx[p].run \in Ids /\ tx[o].run \in Ids
      BY <2>2, <3>2, ClaimFacts DEF Enters
    <3> QED
      BY <1>1, <3>1, <3>2 DEF LocksExclude, KeysExclude, EntriesExclude, KeyHeld, Enters
  <2> QED
    BY <2>1, <2>2 DEF PgInv, TxsFit
<1>6. RoomFits'
  BY <1>2 DEF PgInv, RoomFits, Creating
<1>7. IsolationHolds'
  <2>1. OneActivePerThread'
    BY <1>1, <1>2 DEF PgInv, IsolationHolds, OneActivePerThread
  <2>2. KeysAreIdempotent'
    BY <1>1, <1>2 DEF PgInv, IsolationHolds, KeysAreIdempotent, Existing
  <2>3. OneDescendant'
    <3>1. ASSUME NEW r \in Existing', runs'[r].origin # 0 PROVE runs'[runs'[r].origin].successor = r
      <4>1. r \in Existing /\ r \in Ids /\ runs[r].origin # 0 /\ runs'[r].origin = runs[r].origin
        BY <1>1, <1>2, <3>1 DEF Existing
      <4>2. runs[r].origin \in Ids
        BY <4>1 DEF PgInv, RowsFit, Row
      <4> QED
        BY <1>1, <4>1, <4>2 DEF PgInv, IsolationHolds, OneDescendant, SuccessorsMatch
    <3>2. \A r \in Ids : runs'[r].successor # 0 \/ runs'[r].status \in {"succeeded", "failed", "timed_out"}
                           => Pending(r)' = {}
      BY <1>1 DEF PgInv, IsolationHolds, OneDescendant, LeftEmpty, Pending
    <3>3. OpenOnce'
      BY DEF PgInv, IsolationHolds, OneDescendant, OpenOnce
    <3> QED
      BY <3>1, <3>2, <3>3 DEF OneDescendant, SuccessorsMatch, LeftEmpty
  <2> QED
    BY <2>1, <2>2, <2>3 DEF IsolationHolds
<1> QED
  BY <1>3, <1>4, <1>5, <1>6, <1>7 DEF PgInv

LEMMA LoseKeeps ==
  ASSUME PgInv, NEW s \in Sessions, Lose(s)
  PROVE  PgInv'
<1>1. /\ job' = [job EXCEPT ![s] = NoJob] /\ UNCHANGED <<setup, runs, inbox, asked, tx, up, errors, spent>>
  BY DEF Lose
<1>2. JobsFit'
  BY <1>1 DEF PgInv, JobsFit, NoJob
<1>3. \A r \in Ids : Agree(runs'[r], runs[r])
  BY <1>1 DEF Agree
<1>4. runs' \in [Ids -> Row]
  BY <1>1 DEF PgInv, RowsFit
<1> QED
  BY <1>1, <1>2, <1>3, <1>4, AllAgree

LEMMA LapseKeeps ==
  ASSUME PgInv, NEW r \in Ids, Lapse(r)
  PROVE  PgInv'
<1>1. /\ runs' = [runs EXCEPT ![r].lapsed = TRUE] /\ Active(runs[r])
      /\ UNCHANGED <<setup, inbox, asked, tx, job, up, errors>>
  BY DEF Lapse
<1>2. runs \in [Ids -> Row] /\ r \in Existing
  BY <1>1 DEF PgInv, RowsFit, Active, ACTIVE, Existing
<1> DEFINE row == runs[r]
           w == [row EXCEPT !.lapsed = TRUE]
<1>3. runs' = [runs EXCEPT ![r] = w] /\ row \in Row
  BY <1>1, <1>2
<1>4. w \in Row /\ Agree(w, row)
  <2> HIDE DEF row
  <2> QED
    BY <1>3 DEF Row, Agree
<1>5. runs' \in [Ids -> Row] /\ runs'[r] = w /\ \A q \in Ids \ {r} : runs'[q] = runs[q]
  <2> HIDE DEF w
  <2> QED
    BY <1>2, <1>3, <1>4
<1>6. \A q \in Ids : Agree(runs'[q], runs[q])
  BY <1>4, <1>5 DEF Agree
<1>7. JobsFit'
  BY <1>1 DEF PgInv, JobsFit
<1> QED
  BY <1>1, <1>2, <1>5, <1>6, <1>7, AllAgree

-----------------------------------------------------------------------------
(* Inboxes                                                                  *)

\* b is the inbox of r with entries disposed of and, perhaps, one more.
Grown(r, b) ==
  /\ b \in Seq(Item)
  /\ DOMAIN b = DOMAIN inbox[r] \/ DOMAIN b = 1 .. (Len(inbox[r]) + 1)
  /\ \A i \in DOMAIN inbox[r] : /\ b[i].source = inbox[r][i].source
                                /\ b[i].state # "superseded" => inbox[r][i].state # "superseded"
  /\ \A i \in DOMAIN b \ DOMAIN inbox[r] : b[i].source = <<r, i>>

\* Entries differ in their sources, and go on doing so.
LEMMA GrownFits ==
  ASSUME InboxesFit, OpenOnce, NEW r \in Ids, NEW b, Grown(r, b), inbox' = [inbox EXCEPT ![r] = b]
  PROVE  InboxesFit' /\ OpenOnce'
<1>1. /\ inbox \in [Ids -> Seq(Item)] /\ inbox[r] \in Seq(Item)
      /\ b \in Seq(Item) /\ inbox'[r] = b /\ \A q \in Ids \ {r} : inbox'[q] = inbox[q]
      /\ inbox' \in [Ids -> Seq(Item)]
  BY DEF InboxesFit, Grown
<1>2. DOMAIN inbox[r] \subseteq DOMAIN b
  <2>1. Len(inbox[r]) \in Nat /\ DOMAIN inbox[r] = 1 .. Len(inbox[r])
    BY <1>1, LenProperties
  <2> QED
    BY <2>1 DEF Grown
<1>3. \A q \in Ids : DOMAIN inbox[q] \subseteq DOMAIN inbox'[q]
  BY <1>1, <1>2
<1>4. ASSUME NEW q \in Ids, NEW i \in DOMAIN inbox[q]
      PROVE  /\ inbox[q][i].source[1] \in Ids
             /\ inbox[q][i].source[2] \in DOMAIN inbox[inbox[q][i].source[1]]
  <2>1. inbox[q][i] \in Item
    BY <1>1, <1>4, ElementOfSeq, LenProperties
  <2> QED
    BY <1>4, <2>1 DEF Item, InboxesFit
<1>5. ASSUME NEW q \in Ids, NEW i \in DOMAIN inbox'[q]
      PROVE  \/ /\ i \in DOMAIN inbox[q] /\ inbox'[q][i].source = inbox[q][i].source
                /\ inbox'[q][i].state # "superseded" => inbox[q][i].state # "superseded"
             \/ q = r /\ i \notin DOMAIN inbox[r] /\ inbox'[q][i].source = <<r, i>>
  <2>1. CASE q = r
    BY <1>1, <1>5, <2>1 DEF Grown
  <2>2. CASE q # r
    BY <1>1, <1>5, <2>2
  <2> QED
    BY <2>1, <2>2
<1>6. InboxesFit'
  <2>1. ASSUME NEW q \in Ids, NEW i \in DOMAIN inbox'[q]
        PROVE  inbox'[q][i].source[2] \in DOMAIN inbox'[inbox'[q][i].source[1]]
    <3>1. CASE i \in DOMAIN inbox[q] /\ inbox'[q][i].source = inbox[q][i].source
      BY <1>3, <1>4, <2>1, <3>1
    <3>2. CASE q = r /\ inbox'[q][i].source = <<r, i>>
      BY <2>1, <3>2
    <3> QED
      BY <1>5, <2>1, <3>1, <3>2
  <2> QED
    BY <1>1, <2>1 DEF InboxesFit
<1>7. OpenOnce'
  <2> SUFFICES ASSUME NEW p \in Ids, NEW q \in Ids, NEW i \in DOMAIN inbox'[p], NEW j \in DOMAIN inbox'[q],
                      inbox'[p][i].source = inbox'[q][j].source,
                      inbox'[p][i].state # "superseded", inbox'[q][j].state # "superseded"
               PROVE  p = q /\ i = j
    BY DEF OpenOnce
  <2>1. CASE i \in DOMAIN inbox[p] /\ j \in DOMAIN inbox[q]
    <3>1. /\ inbox[p][i].source = inbox[q][j].source
          /\ inbox[p][i].state # "superseded" /\ inbox[q][j].state # "superseded"
      BY <1>5, <2>1
    <3> QED
      BY <2>1, <3>1 DEF OpenOnce
  <2>2. CASE i \notin DOMAIN inbox[p]
    <3>1. p = r /\ i \notin DOMAIN inbox[r] /\ inbox'[p][i].source = <<r, i>>
      BY <1>5, <2>2
    <3>2. CASE j \in DOMAIN inbox[q]
      <4>1. inbox[q][j].source = <<r, i>>
        BY <1>5, <3>1, <3>2
      <4> QED
        BY <1>4, <3>1, <3>2, <4>1
    <3>3. CASE j \notin DOMAIN inbox[q]
      <4>1. q = r /\ inbox'[q][j].source = <<r, j>>
        BY <1>5, <3>3
      <4> QED
        BY <3>1, <4>1
    <3> QED
      BY <3>2, <3>3
  <2>3. CASE i \in DOMAIN inbox[p] /\ j \notin DOMAIN inbox[q]
    <3>1. q = r /\ j \notin DOMAIN inbox[r] /\ inbox'[q][j].source = <<r, j>>
      BY <1>5, <2>3
    <3>2. inbox[p][i].source = <<r, j>>
      BY <1>5, <2>3, <3>1
    <3> QED
      BY <1>4, <2>3, <3>1, <3>2
  <2> QED
    BY <2>1, <2>2, <2>3
<1> QED
  BY <1>6, <1>7

LEMMA DisposedFits ==
  ASSUME InboxesFit, NEW r \in Ids, NEW which, which \subseteq Pending(r),
         NEW state \in {"consumed", "superseded"}
  PROVE  /\ Grown(r, Disposed(r, which, state))
         /\ DOMAIN Disposed(r, which, state) = DOMAIN inbox[r]
         /\ \A i \in DOMAIN inbox[r] :
              Disposed(r, which, state)[i].state = IF i \in which THEN state ELSE inbox[r][i].state
<1> DEFINE old == inbox[r]
           b == [i \in DOMAIN old |-> IF i \in which THEN [old[i] EXCEPT !.state = state] ELSE old[i]]
<1>1. Disposed(r, which, state) = b
  BY DEF Disposed
<1>2. old \in Seq(Item) /\ Len(old) \in Nat /\ DOMAIN old = 1 .. Len(old)
  BY LenProperties DEF InboxesFit
<1>3. \A i \in DOMAIN old : old[i] \in Item
  BY <1>2, ElementOfSeq
<1> HIDE DEF old
<1>4. ASSUME NEW i \in DOMAIN old
      PROVE  /\ b[i] \in Item /\ b[i].source = old[i].source
             /\ b[i].state = IF i \in which THEN state ELSE old[i].state
  <2> DEFINE e == old[i]
  <2>1. e \in Item
    BY <1>3, <1>4
  <2>2. b[i] = IF i \in which THEN [e EXCEPT !.state = state] ELSE e
    BY <1>4
  <2> HIDE DEF e, b
  <2>3. [e EXCEPT !.state = state] \in Item
    BY <2>1 DEF Item
  <2>4. [e EXCEPT !.state = state].source = e.source /\ [e EXCEPT !.state = state].state = state
    BY <2>1 DEF Item
  <2> QED
    BY <2>1, <2>2, <2>3, <2>4 DEF e
<1>5. b \in Seq(Item) /\ DOMAIN b = DOMAIN old
  <2>1. b \in [1 .. Len(old) -> Item]
    <3>1. DOMAIN b = 1 .. Len(old)
      BY <1>2
    <3>2. b = [i \in 1 .. Len(old) |-> b[i]]
      BY <1>2
    <3> HIDE DEF b
    <3> QED
      BY <1>2, <1>4, <3>1, <3>2
  <2> HIDE DEF b
  <2> QED
    BY <1>2, <2>1, FcnIsSeq
<1> HIDE DEF b
<1>6. Grown(r, b)
  <2>1. \A i \in which : old[i].state = "pending"
    BY DEF Pending, old
  <2> QED
    BY <1>4, <1>5, <2>1 DEF Grown, old
<1> QED
  BY <1>1, <1>4, <1>5, <1>6 DEF old

LEMMA InboxWrittenFits ==
  ASSUME InboxesFit, NEW r \in Ids, runs[r] \in Row, NEW op \in OneRow, NEW arg, op = "steer" => arg \in Keys
  PROVE  /\ Grown(r, InboxWritten(op, arg, r))
         /\ op = "finalize" => \A i \in DOMAIN InboxWritten(op, arg, r) :
                                  InboxWritten(op, arg, r)[i].state # "pending"
         /\ Pending(r) = {} /\ (runs[r].status \in TERMINAL \/ runs[r].successor # 0)
              => \A i \in DOMAIN InboxWritten(op, arg, r) : InboxWritten(op, arg, r)[i].state # "pending"
<1> DEFINE b == InboxWritten(op, arg, r)
           over == runs[r].status \in TERMINAL \/ runs[r].successor # 0
           old == inbox[r]
<1>0. old \in Seq(Item) /\ Len(old) \in Nat /\ DOMAIN old = 1 .. Len(old)
  BY LenProperties DEF InboxesFit
<1>1. Grown(r, old)
  BY <1>0 DEF Grown
<1>2. CASE op = "consume"
  <2>1. b = Disposed(r, arg \cap Pending(r), "consumed")
    BY <1>2 DEF InboxWritten, Consumed
  <2>2. /\ Grown(r, b) /\ DOMAIN b = DOMAIN old
        /\ \A i \in DOMAIN old : b[i].state = IF i \in arg \cap Pending(r) THEN "consumed" ELSE old[i].state
    BY <2>1, DisposedFits
  <2> HIDE DEF b
  <2>3. ASSUME Pending(r) = {}, NEW i \in DOMAIN b PROVE b[i].state # "pending"
    BY <2>2, <2>3 DEF Pending
  <2> QED
    BY <1>2, <2>2, <2>3 DEF b
<1>3. CASE op = "finalize"
  <2>1. b = Disposed(r, Pending(r), "superseded")
    BY <1>3 DEF InboxWritten, SupersededAtEnd
  <2>2. /\ Grown(r, b) /\ DOMAIN b = DOMAIN old
        /\ \A i \in DOMAIN old : b[i].state = IF i \in Pending(r) THEN "superseded" ELSE old[i].state
    BY <2>1, DisposedFits
  <2> HIDE DEF b
  <2>3. ASSUME NEW i \in DOMAIN b PROVE b[i].state # "pending"
    BY <2>2, <2>3 DEF Pending
  <2> QED
    BY <1>3, <2>2, <2>3 DEF b
<1>4. CASE op = "steer"
  <2>1. b = Accepted(r, arg)
    BY <1>4 DEF InboxWritten
  <2>2. CASE SteeringAdmitted(runs[r], r, arg)
    <3> DEFINE e == [key |-> arg, state |-> "pending", source |-> <<r, Len(old) + 1>>]
    <3>1. b = Append(old, e) /\ ~over
      BY <2>1, <2>2 DEF Accepted, SteeringAdmitted
    <3>2. e \in Item
      BY <1>0, <1>4 DEF Item
    <3>3. e.source = <<r, Len(old) + 1>>
      OBVIOUS
    <3> HIDE DEF e
    <3>4. /\ Append(old, e) \in Seq(Item) /\ Len(Append(old, e)) = Len(old) + 1
          /\ \A i \in 1 .. Len(old) : Append(old, e)[i] = old[i]
          /\ Append(old, e)[Len(old) + 1] = e
      BY <1>0, <3>2, AppendProperties
    <3>5. DOMAIN Append(old, e) = 1 .. (Len(old) + 1)
      BY <3>4, LenProperties
    <3>6. Grown(r, Append(old, e))
      BY <1>0, <3>3, <3>4, <3>5 DEF Grown
    <3> QED
      BY <1>4, <3>1, <3>6
  <2>3. CASE ~SteeringAdmitted(runs[r], r, arg)
    <3>1. b = old
      BY <2>1, <2>3 DEF Accepted
    <3> QED
      BY <1>1, <1>4, <3>1 DEF Pending
  <2> QED
    BY <2>2, <2>3
<1>5. CASE op \notin {"consume", "finalize", "steer"}
  <2>1. b = old
    BY <1>5 DEF InboxWritten
  <2> QED
    BY <1>1, <1>5, <2>1 DEF Pending
<1> QED
  BY <1>2, <1>3, <1>4, <1>5

-----------------------------------------------------------------------------
(* Steps that write                                                         *)

LEMMA OutcomeFacts ==
  ASSUME NEW op \in OneRow, NEW arg, ArgFits(op, arg), NEW row \in Row, row.status # "absent",
         op \in Fenced => Active(row), op = "redrive" => row.status \in {"failed", "dead_letter"}
  PROVE  /\ Outcome(op, arg, row) # "absent"
         /\ Outcome(op, arg, row) \in ACTIVE => row.status \in ACTIVE
         /\ Outcome(op, arg, row) \in {"cancelling", "cancelled"}
              <=> row.status \in {"cancelling", "cancelled"} \/ (op = "cancel" /\ ~CancelRefused(row))
         /\ Outcome(op, arg, row) \in {"succeeded", "failed", "timed_out"}
              => op = "finalize" \/ row.status = Outcome(op, arg, row)
<1> PICK o : o = Outcome(op, arg, row)
  OBVIOUS
<1> SUFFICES /\ o # "absent"
             /\ o \in ACTIVE => row.status \in ACTIVE
             /\ o \in {"cancelling", "cancelled"}
                  <=> row.status \in {"cancelling", "cancelled"} \/ (op = "cancel" /\ ~CancelRefused(row))
             /\ o \in {"succeeded", "failed", "timed_out"} => op = "finalize" \/ row.status = o
  OBVIOUS
<1>0. row.status \in Statuses
  BY DEF Row
<1>1. CASE op = "finish"
  <2>1. o = IF row.status = "cancelling" THEN "cancelled" ELSE arg
    BY <1>1 DEF Outcome
  <2>2. arg \in {"paused", "dead_letter"} /\ row.status \in {"running", "cancelling"}
    BY <1>1 DEF ArgFits, Fenced, Active, ACTIVE
  <2> QED
    BY <1>1, <2>1, <2>2 DEF ACTIVE
<1>2. CASE op = "finalize"
  <2>1. o = IF row.status = "cancelling" THEN "cancelled" ELSE arg
    BY <1>2 DEF Outcome
  <2>2. arg \in {"succeeded", "failed", "timed_out"} /\ row.status \in {"running", "cancelling"}
    BY <1>2 DEF ArgFits, Fenced, Active, ACTIVE
  <2> QED
    BY <1>2, <2>1, <2>2 DEF ACTIVE
<1>3. CASE op = "retry"
  <2>1. o = IF row.status = "cancelling" THEN "cancelled" ELSE "pending"
    BY <1>3 DEF Outcome
  <2>2. row.status \in {"running", "cancelling"}
    BY <1>3 DEF Fenced, Active, ACTIVE
  <2> QED
    BY <1>3, <2>1, <2>2 DEF ACTIVE
<1>4. CASE op = "cancel"
  <2>1. CASE CancelRefused(row)
    <3>1. o = row.status
      BY <1>4, <2>1 DEF Outcome
    <3> QED
      BY <1>4, <2>1, <3>1 DEF ACTIVE
  <2>2. CASE ~CancelRefused(row)
    <3>1. o = IF row.status \in {"pending", "paused"} THEN "cancelled" ELSE "cancelling"
      BY <1>4, <2>2 DEF Outcome
    <3>2. row.status \in {"pending", "paused", "running", "cancelling"}
      BY <1>0, <2>2 DEF CancelRefused, Statuses, ACTIVE, TERMINAL
    <3> QED
      BY <1>4, <2>2, <3>1, <3>2 DEF ACTIVE
  <2> QED
    BY <2>1, <2>2
<1>5. CASE op = "redrive"
  <2>1. o = "pending" /\ row.status \in {"failed", "dead_letter"}
    BY <1>5 DEF Outcome
  <2> QED
    BY <1>5, <2>1 DEF ACTIVE
<1>6. CASE op \notin {"finish", "finalize", "retry", "cancel", "redrive"}
  <2>1. o = row.status
    BY <1>6 DEF Outcome
  <2> QED
    BY <1>6, <2>1 DEF ACTIVE
<1> QED
  BY <1>1, <1>2, <1>3, <1>4, <1>5, <1>6

\* What a transaction on one row writes, in terms of the row as it is.
LEMMA CommitFacts ==
  ASSUME PgInv, NEW s \in Sessions, CommitOne(s)
  PROVE  /\ tx[s].op \in OneRow /\ tx[s].run \in Existing /\ tx[s].run \in Ids /\ tx[s].run \in tx[s].locks
         /\ runs \in [Ids -> Row] /\ ArgFits(tx[s].op, tx[s].arg)
         /\ tx[s].op = "steer" => tx[s].arg \in Keys
         /\ tx[s].op \in Fenced => Active(runs[tx[s].run])
         /\ tx[s].op = "redrive" => runs[tx[s].run].status \in {"failed", "dead_letter"}
         /\ runs' \in [Ids -> Row] /\ \A q \in Ids \ {tx[s].run} : runs'[q] = runs[q]
         /\ runs'[tx[s].run].status = Outcome(tx[s].op, tx[s].arg, runs[tx[s].run])
         /\ SamePlace(runs'[tx[s].run], runs[tx[s].run])
<1> DEFINE t == tx[s]
           r == t.run
           row == runs[r]
           w == Written(t.op, t.arg, row)
           n == [t.put EXCEPT !.lapsed = w.lapsed]
<1>1. t.phase = "commit" /\ t.op \in OneRow /\ runs' = [runs EXCEPT ![r] = n]
  BY DEF CommitOne
<1>2. /\ r \in Existing /\ r \in t.locks
      /\ t.op = "finish" => t.arg \in {"paused", "dead_letter"}
      /\ t.op = "finalize" => t.arg \in {"succeeded", "failed", "timed_out"}
      /\ t.op = "steer" => t.arg \in Keys
      /\ t.op \in Fenced => Active(row)
      /\ t.op = "redrive" => row.status \in {"failed", "dead_letter"}
      /\ t.put \in Row /\ Agree(t.put, w)
  BY <1>1, TxShape DEF TxFits, OneFits
<1>3. r \in Ids /\ runs \in [Ids -> Row] /\ row \in Row
  BY <1>2 DEF Existing, PgInv, RowsFit
<1>4. ArgFits(t.op, t.arg)
  BY <1>2 DEF ArgFits
<1>5. w \in Row /\ w.status = Outcome(t.op, t.arg, row) /\ SamePlace(w, row)
  BY <1>1, <1>3, <1>4, WrittenRow
<1> HIDE DEF w
<1>6. n \in Row /\ n.status = Outcome(t.op, t.arg, row) /\ SamePlace(n, row)
  <2> DEFINE p == t.put
             lapsed == w.lapsed
  <2>1. p \in Row /\ lapsed \in BOOLEAN
    BY <1>2, <1>5 DEF Row
  <2>2. n = [p EXCEPT !.lapsed = lapsed]
    OBVIOUS
  <2>3. /\ p.status = w.status /\ p.thread = w.thread /\ p.key = w.key
        /\ p.successor = w.successor /\ p.origin = w.origin
    BY <1>2 DEF Agree
  <2> HIDE DEF p, lapsed, n
  <2>4. /\ n \in Row /\ n.status = p.status /\ n.thread = p.thread /\ n.key = p.key
        /\ n.successor = p.successor /\ n.origin = p.origin
    BY <2>1, <2>2 DEF Row
  <2> QED
    BY <1>5, <2>3, <2>4 DEF SamePlace
<1>7. runs'[r] = n /\ runs' \in [Ids -> Row] /\ \A q \in Ids \ {r} : runs'[q] = runs[q]
  <2> HIDE DEF n
  <2> QED
    BY <1>1, <1>3, <1>6
<1> HIDE DEF n
<1> QED
  BY <1>1, <1>2, <1>3, <1>4, <1>6, <1>7

LEMMA CommitOneKeeps ==
  ASSUME PgInv, NEW s \in Sessions, CommitOne(s)
  PROVE  PgInv'
<1> DEFINE t == tx[s]
           r == t.run
           row == runs[r]
           new == runs'[r]
           b == InboxWritten(t.op, t.arg, r)
<1>1. /\ t.op \in OneRow /\ r \in Existing /\ r \in Ids /\ r \in t.locks
      /\ runs \in [Ids -> Row] /\ ArgFits(t.op, t.arg)
      /\ t.op = "steer" => t.arg \in Keys
      /\ t.op \in Fenced => Active(row)
      /\ t.op = "redrive" => row.status \in {"failed", "dead_letter"}
      /\ runs' \in [Ids -> Row] /\ \A q \in Ids \ {r} : runs'[q] = runs[q]
      /\ new.status = Outcome(t.op, t.arg, row)
      /\ SamePlace(new, row)
  BY CommitFacts
<1>2. /\ inbox' = [inbox EXCEPT ![r] = b]
      /\ asked' = IF t.op = "cancel" /\ ~CancelRefused(row) THEN asked \cup {r} ELSE asked
      /\ job' = IF t.op \in {"finish", "finalize", "retry"} THEN [job EXCEPT ![s] = NoJob] ELSE job
      /\ tx' = [tx EXCEPT ![s] = NoTx]
      /\ UNCHANGED <<setup, up, errors, spent>>
  BY DEF CommitOne
<1>3. row \in Row /\ row.status # "absent"
  BY <1>1 DEF Existing
<1>4. /\ new.status # "absent" /\ (new.status \in ACTIVE => row.status \in ACTIVE)
      /\ new.status \in {"cancelling", "cancelled"}
            <=> row.status \in {"cancelling", "cancelled"} \/ (t.op = "cancel" /\ ~CancelRefused(row))
      /\ new.status \in {"succeeded", "failed", "timed_out"} => t.op = "finalize" \/ row.status = new.status
  <2> HIDE DEF t, r, row, new
  <2>1. new.status = Outcome(t.op, t.arg, row)
    BY <1>1
  <2> QED
    BY <1>1, <1>3, <2>1, OutcomeFacts
<1>5. /\ new.thread = row.thread /\ new.key = row.key
      /\ new.successor = row.successor /\ new.origin = row.origin
  BY <1>1 DEF SamePlace
<1>6. Existing' = Existing
  BY <1>1, <1>4 DEF Existing
<1>7. Grown(r, b) /\ InboxesFit' /\ OpenOnce'
  <2>1. InboxesFit /\ OpenOnce
    BY DEF PgInv, IsolationHolds, OneDescendant
  <2>2. Grown(r, b)
    BY <1>1, <1>3, <2>1, InboxWrittenFits
  <2> QED
    BY <1>1, <1>2, <2>1, <2>2, GrownFits
<1>8. RowsFit'
  <2>1. asked' = {q \in Ids : runs'[q].status \in {"cancelling", "cancelled"}}
    <3>1. asked = {q \in Ids : runs[q].status \in {"cancelling", "cancelled"}}
      BY DEF PgInv, RowsFit
    <3>2. asked' \subseteq Ids
      BY <1>1, <1>2, <3>1
    <3>3. ASSUME NEW q \in Ids PROVE q \in asked' <=> runs'[q].status \in {"cancelling", "cancelled"}
      <4>1. CASE q = r
        <5>1. r \in asked <=> row.status \in {"cancelling", "cancelled"}
          BY <1>1, <3>1
        <5>2. r \in asked' <=> r \in asked \/ (t.op = "cancel" /\ ~CancelRefused(row))
          BY <1>2
        <5> QED
          BY <1>4, <4>1, <5>1, <5>2
      <4>2. CASE q # r
        <5>1. q \in asked' <=> q \in asked
          BY <1>2, <4>2
        <5> QED
          BY <1>1, <3>1, <4>2, <5>1
      <4> QED
        BY <4>1, <4>2
    <3> QED
      BY <3>2, <3>3
  <2>2. \A q \in Ids \ Existing' : runs'[q] = NoRow /\ inbox'[q] = <<>>
    <3>1. \A q \in Ids \ Existing : q # r /\ runs[q] = NoRow /\ inbox[q] = <<>> /\ inbox'[q] = inbox[q]
      BY <1>1, <1>2 DEF PgInv, RowsFit, InboxesFit
    <3> QED
      BY <1>1, <1>6, <3>1
  <2> QED
    BY <1>1, <1>2, <2>1, <2>2 DEF PgInv, RowsFit
<1>9. JobsFit'
  BY <1>2 DEF PgInv, JobsFit, NoJob
<1>10. TxsFit'
  <2>1. \A o \in Sessions \ {s} : r \notin tx[o].locks
    BY <1>1 DEF PgInv, TxsFit, LocksExclude
  <2>2. \A o \in Sessions \ {s} : \A q \in tx[o].locks : Agree(runs'[q], runs[q])
    <3>1. \A o \in Sessions : tx[o].locks \subseteq Ids
      BY TxShape
    <3> QED
      BY <1>1, <2>1, <3>1 DEF Agree
  <2>3. Considerate(s)
    BY <1>1, <1>4, <1>5, <1>6, <2>2 DEF Considerate, Active, Existing
  <2> QED
    BY <1>2, <1>8, <2>3, TxsWrite DEF PgInv
<1>11. RoomFits'
  <2>1. tx'[s] = NoTx /\ \A o \in Sessions \ {s} : tx'[o] = tx[o]
    BY <1>2 DEF PgInv, TxsFit
  <2>2. t.op \notin {"create", "resume"}
    BY <1>1 DEF OneRow, Fenced
  <2>3. Creating' = Creating
    BY <2>1, <2>2 DEF Creating, NoTx
  <2> QED
    BY <1>2, <1>6, <2>3 DEF PgInv, RoomFits
<1>12. OneActivePerThread'
  <2>1. ASSUME NEW q \in Ids PROVE runs'[q].thread = runs[q].thread /\ (Active(runs'[q]) => Active(runs[q]))
    BY <1>1, <1>4, <1>5 DEF Active
  <2> QED
    BY <2>1 DEF PgInv, IsolationHolds, OneActivePerThread
<1>13. KeysAreIdempotent'
  <2>1. ASSUME NEW q \in Ids PROVE runs'[q].key = runs[q].key
    BY <1>1, <1>5
  <2> QED
    BY <1>2, <1>6, <2>1 DEF PgInv, IsolationHolds, KeysAreIdempotent, Existing
<1>14. SuccessorsMatch'
  <2>1. ASSUME NEW q \in Ids PROVE runs'[q].origin = runs[q].origin /\ runs'[q].successor = runs[q].successor
    BY <1>1, <1>5
  <2>2. \A q \in Ids : runs[q].origin \in {0} \cup Ids
    BY <1>1 DEF Row
  <2> QED
    BY <1>6, <2>1, <2>2 DEF PgInv, IsolationHolds, OneDescendant, SuccessorsMatch, Existing
<1>15. LeftEmpty'
  <2>1. ASSUME NEW q \in Ids,
               runs'[q].successor # 0 \/ runs'[q].status \in {"succeeded", "failed", "timed_out"}
        PROVE  Pending(q)' = {}
    <3>1. CASE q # r
      <4>1. runs'[q] = runs[q] /\ inbox'[q] = inbox[q]
        BY <1>1, <1>2, <3>1 DEF PgInv, InboxesFit
      <4>2. Pending(q) = {}
        BY <2>1, <4>1 DEF PgInv, IsolationHolds, OneDescendant, LeftEmpty
      <4> QED
        BY <4>1, <4>2 DEF Pending
    <3>2. CASE q = r
      <4>1. inbox'[r] = b
        BY <1>1, <1>2 DEF PgInv, InboxesFit
      <4>2. CASE t.op = "finalize"
        <5>1. \A i \in DOMAIN b : b[i].state # "pending"
          BY <1>1, <1>3, <4>2, InboxWrittenFits DEF PgInv
        <5> HIDE DEF b
        <5> QED
          BY <3>2, <4>1, <5>1 DEF Pending
      <4>3. CASE t.op # "finalize"
        <5>1. row.successor # 0 \/ row.status \in {"succeeded", "failed", "timed_out"}
          BY <1>4, <1>5, <2>1, <3>2, <4>3
        <5>2. Pending(r) = {} /\ (row.status \in TERMINAL \/ row.successor # 0)
          BY <1>1, <5>1 DEF PgInv, IsolationHolds, OneDescendant, LeftEmpty, TERMINAL
        <5>3. \A i \in DOMAIN b : b[i].state # "pending"
          BY <1>1, <1>3, <5>2, InboxWrittenFits DEF PgInv
        <5> HIDE DEF b
        <5> QED
          BY <3>2, <4>1, <5>3 DEF Pending
      <4> QED
        BY <4>2, <4>3
    <3> QED
      BY <3>1, <3>2
  <2> QED
    BY <2>1 DEF LeftEmpty
<1> QED
  BY <1>7, <1>8, <1>9, <1>10, <1>11, <1>12, <1>13, <1>14, <1>15 DEF PgInv, IsolationHolds, OneDescendant

\* What a claim writes: the rows it swept, and the run it takes.
LEMMA ClaimWrites ==
  ASSUME PgInv, NEW s \in Sessions, CommitClaim(s)
  PROVE  /\ tx[s].op = "claim" /\ tx[s].phase = "commit" /\ tx[s].run \in {0} \cup Ids
         /\ runs \in [Ids -> Row] /\ runs' \in [Ids -> Row] /\ tx[s].hit \subseteq tx[s].locks
         /\ tx[s].run # 0 => tx[s].run \in tx[s].locks /\ tx[s].run \in Existing
         /\ \A r \in Ids : SamePlace(runs'[r], runs[r])
         /\ tx[s].run \in Ids => /\ runs'[tx[s].run].status = "running"
                                 /\ runs[tx[s].run].status \in {"pending", "running"}
                                 /\ runs'[tx[s].run].attempt \in Nat
         /\ \A r \in tx[s].hit : Active(runs[r])
         /\ \A r \in tx[s].hit \ {tx[s].run} :
              runs'[r].status = IF runs[r].status = "cancelling" THEN "cancelled" ELSE "pending"
         /\ \A r \in Ids \ ({tx[s].run} \cup tx[s].hit) : runs'[r] = runs[r]
<1> DEFINE t == tx[s]
<1>1. /\ t.phase = "commit" /\ t.op = "claim"
      /\ runs' = [r \in Ids |-> IF r = t.run THEN Claimed(Seen(t, r), s) ELSE Seen(t, r)]
  BY DEF CommitClaim
<1>2. runs \in [Ids -> Row] /\ t.hit \subseteq t.locks /\ t.locks \subseteq Existing /\ Existing \subseteq Ids
  BY TxShape DEF PgInv, RowsFit
<1>3. /\ \A r \in t.hit : Active(runs[r])
      /\ t.run \in {0} \cup Ids
      /\ t.run # 0 => t.run \in t.locks /\ Seen(t, t.run).status = "pending"
  BY <1>1, ClaimFacts
<1>4. ASSUME NEW r \in Ids
      PROVE  /\ Seen(t, r) \in Row /\ SamePlace(Seen(t, r), runs[r])
             /\ r \notin t.hit => Seen(t, r) = runs[r]
             /\ r \in t.hit => Seen(t, r).status = IF runs[r].status = "cancelling" THEN "cancelled" ELSE "pending"
  BY <1>2, <1>4, SeenRow
<1>5. ASSUME NEW r \in Ids, r = t.run
      PROVE  /\ runs'[r] \in Row /\ SamePlace(runs'[r], runs[r]) /\ runs'[r].status = "running"
             /\ runs'[r].attempt \in Nat /\ runs[r].status \in {"pending", "running"}
  <2> DEFINE row == Seen(t, r)
  <2>1. row \in Row /\ SamePlace(row, runs[r])
    BY <1>4
  <2>2. runs'[r] = Claimed(row, s)
    BY <1>1, <1>5
  <2>3. row.status = "pending"
    <3>1. r # 0
      BY PgAssumption DEF Ids
    <3> QED
      BY <1>3, <1>5, <3>1
  <2>4. runs[r].status \in {"pending", "running"}
    <3>1. CASE r \in t.hit
      <4>1. row.status = IF runs[r].status = "cancelling" THEN "cancelled" ELSE "pending"
        BY <1>4, <3>1
      <4>2. runs[r].status \in {"running", "cancelling"}
        BY <1>3, <3>1 DEF Active, ACTIVE
      <4> HIDE DEF row
      <4> QED
        BY <2>3, <4>1, <4>2
    <3>2. CASE r \notin t.hit
      BY <1>4, <2>3, <3>2
    <3> QED
      BY <3>1, <3>2
  <2> HIDE DEF row
  <2>5. /\ Claimed(row, s) \in Row /\ Claimed(row, s).status = "running"
        /\ SamePlace(Claimed(row, s), row) /\ Claimed(row, s).attempt \in Nat
    BY <2>1, ClaimedRow
  <2> QED
    BY <2>1, <2>2, <2>4, <2>5 DEF SamePlace
<1>6. ASSUME NEW r \in Ids, r # t.run
      PROVE  runs'[r] = Seen(t, r)
  BY <1>1, <1>6
<1>7. runs' \in [Ids -> Row] /\ \A r \in Ids : SamePlace(runs'[r], runs[r])
  <2>1. ASSUME NEW r \in Ids PROVE runs'[r] \in Row /\ SamePlace(runs'[r], runs[r])
    BY <1>4, <1>5, <1>6
  <2>2. runs' = [r \in Ids |-> runs'[r]]
    BY <1>1
  <2> QED
    BY <2>1, <2>2
<1>8. \A r \in t.hit \ {t.run} :
         runs'[r].status = IF runs[r].status = "cancelling" THEN "cancelled" ELSE "pending"
  BY <1>2, <1>4, <1>6
<1>9. \A r \in Ids \ ({t.run} \cup t.hit) : runs'[r] = runs[r]
  BY <1>4, <1>6
<1>10. t.run # 0 => t.run \in t.locks /\ t.run \in Existing
  BY <1>2, <1>3
<1> QED
  BY <1>1, <1>2, <1>3, <1>5, <1>7, <1>8, <1>9, <1>10

LEMMA CommitClaimKeeps ==
  ASSUME PgInv, NEW s \in Sessions, CommitClaim(s)
  PROVE  PgInv'
<1> DEFINE t == tx[s]
<1>1. /\ t.op = "claim" /\ t.phase = "commit" /\ t.run \in {0} \cup Ids
      /\ runs \in [Ids -> Row] /\ runs' \in [Ids -> Row] /\ t.hit \subseteq t.locks
      /\ t.run # 0 => t.run \in t.locks /\ t.run \in Existing
      /\ \A r \in t.hit : Active(runs[r])
      /\ \A r \in Ids \ ({t.run} \cup t.hit) : runs'[r] = runs[r]
  BY ClaimWrites
<1>2. \A r \in Ids : /\ runs'[r].thread = runs[r].thread /\ runs'[r].key = runs[r].key
                     /\ runs'[r].successor = runs[r].successor /\ runs'[r].origin = runs[r].origin
  BY ClaimWrites DEF SamePlace
<1>3. /\ t.run \in Ids => /\ runs'[t.run].status = "running" /\ runs'[t.run].attempt \in Nat
                          /\ runs[t.run].status \in {"pending", "running"}
      /\ \A r \in t.hit \ {t.run} :
            runs'[r].status = IF runs[r].status = "cancelling" THEN "cancelled" ELSE "pending"
  BY ClaimWrites
<1>4. /\ tx' = [tx EXCEPT ![s] = NoTx] /\ UNCHANGED <<setup, inbox, asked, up, errors, spent>>
      /\ job' = IF t.run = 0 THEN job ELSE [job EXCEPT ![s] = [run |-> t.run, attempt |-> runs'[t.run].attempt]]
  BY DEF CommitClaim, Goes
<1>5. ASSUME NEW r \in Ids
      PROVE  /\ runs'[r].status = "absent" <=> runs[r].status = "absent"
             /\ runs'[r].status \in {"cancelling", "cancelled"} <=> runs[r].status \in {"cancelling", "cancelled"}
             /\ Active(runs'[r]) => r = t.run \/ (r \notin t.hit /\ Active(runs[r]))
             /\ runs'[r].status \in {"succeeded", "failed", "timed_out"} => runs'[r].status = runs[r].status
  <2>1. CASE r = t.run
    BY <1>3, <2>1
  <2>2. CASE r # t.run /\ r \in t.hit
    <3>1. runs[r].status \in {"running", "cancelling"}
      BY <1>1, <2>2 DEF Active, ACTIVE
    <3>2. runs'[r].status = IF runs[r].status = "cancelling" THEN "cancelled" ELSE "pending"
      BY <1>3, <2>2
    <3> QED
      BY <2>2, <3>1, <3>2 DEF Active, ACTIVE
  <2>3. CASE r # t.run /\ r \notin t.hit
    BY <1>1, <2>3
  <2> QED
    BY <2>1, <2>2, <2>3
<1>6. Existing' = Existing
  BY <1>5 DEF Existing
<1>7. RowsFit'
  <2>1. asked' = {r \in Ids : runs'[r].status \in {"cancelling", "cancelled"}}
    BY <1>4, <1>5 DEF PgInv, RowsFit
  <2>2. \A r \in Ids \ Existing' : runs'[r] = NoRow /\ inbox'[r] = <<>>
    <3>0. \A r \in Ids : r # 0
      BY DEF Ids
    <3>1. \A r \in Ids \ Existing : r # t.run /\ r \notin t.hit
      BY <1>1, <3>0, TxShape
    <3> QED
      BY <1>1, <1>4, <1>6, <3>1 DEF PgInv, RowsFit
  <2> QED
    BY <1>1, <1>4, <2>1, <2>2 DEF PgInv, RowsFit
<1>8. InboxesFit' /\ OpenOnce'
  BY <1>4 DEF PgInv, InboxesFit, IsolationHolds, OneDescendant, OpenOnce
<1>9. JobsFit'
  <2>1. CASE t.run = 0
    BY <1>4, <2>1 DEF PgInv, JobsFit
  <2>2. CASE t.run # 0
    <3> DEFINE n == runs'[t.run].attempt
               j == [run |-> t.run, attempt |-> n]
    <3>1. t.run \in Ids /\ n \in Nat
      BY <1>1, <1>3, <2>2
    <3>2. job' = [job EXCEPT ![s] = j]
      BY <1>4, <2>2
    <3> HIDE DEF n
    <3>3. j \in [run : {0} \cup Ids, attempt : Nat] /\ j.run \in Ids
      BY <3>1
    <3> HIDE DEF j
    <3> QED
      BY <3>2, <3>3 DEF PgInv, JobsFit
  <2> QED
    BY <2>1, <2>2
<1>10. TxsFit'
  <2>1. \A o \in Sessions \ {s} : \A q \in tx[o].locks : q \in Ids /\ q \notin t.locks
    BY TxShape DEF PgInv, TxsFit, LocksExclude
  <2>2. \A o \in Sessions \ {s} : \A q \in tx[o].locks : Agree(runs'[q], runs[q])
    <3>1. ASSUME NEW o \in Sessions \ {s}, NEW q \in tx[o].locks PROVE Agree(runs'[q], runs[q])
      <4>1. q \in Ids /\ q \notin t.locks
        BY <2>1
      <4>2. q # t.run
        <5>1. CASE t.run = 0
          BY <4>1, <5>1 DEF Ids
        <5>2. CASE t.run # 0
          BY <1>1, <4>1, <5>2
        <5> QED
          BY <5>1, <5>2
      <4>3. runs'[q] = runs[q]
        BY <1>1, <4>1, <4>2
      <4> QED
        BY <4>3 DEF Agree
    <3> QED
      BY <3>1
  <2>3. \A q \in Ids : Active(runs'[q]) => Active(runs[q]) \/ (Enters(tx[s]) /\ q = tx[s].run)
    <3>1. ASSUME NEW q \in Ids, Active(runs'[q]), ~Active(runs[q]) PROVE Enters(tx[s]) /\ q = tx[s].run
      <4>1. q = t.run
        BY <1>5, <3>1
      <4>2. q # 0
        BY DEF Ids
      <4> QED
        BY <1>1, <4>1, <4>2 DEF Enters
    <3> QED
      BY <3>1
  <2>4. Considerate(s)
    BY <1>2, <1>6, <2>2, <2>3 DEF Considerate, Existing
  <2> QED
    BY <1>4, <1>7, <2>4, TxsWrite DEF PgInv
<1>11. RoomFits'
  <2>1. tx'[s] = NoTx /\ \A o \in Sessions \ {s} : tx'[o] = tx[o]
    BY <1>4 DEF PgInv, TxsFit
  <2>2. Creating' = Creating
    BY <1>1, <2>1 DEF Creating, NoTx
  <2> QED
    BY <1>4, <1>6, <2>2 DEF PgInv, RoomFits
<1>12. OneActivePerThread'
  <2> SUFFICES ASSUME NEW r \in Ids, NEW q \in Ids, r # q, runs'[r].thread = runs'[q].thread,
                      runs'[r].thread # NoThread, Active(runs'[r]), Active(runs'[q])
               PROVE  FALSE
    BY DEF OneActivePerThread
  <2>1. runs[r].thread = runs[q].thread /\ runs[r].thread # NoThread
    BY <1>2
  <2>2. ASSUME NEW p \in Ids, p # t.run, t.run \in Ids, runs[p].thread = runs[t.run].thread,
               runs[p].thread # NoThread
        PROVE  ~Active(runs'[p])
    <3>1. p \in Rivals(t) /\ t.run # 0
      BY <2>2 DEF Rivals, Ids
    <3>2. ~Active(Seen(t, p))
      BY <1>1, <3>1, ClaimFacts
    <3>3. p \notin t.hit => ~Active(runs[p])
      BY <3>2 DEF Seen
    <3> QED
      BY <1>5, <2>2, <3>3
  <2>3. CASE r = t.run
    BY <2>1, <2>2, <2>3
  <2>4. CASE q = t.run
    BY <2>1, <2>2, <2>4
  <2>5. CASE r # t.run /\ q # t.run
    <3>1. Active(runs[r]) /\ Active(runs[q])
      BY <1>5, <2>5
    <3> QED
      BY <2>1, <3>1 DEF PgInv, IsolationHolds, OneActivePerThread
  <2> QED
    BY <2>3, <2>4, <2>5
<1>13. KeysAreIdempotent'
  BY <1>2, <1>4, <1>6 DEF PgInv, IsolationHolds, KeysAreIdempotent, Existing
<1>14. SuccessorsMatch'
  <2>1. \A q \in Ids : runs[q].origin \in {0} \cup Ids
    BY <1>1 DEF Row
  <2> QED
    BY <1>2, <1>6, <2>1 DEF PgInv, IsolationHolds, OneDescendant, SuccessorsMatch, Existing
<1>15. LeftEmpty'
  <2>1. \A q \in Ids : Pending(q)' = Pending(q)
    BY <1>4 DEF Pending
  <2>2. ASSUME NEW q \in Ids,
               runs'[q].successor # 0 \/ runs'[q].status \in {"succeeded", "failed", "timed_out"}
        PROVE  Pending(q) = {}
    <3>1. runs[q].successor # 0 \/ runs[q].status \in {"succeeded", "failed", "timed_out"}
      BY <1>2, <1>5, <2>2
    <3> QED
      BY <3>1 DEF PgInv, IsolationHolds, OneDescendant, LeftEmpty
  <2> QED
    BY <2>1, <2>2 DEF LeftEmpty
<1> QED
  BY <1>7, <1>8, <1>9, <1>10, <1>11, <1>12, <1>13, <1>14, <1>15 DEF PgInv, IsolationHolds, OneDescendant

\* What a continued run leaves to the new one, in its order.
LEMMA MovedFits ==
  ASSUME InboxesFit, NEW r \in Ids
  PROVE  \E n \in Nat : \E f \in [1 .. n -> Pending(r)] :
           /\ Moved(r) \in Seq(Item) /\ DOMAIN Moved(r) = 1 .. n
           /\ \A i \in 1 .. n : Moved(r)[i] = inbox[r][f[i]]
           /\ \A i, j \in 1 .. n : f[i] = f[j] => i = j
<1> DEFINE P == Pending(r)
           n == Cardinality(P)
           f == InOrder(P)
           old == inbox[r]
<1>1. old \in Seq(Item) /\ Len(old) \in Nat /\ DOMAIN old = 1 .. Len(old)
  BY LenProperties DEF InboxesFit
<1>2. P \in SUBSET Nat /\ IsFiniteSet(P) /\ P \subseteq DOMAIN old
  <2>1. P \subseteq DOMAIN old
    BY DEF Pending
  <2>2. IsFiniteSet(1 .. Len(old))
    BY <1>1, FS_Interval
  <2>3. IsFiniteSet(P)
    BY <1>1, <2>1, <2>2, FS_Subset
  <2> QED
    BY <1>1, <2>1, <2>3
<1>3. n \in Nat
  BY <1>2, FS_CardinalityType
<1> HIDE DEF P
<1>4. Sorted(f, n, P)
  BY <1>2, InOrderIsSorted
<1>5. f \in [1 .. n -> P] /\ \A i, j \in 1 .. n : i < j => f[i] < f[j]
  BY <1>4 DEF Sorted
<1> HIDE DEF n, f
<1>6. DOMAIN f = 1 .. n
  BY <1>5
<1>7. Moved(r) = [i \in 1 .. n |-> old[f[i]]]
  BY <1>6 DEF Moved, P, f
<1>8. \A i \in 1 .. n : old[f[i]] \in Item
  <2>1. \A k \in DOMAIN old : old[k] \in Item
    BY <1>1, ElementOfSeq
  <2> QED
    BY <1>2, <1>5, <2>1
<1>9. Moved(r) \in Seq(Item) /\ DOMAIN Moved(r) = 1 .. n
  <2> DEFINE b == [i \in 1 .. n |-> old[f[i]]]
  <2>1. b \in [1 .. n -> Item]
    BY <1>8
  <2> HIDE DEF b
  <2>2. b \in Seq(Item) /\ DOMAIN b = 1 .. n
    BY <1>3, <2>1, FcnIsSeq
  <2> QED
    BY <1>7, <2>2 DEF b
<1>10. \A i, j \in 1 .. n : f[i] = f[j] => i = j
  <2> SUFFICES ASSUME NEW i \in 1 .. n, NEW j \in 1 .. n, f[i] = f[j] PROVE i = j
    OBVIOUS
  <2>1. f[i] \in Nat /\ f[j] \in Nat
    BY <1>2, <1>5
  <2>2. ~(i < j) /\ ~(j < i)
    BY <1>5, <2>1
  <2> QED
    BY <1>3, <2>2
<1>11. \A i \in 1 .. n : Moved(r)[i] = inbox[r][f[i]]
  BY <1>7
<1> QED
  BY <1>3, <1>5, <1>9, <1>10, <1>11 DEF P

\* An entry goes on in one place when it moves.
LEMMA MoveFits ==
  ASSUME InboxesFit, OpenOnce, NEW old \in Ids, NEW new \in Ids, new # old, inbox[new] = <<>>,
         inbox' = InboxMoved(old, new)
  PROVE  /\ InboxesFit' /\ OpenOnce'
         /\ \A i \in DOMAIN inbox'[old] : inbox'[old][i].state # "pending"
         /\ \A q \in Ids \ {old, new} : inbox'[q] = inbox[q]
<1> DEFINE P == Pending(old)
           d == Disposed(old, P, "superseded")
           b == Moved(old)
<1>0. PICK n \in Nat : \E f \in [1 .. n -> P] :
        /\ b \in Seq(Item) /\ DOMAIN b = 1 .. n
        /\ \A i \in 1 .. n : b[i] = inbox[old][f[i]]
        /\ \A i, j \in 1 .. n : f[i] = f[j] => i = j
  BY MovedFits
<1>1. PICK f \in [1 .. n -> P] :
        /\ b \in Seq(Item) /\ DOMAIN b = 1 .. n
        /\ \A i \in 1 .. n : b[i] = inbox[old][f[i]]
        /\ \A i, j \in 1 .. n : f[i] = f[j] => i = j
  BY <1>0
<1>2. /\ d \in Seq(Item) /\ DOMAIN d = DOMAIN inbox[old]
      /\ \A i \in DOMAIN inbox[old] : d[i].source = inbox[old][i].source
      /\ \A i \in DOMAIN inbox[old] : d[i].state = IF i \in P THEN "superseded" ELSE inbox[old][i].state
  BY DisposedFits DEF Grown
<1>3. \A i \in P : i \in DOMAIN inbox[old] /\ inbox[old][i].state = "pending"
  BY DEF Pending
<1>4. inbox' = [inbox EXCEPT ![new] = b, ![old] = d] /\ inbox \in [Ids -> Seq(Item)]
  BY DEF InboxMoved, InboxesFit
<1> HIDE DEF P, d, b
<1>5. /\ inbox'[new] = b /\ inbox'[old] = d /\ inbox' \in [Ids -> Seq(Item)]
      /\ \A q \in Ids \ {old, new} : inbox'[q] = inbox[q]
  BY <1>1, <1>2, <1>4
<1>6. DOMAIN inbox[new] = {}
  BY EmptySeq
<1>7. \A q \in Ids : DOMAIN inbox[q] \subseteq DOMAIN inbox'[q]
  BY <1>2, <1>5, <1>6
<1>8. ASSUME NEW q \in Ids, NEW i \in DOMAIN inbox[q]
      PROVE  /\ inbox[q][i].source[1] \in Ids
             /\ inbox[q][i].source[2] \in DOMAIN inbox[inbox[q][i].source[1]]
  <2>1. inbox[q][i] \in Item
    BY <1>4, <1>8, ElementOfSeq, LenProperties
  <2> QED
    BY <1>8, <2>1 DEF Item, InboxesFit
\* Where an entry was before.
<1>9. ASSUME NEW q \in Ids, NEW i \in DOMAIN inbox'[q]
      PROVE  \/ q = new /\ i \in 1 .. n /\ f[i] \in P /\ inbox'[q][i] = inbox[old][f[i]]
             \/ /\ q = old /\ i \in DOMAIN inbox[old] /\ inbox'[q][i].source = inbox[old][i].source
                /\ inbox'[q][i].state = IF i \in P THEN "superseded" ELSE inbox[old][i].state
             \/ q \notin {old, new} /\ i \in DOMAIN inbox[q] /\ inbox'[q][i] = inbox[q][i]
  <2>1. CASE q = new
    BY <1>1, <1>5, <1>9, <2>1
  <2>2. CASE q = old
    BY <1>2, <1>5, <1>9, <2>2
  <2>3. CASE q \notin {old, new}
    BY <1>5, <1>9, <2>3
  <2> QED
    BY <2>1, <2>2, <2>3
<1>10. InboxesFit'
  <2>1. ASSUME NEW q \in Ids, NEW i \in DOMAIN inbox'[q]
        PROVE  inbox'[q][i].source[2] \in DOMAIN inbox'[inbox'[q][i].source[1]]
    <3>1. \E p \in Ids : \E k \in DOMAIN inbox[p] : inbox'[q][i].source = inbox[p][k].source
      <4>1. CASE q = new /\ i \in 1 .. n /\ f[i] \in P /\ inbox'[q][i] = inbox[old][f[i]]
        <5>1. f[i] \in DOMAIN inbox[old] /\ inbox'[q][i].source = inbox[old][f[i]].source
          BY <1>3, <4>1
        <5> QED
          BY <5>1
      <4>2. CASE q = old /\ i \in DOMAIN inbox[old] /\ inbox'[q][i].source = inbox[old][i].source
        BY <4>2
      <4>3. CASE q \notin {old, new} /\ i \in DOMAIN inbox[q] /\ inbox'[q][i] = inbox[q][i]
        BY <2>1, <4>3
      <4> QED
        BY <1>9, <2>1, <4>1, <4>2, <4>3
    <3>2. PICK p \in Ids : \E k \in DOMAIN inbox[p] : inbox'[q][i].source = inbox[p][k].source
      BY <3>1
    <3>3. PICK k \in DOMAIN inbox[p] : inbox'[q][i].source = inbox[p][k].source
      BY <3>2
    <3> QED
      BY <1>7, <1>8, <3>3
  <2> QED
    BY <1>5, <2>1 DEF InboxesFit
<1>11. OpenOnce'
  <2> SUFFICES ASSUME NEW p \in Ids, NEW q \in Ids, NEW i \in DOMAIN inbox'[p], NEW j \in DOMAIN inbox'[q],
                      inbox'[p][i].source = inbox'[q][j].source,
                      inbox'[p][i].state # "superseded", inbox'[q][j].state # "superseded"
               PROVE  p = q /\ i = j
    BY DEF OpenOnce
  \* The place an open entry was at, and whether it was pending in old.
  <2> DEFINE From(x, k, y, l) ==
               /\ y \in Ids /\ l \in DOMAIN inbox[y]
               /\ inbox'[x][k].source = inbox[y][l].source /\ inbox[y][l].state # "superseded"
               /\ \/ x = new /\ y = old /\ l \in P /\ k \in 1 .. n /\ f[k] = l
                  \/ x # new /\ y = x /\ l = k /\ ~(y = old /\ l \in P)
  <2>1. ASSUME NEW x \in Ids, NEW k \in DOMAIN inbox'[x], inbox'[x][k].state # "superseded"
        PROVE  \E y, l : From(x, k, y, l)
    <3>1. CASE x = new /\ k \in 1 .. n /\ f[k] \in P /\ inbox'[x][k] = inbox[old][f[k]]
      <4>1. From(x, k, old, f[k])
        BY <1>3, <3>1
      <4> QED
        BY <4>1
    <3>2. CASE /\ x = old /\ k \in DOMAIN inbox[old] /\ inbox'[x][k].source = inbox[old][k].source
               /\ inbox'[x][k].state = IF k \in P THEN "superseded" ELSE inbox[old][k].state
      <4>1. From(x, k, x, k)
        BY <2>1, <3>2
      <4> QED
        BY <4>1
    <3>3. CASE x \notin {old, new} /\ k \in DOMAIN inbox[x] /\ inbox'[x][k] = inbox[x][k]
      <4>1. From(x, k, x, k)
        BY <2>1, <3>3
      <4> QED
        BY <4>1
    <3> QED
      BY <1>9, <2>1, <3>1, <3>2, <3>3
  <2>2. PICK y, l : From(p, i, y, l)
    BY <2>1
  <2>3. PICK z, m : From(q, j, z, m)
    BY <2>1
  <2>4. y = z /\ l = m
    <3>1. /\ y \in Ids /\ z \in Ids /\ l \in DOMAIN inbox[y] /\ m \in DOMAIN inbox[z]
          /\ inbox[y][l].source = inbox[z][m].source
          /\ inbox[y][l].state # "superseded" /\ inbox[z][m].state # "superseded"
      BY <2>2, <2>3
    <3> HIDE DEF From
    <3> QED
      BY <3>1 DEF OpenOnce
  <2> QED
    BY <1>1, <2>2, <2>3, <2>4
<1>12. \A i \in DOMAIN inbox'[old] : inbox'[old][i].state # "pending"
  <2>1. \A i \in DOMAIN inbox[old] : i \notin P => inbox[old][i].state # "pending"
    BY DEF P, Pending
  <2> QED
    BY <1>2, <1>5, <2>1
<1> QED
  BY <1>5, <1>10, <1>11, <1>12

\* What a request writes that creates the run new: it asks the runs in stopped
\* to be cancelled, and links the run it continues.
Continued(t) == IF t.op = "resume" THEN {t.run} ELSE {}
Inserted(t, new, stopped) ==
  /\ t.op \in {"create", "resume"}
  /\ runs \in [Ids -> Row] /\ runs' \in [Ids -> Row]
  /\ new \in Ids \ Existing /\ stopped \subseteq t.locks /\ stopped \subseteq Existing
  /\ Continued(t) \subseteq Existing /\ Continued(t) \subseteq t.locks
  /\ runs'[new].status = "pending" /\ runs'[new].successor = 0
  /\ runs'[new].key = t.arg.key /\ runs'[new].thread = t.arg.thread
  /\ runs'[new].origin = IF t.op = "resume" THEN t.run ELSE 0
  /\ t.op = "resume" => t.arg.key = NoKey
  /\ t.arg.key # NoKey => \A r \in Existing : runs[r].key # t.arg.key
  /\ \A r \in stopped : /\ runs[r].status = "running" /\ runs'[r].status = "cancelling"
                        /\ SamePlace(runs'[r], runs[r])
  /\ \A r \in Continued(t) : /\ runs[r].status = "paused" /\ runs[r].successor = 0
                             /\ runs'[r] = [runs[r] EXCEPT !.successor = new]
  /\ \A r \in Ids \ ({new} \cup stopped \cup Continued(t)) : runs'[r] = runs[r]
  /\ inbox' = IF t.op = "resume" THEN InboxMoved(t.run, new) ELSE inbox
  /\ asked' = asked \cup stopped

\* A request that inserts a run finds an identity for it.
LEMMA RoomLeft ==
  ASSUME PgInv, NEW s \in Creating
  PROVE  Ids \ Existing # {}
<1>1. IsFiniteSet(Creating) /\ IsFiniteSet(Existing)
  BY CreatingIsFinite
<1>2. Cardinality(Creating) \in Nat /\ Cardinality(Existing) \in Nat /\ Cardinality(Creating) # 0
  BY <1>1, FS_CardinalityType, FS_EmptySet
<1>3. setup.runs \in 0 .. MaxRuns /\ MaxRuns \in Nat
  BY PgAssumption DEF PgInv, RowsFit
<1>4. Cardinality(Existing) < MaxRuns
  BY <1>2, <1>3 DEF PgInv, RoomFits
<1>5. Cardinality(Ids) = MaxRuns
  BY <1>3, FS_Interval DEF Ids
<1>6. Existing \subseteq Ids
  BY DEF Existing
<1>7. Existing # Ids
  BY <1>2, <1>3, <1>4, <1>5
<1> QED
  BY <1>6, <1>7

LEMMA InsertWrites ==
  ASSUME PgInv, NEW s \in Sessions, Insert(s)
  PROVE  /\ \E new, stopped : Inserted(tx[s], new, stopped)
         /\ tx' = [tx EXCEPT ![s] = NoTx] /\ UNCHANGED <<setup, job, up, spent, errors>>
<1> DEFINE t == tx[s]
           new == Least(Ids \ Existing)
           stopped == {r \in t.hit : t.arg.mode = "cancel_previous" /\ runs[r].status = "running"}
<1>1. /\ TxFits(t) /\ t.locks \subseteq Existing /\ t.hit \subseteq t.locks /\ Existing \subseteq Ids
      /\ runs \in [Ids -> Row]
  BY TxShape DEF PgInv, RowsFit
<1>2. t.phase = "thread" /\ t.op \in {"create", "resume"}
  <2>1. t.phase = "thread"
    BY DEF Insert
  <2> QED
    BY <1>1, <2>1, PhaseTells
<1>3. t.op = "create" => /\ t.arg.thread \in Threads /\ t.arg.key \in Keys
                         /\ t.arg.key # NoKey => \A r \in Existing : runs[r].key # t.arg.key
  BY <1>1, <1>2 DEF TxFits, CreateFits
<1>4. t.op = "resume" => /\ t.run \in Existing /\ t.run \in t.locks /\ Resumable(runs[t.run])
                         /\ t.arg.thread = runs[t.run].thread /\ t.arg.key = NoKey
  BY <1>1, <1>2 DEF TxFits, ResumeFits
<1>5. t.arg.thread \in Threads \cup {NoThread} /\ t.arg.key \in Keys
  <2>1. CASE t.op = "create"
    BY <1>3, <2>1
  <2>2. CASE t.op = "resume"
    <3>1. runs[t.run] \in Row
      BY <1>1, <1>4, <2>2
    <3> QED
      BY <1>4, <2>2, <3>1 DEF Row, Keys
  <2> QED
    BY <1>2, <2>1, <2>2
<1>6. new \in Ids \ Existing
  <2>1. s \in Creating
    BY <1>2 DEF Creating
  <2>2. Ids \ Existing # {}
    BY <2>1, RoomLeft
  <2> QED
    BY <2>2, LeastIn
<1>7. ~Duplicate(t)
  BY <1>2, <1>3, <1>4 DEF Duplicate
<1>8. /\ runs' = [r \in Ids |->
             CASE r = new -> NewRun(t)
               [] r \in stopped -> [runs[r] EXCEPT !.status = "cancelling"]
               [] t.op = "resume" /\ r = t.run -> [runs[r] EXCEPT !.successor = new]
               [] OTHER -> runs[r]]
      /\ inbox' = IF t.op = "resume" THEN InboxMoved(t.run, new) ELSE inbox
      /\ asked' = asked \cup stopped
      /\ tx' = [tx EXCEPT ![s] = NoTx] /\ UNCHANGED <<setup, job, up, spent, errors>>
  BY <1>7 DEF Insert, Goes
<1>9. /\ stopped \subseteq t.locks /\ stopped \subseteq Existing
      /\ \A r \in stopped : runs[r].status = "running"
  BY <1>1
<1> HIDE DEF new, stopped
<1>10. Continued(t) \subseteq Existing /\ Continued(t) \subseteq t.locks
  BY <1>4 DEF Continued
<1>11. NewRun(t) = [status |-> "pending", thread |-> t.arg.thread, key |-> t.arg.key, owner |-> Nobody,
                    lapsed |-> FALSE, attempt |-> 0, closed |-> FALSE, successor |-> 0,
                    origin |-> IF t.op = "resume" THEN t.run ELSE 0]
  <2> DEFINE origin == IF t.op = "resume" THEN t.run ELSE 0
             thread == t.arg.thread
             key == t.arg.key
  <2>1. NewRun(t) = [NoRow EXCEPT !.status = "pending", !.thread = thread, !.key = key, !.origin = origin]
    BY DEF NewRun
  <2> HIDE DEF t, origin, thread, key
  <2>2. PICK u : u = [NoRow EXCEPT !.status = "pending", !.thread = thread, !.key = key, !.origin = origin]
    OBVIOUS
  <2>3. u = [status |-> "pending", thread |-> thread, key |-> key, owner |-> Nobody,
             lapsed |-> FALSE, attempt |-> 0, closed |-> FALSE, successor |-> 0, origin |-> origin]
    BY <2>2 DEF NoRow
  <2> QED
    BY <2>1, <2>2, <2>3 DEF origin, thread, key
<1>12. NewRun(t) \in Row
  <2>1. (IF t.op = "resume" THEN t.run ELSE 0) \in {0} \cup Ids
    BY <1>1, <1>4
  <2> QED
    BY <1>5, <1>11, <2>1 DEF Row, Statuses
<1>13. runs'[new] = NewRun(t)
  <2>1. new \in Ids /\ new \notin stopped /\ ~(t.op = "resume" /\ new = t.run)
    BY <1>4, <1>6, <1>9
  <2> QED
    BY <1>8, <2>1
<1>14. ASSUME NEW r \in stopped
       PROVE  /\ runs'[r] \in Row /\ runs'[r].status = "cancelling" /\ SamePlace(runs'[r], runs[r])
  <2>1. r \in Ids /\ r # new /\ runs[r] \in Row
    BY <1>1, <1>6, <1>9
  <2>2. ~(t.op = "resume" /\ r = t.run)
    BY <1>4, <1>9 DEF Resumable
  <2>3. runs'[r] = [runs[r] EXCEPT !.status = "cancelling"]
    BY <1>8, <2>1, <2>2
  <2> QED
    BY <2>1, <2>3 DEF Row, SamePlace, Statuses, ACTIVE
<1>15. ASSUME NEW r \in Continued(t)
       PROVE  /\ runs[r].status = "paused" /\ runs[r].successor = 0
              /\ runs'[r] = [runs[r] EXCEPT !.successor = new] /\ runs'[r] \in Row
  <2>1. t.op = "resume" /\ r = t.run
    BY DEF Continued
  <2>2. runs[r].status = "paused" /\ runs[r].successor = 0
    BY <1>4, <2>1 DEF Resumable
  <2>3. r \in Ids /\ r # new /\ r \notin stopped /\ runs[r] \in Row
    BY <1>1, <1>4, <1>6, <1>9, <2>1, <2>2
  <2>4. runs'[r] = [runs[r] EXCEPT !.successor = new]
    BY <1>8, <2>1, <2>3
  <2>5. [runs[r] EXCEPT !.successor = new] \in Row
    BY <1>6, <2>3 DEF Row
  <2> QED
    BY <2>2, <2>4, <2>5
<1>16. \A r \in Ids \ ({new} \cup stopped \cup Continued(t)) : runs'[r] = runs[r]
  BY <1>8 DEF Continued
<1>17. runs' \in [Ids -> Row]
  <2>1. ASSUME NEW r \in Ids PROVE runs'[r] \in Row
    BY <1>1, <1>12, <1>13, <1>14, <1>15, <1>16
  <2>2. runs' = [r \in Ids |-> runs'[r]]
    BY <1>8
  <2> QED
    BY <2>1, <2>2
<1>18. /\ runs'[new].status = "pending" /\ runs'[new].successor = 0
       /\ runs'[new].key = t.arg.key /\ runs'[new].thread = t.arg.thread
       /\ runs'[new].origin = IF t.op = "resume" THEN t.run ELSE 0
  BY <1>11, <1>13
<1>19. t.arg.key # NoKey => \A r \in Existing : runs[r].key # t.arg.key
  BY <1>2, <1>3, <1>4
<1>20. Inserted(t, new, stopped)
  BY <1>1, <1>2, <1>4, <1>6, <1>8, <1>9, <1>10, <1>14, <1>15, <1>16, <1>17, <1>18, <1>19 DEF Inserted
<1> QED
  BY <1>8, <1>20

LEMMA InsertKeeps ==
  ASSUME PgInv, NEW s \in Sessions, Insert(s)
  PROVE  PgInv'
<1> DEFINE t == tx[s]
<1>1. PICK new, stopped : Inserted(t, new, stopped)
  BY InsertWrites
<1>2. tx' = [tx EXCEPT ![s] = NoTx] /\ UNCHANGED <<setup, job, up, spent, errors>>
  BY InsertWrites
<1> DEFINE old == Continued(t)
<1>3. /\ t.op \in {"create", "resume"}
      /\ runs \in [Ids -> Row] /\ runs' \in [Ids -> Row]
      /\ new \in Ids \ Existing /\ stopped \subseteq t.locks /\ stopped \subseteq Existing
      /\ old \subseteq Existing /\ old \subseteq t.locks /\ Existing \subseteq Ids
  BY <1>1, TxShape DEF Inserted
<1>4. /\ runs'[new].status = "pending" /\ runs'[new].successor = 0
      /\ runs'[new].key = t.arg.key /\ runs'[new].thread = t.arg.thread
      /\ runs'[new].origin = IF t.op = "resume" THEN t.run ELSE 0
      /\ t.op = "resume" => t.arg.key = NoKey
      /\ t.arg.key # NoKey => \A r \in Existing : runs[r].key # t.arg.key
  BY <1>1 DEF Inserted
<1>5. \A r \in stopped : /\ runs[r].status = "running" /\ runs'[r].status = "cancelling"
                         /\ runs'[r].thread = runs[r].thread /\ runs'[r].key = runs[r].key
                         /\ runs'[r].successor = runs[r].successor /\ runs'[r].origin = runs[r].origin
  BY <1>1 DEF Inserted, SamePlace
<1>6. ASSUME NEW r \in old
      PROVE  /\ runs[r].status = "paused" /\ runs[r].successor = 0 /\ runs'[r].successor = new
             /\ runs'[r].status = "paused" /\ runs'[r].thread = runs[r].thread
             /\ runs'[r].key = runs[r].key /\ runs'[r].origin = runs[r].origin
  <2>1. runs[r].status = "paused" /\ runs[r].successor = 0 /\ runs'[r] = [runs[r] EXCEPT !.successor = new]
    BY <1>1, <1>6 DEF Inserted
  <2>2. runs[r] \in Row
    BY <1>3, <1>6
  <2> QED
    BY <2>1, <2>2 DEF Row
<1>7. /\ \A r \in Ids \ ({new} \cup stopped \cup old) : runs'[r] = runs[r]
      /\ inbox' = IF t.op = "resume" THEN InboxMoved(t.run, new) ELSE inbox
      /\ asked' = asked \cup stopped
  BY <1>1 DEF Inserted
<1>8. t.op = "resume" => old = {t.run}
  BY DEF Continued
<1>9. t.op = "create" => old = {}
  BY DEF Continued
<1> HIDE DEF old
<1>10. runs[new] = NoRow /\ runs[new].status = "absent" /\ inbox[new] = <<>> /\ new # 0
  BY <1>3 DEF PgInv, RowsFit, NoRow, Ids
<1>11. ASSUME NEW r \in Ids \ {new}
       PROVE  /\ runs'[r].status = IF r \in stopped THEN "cancelling" ELSE runs[r].status
              /\ runs'[r].thread = runs[r].thread /\ runs'[r].key = runs[r].key
              /\ runs'[r].origin = runs[r].origin
              /\ runs'[r].successor = IF r \in old THEN new ELSE runs[r].successor
              /\ r \notin stopped \/ r \notin old
              /\ Active(runs'[r]) <=> Active(runs[r])
  <2>1. CASE r \in stopped
    BY <1>5, <1>6, <1>11, <2>1 DEF Active, ACTIVE
  <2>2. CASE r \in old
    BY <1>5, <1>6, <1>11, <2>2 DEF Active, ACTIVE
  <2>3. CASE r \notin stopped \cup old
    BY <1>7, <1>11, <2>3
  <2> QED
    BY <2>1, <2>2, <2>3
<1>12. Existing' = Existing \cup {new} /\ new \notin Existing
  <2>1. \A r \in Ids \ {new} : runs'[r].status = "absent" <=> runs[r].status = "absent"
    BY <1>5, <1>11
  <2> QED
    BY <1>3, <1>4, <2>1 DEF Existing
<1>13. ~Active(runs'[new])
  BY <1>4 DEF Active, ACTIVE
<1>14. /\ InboxesFit' /\ OpenOnce'
       /\ \A q \in Ids \ ({new} \cup old) : inbox'[q] = inbox[q]
       /\ \A q \in old : \A i \in DOMAIN inbox'[q] : inbox'[q][i].state # "pending"
  <2>1. InboxesFit /\ OpenOnce
    BY DEF PgInv, IsolationHolds, OneDescendant
  <2>2. CASE t.op = "resume"
    <3> DEFINE r == t.run
    <3>1. r \in Ids /\ r # new /\ inbox' = InboxMoved(r, new)
      BY <1>3, <1>7, <1>8, <2>2
    <3> HIDE DEF r
    <3>2. /\ InboxesFit' /\ OpenOnce'
          /\ \A i \in DOMAIN inbox'[r] : inbox'[r][i].state # "pending"
          /\ \A q \in Ids \ {r, new} : inbox'[q] = inbox[q]
      BY <1>3, <1>10, <2>1, <3>1, MoveFits
    <3>3. old = {r}
      BY <1>8, <2>2 DEF r
    <3> QED
      BY <3>2, <3>3
  <2>3. CASE t.op = "create"
    BY <1>7, <1>9, <2>1, <2>3 DEF InboxesFit, OpenOnce
  <2> QED
    BY <1>3, <2>2, <2>3
<1>15. RowsFit'
  <2>1. asked' = {r \in Ids : runs'[r].status \in {"cancelling", "cancelled"}}
    <3>1. asked = {r \in Ids : runs[r].status \in {"cancelling", "cancelled"}}
      BY DEF PgInv, RowsFit
    <3>2. ASSUME NEW r \in Ids PROVE r \in asked' <=> runs'[r].status \in {"cancelling", "cancelled"}
      <4>1. CASE r = new
        <5>1. r \notin asked /\ r \notin stopped
          BY <1>3, <1>10, <3>1, <4>1
        <5> QED
          BY <1>4, <1>7, <4>1, <5>1
      <4>2. CASE r # new
        BY <1>7, <1>11, <3>1, <4>2
      <4> QED
        BY <4>1, <4>2
    <3>3. asked' \subseteq Ids
      BY <1>3, <1>7, <3>1
    <3> QED
      BY <3>2, <3>3
  <2>2. \A r \in Ids \ Existing' : runs'[r] = NoRow /\ inbox'[r] = <<>>
    <3>1. ASSUME NEW r \in Ids \ Existing'
          PROVE  r \notin {new} \cup stopped \cup old /\ r \notin Existing
      BY <1>3, <1>12, <3>1
    <3>2. \A r \in Ids \ Existing : runs[r] = NoRow /\ inbox[r] = <<>>
      BY DEF PgInv, RowsFit
    <3> QED
      BY <1>7, <1>14, <3>1, <3>2
  <2>3. setup' \in Setups
    BY <1>2 DEF PgInv, RowsFit
  <2> QED
    BY <1>3, <2>1, <2>2, <2>3 DEF RowsFit
<1>16. JobsFit'
  BY <1>2 DEF PgInv, JobsFit
<1>17. TxsFit'
  <2>1. ASSUME NEW o \in Sessions \ {s}, NEW q \in tx[o].locks PROVE Agree(runs'[q], runs[q])
    <3>1. tx[o].locks \cap tx[s].locks = {}
      BY <2>1 DEF PgInv, TxsFit, LocksExclude
    <3>2. q \in Existing
      BY <2>1, TxShape
    <3>3. q \notin stopped /\ q \notin old
      BY <1>3, <2>1, <3>1
    <3>4. q \in Ids \ ({new} \cup stopped \cup old)
      BY <1>3, <3>2, <3>3
    <3> QED
      BY <1>7, <3>4 DEF Agree
  <2>2. \A r \in Existing : r \in Existing' /\ runs'[r].thread = runs[r].thread /\ runs'[r].key = runs[r].key
    BY <1>3, <1>11, <1>12
  <2>3. \A r \in Existing' \ Existing : runs'[r].key = NoKey \/ (KeyHeld(tx[s]) /\ runs'[r].key = tx[s].arg.key)
    <3>1. KeyHeld(t) \/ t.arg.key = NoKey
      <4>1. t.phase # "key"
        BY DEF Insert
      <4> QED
        BY <1>3, <1>4, <4>1 DEF KeyHeld
    <3> QED
      BY <1>4, <1>12, <3>1
  <2>4. \A r \in Ids : Active(runs'[r]) => Active(runs[r]) \/ (Enters(tx[s]) /\ r = tx[s].run)
    BY <1>11, <1>13
  <2>5. Considerate(s)
    BY <2>1, <2>2, <2>3, <2>4 DEF Considerate
  <2> QED
    BY <1>2, <1>15, <2>5, TxsWrite DEF PgInv
<1>18. RoomFits'
  <2>1. IsFiniteSet(Creating) /\ IsFiniteSet(Existing)
    BY CreatingIsFinite
  <2>2. tx'[s] = NoTx /\ \A o \in Sessions \ {s} : tx'[o] = tx[o]
    BY <1>2 DEF PgInv, TxsFit
  <2>3. Creating' = Creating \ {s} /\ s \in Creating
    BY <1>3, <2>2 DEF Creating, NoTx
  <2>4. Cardinality(Creating') = Cardinality(Creating) - 1
    BY <2>1, <2>3, FS_RemoveElement
  <2>5. Cardinality(Existing') = Cardinality(Existing) + 1
    BY <1>12, <2>1, FS_AddElement
  <2>6. Cardinality(Creating) \in Nat /\ Cardinality(Existing) \in Nat /\ setup.runs \in 0 .. MaxRuns
    BY <2>1, FS_CardinalityType, PgAssumption DEF PgInv, RowsFit
  <2>7. Cardinality(Existing) + Cardinality(Creating) <= setup.runs
    BY DEF PgInv, RoomFits
  <2>8. setup' = setup
    BY <1>2
  <2>9. Cardinality(Existing') + Cardinality(Creating') <= setup'.runs
    BY <2>4, <2>5, <2>6, <2>7, <2>8, PgAssumption
  <2> QED
    BY <2>9 DEF RoomFits
<1>19. OneActivePerThread'
  <2>1. ASSUME NEW q \in Ids, Active(runs'[q])
        PROVE  runs'[q].thread = runs[q].thread /\ Active(runs[q])
    BY <1>11, <1>13, <2>1
  <2> QED
    BY <2>1 DEF PgInv, IsolationHolds, OneActivePerThread
<1>20. KeysAreIdempotent'
  <2>1. ASSUME NEW r \in Existing', NEW q \in Existing', runs'[r].key = runs'[q].key, runs'[r].key # NoKey
        PROVE  r = q
    <3>1. \A p \in Existing : runs'[p].key = runs[p].key
      BY <1>3, <1>11, <1>12
    <3>2. CASE r \in Existing /\ q \in Existing
      BY <2>1, <3>1, <3>2 DEF PgInv, IsolationHolds, KeysAreIdempotent
    <3>3. CASE r = new
      BY <1>4, <1>12, <2>1, <3>1, <3>3
    <3>4. CASE q = new
      BY <1>4, <1>12, <2>1, <3>1, <3>4
    <3> QED
      BY <1>12, <3>2, <3>3, <3>4
  <2> QED
    BY <1>2, <2>1 DEF PgInv, IsolationHolds, KeysAreIdempotent
<1>21. SuccessorsMatch'
  <2>1. ASSUME NEW r \in Existing', runs'[r].origin # 0
        PROVE  runs'[runs'[r].origin].successor = r
    <3>1. CASE r = new
      <4>1. t.op = "resume" /\ runs'[r].origin = t.run /\ t.run \in old
        BY <1>4, <1>8, <2>1, <3>1
      <4> QED
        BY <1>6, <3>1, <4>1
    <3>2. CASE r # new
      <4> DEFINE p == runs[r].origin
      <4>1. r \in Existing /\ r \in Ids /\ runs'[r].origin = p
        BY <1>3, <1>11, <1>12, <3>2
      <4>2. runs[r] \in Row /\ p # 0
        BY <1>3, <2>1, <4>1
      <4>3. p \in Ids
        BY <4>2 DEF Row
      <4>4. runs[p].successor = r
        BY <4>1, <4>2 DEF PgInv, IsolationHolds, OneDescendant, SuccessorsMatch
      <4> HIDE DEF p
      <4>5. r # 0
        BY <4>1 DEF Ids
      <4>6. p \notin old /\ p # new
        BY <1>6, <1>10, <4>4, <4>5 DEF NoRow
      <4> QED
        BY <1>11, <4>1, <4>3, <4>4, <4>6
    <3> QED
      BY <3>1, <3>2
  <2> QED
    BY <2>1 DEF SuccessorsMatch
<1>22. LeftEmpty'
  <2>1. ASSUME NEW r \in Ids,
               runs'[r].successor # 0 \/ runs'[r].status \in {"succeeded", "failed", "timed_out"}
        PROVE  Pending(r)' = {}
    <3>1. r # new
      BY <1>4, <2>1
    <3>2. CASE r \in old
      BY <1>14, <3>2 DEF Pending
    <3>3. CASE r \notin old
      <4>1. runs[r].successor # 0 \/ runs[r].status \in {"succeeded", "failed", "timed_out"}
        BY <1>11, <2>1, <3>1, <3>3
      <4>2. Pending(r) = {}
        BY <4>1 DEF PgInv, IsolationHolds, OneDescendant, LeftEmpty
      <4>3. inbox'[r] = inbox[r]
        BY <1>14, <3>1, <3>3
      <4> QED
        BY <4>2, <4>3 DEF Pending
    <3> QED
      BY <3>2, <3>3
  <2> QED
    BY <2>1 DEF LeftEmpty
<1> QED
  BY <1>14, <1>15, <1>16, <1>17, <1>18, <1>19, <1>20, <1>21, <1>22 DEF PgInv, IsolationHolds, OneDescendant

-----------------------------------------------------------------------------
(* The theorems                                                             *)

LEMMA InitInv == Init => PgInv
<1> SUFFICES ASSUME Init PROVE PgInv
  OBVIOUS
<1>1. /\ setup \in Setups /\ runs = [r \in Ids |-> NoRow] /\ inbox = [r \in Ids |-> <<>>] /\ asked = {}
      /\ tx = [s \in Sessions |-> NoTx] /\ job = [s \in Sessions |-> NoJob] /\ errors = {}
  BY DEF Init
<1>2. Existing = {} /\ Creating = {}
  BY <1>1 DEF Existing, Creating, NoRow, NoTx
<1>3. RowsFit
  <2>1. NoRow \in Row /\ NoRow.status = "absent"
    BY NoRowFits DEF NoRow
  <2> QED
    BY <1>1, <1>2, <2>1 DEF RowsFit
<1>4. InboxesFit /\ OpenOnce
  <2>1. <<>> \in Seq(Item) /\ DOMAIN <<>> = {}
    BY EmptySeq
  <2> QED
    BY <1>1, <2>1 DEF InboxesFit, OpenOnce
<1>5. JobsFit
  BY <1>1 DEF JobsFit, NoJob
<1>6. TxsFit
  <2>1. ASSUME NEW s \in Sessions
        PROVE  TxFits(tx[s]) /\ tx[s].locks = {} /\ ~KeyHeld(tx[s]) /\ ~Enters(tx[s])
    <3>1. tx[s] = NoTx
      BY <1>1
    <3> QED
      BY <3>1, NoTxFits
  <2>2. DOMAIN tx = Sessions
    BY <1>1
  <2> QED
    BY <2>1, <2>2 DEF TxsFit, LocksExclude, KeysExclude, EntriesExclude
<1>7. RoomFits
  <2>1. setup.runs \in 0 .. MaxRuns /\ MaxRuns \in Nat
    BY <1>1, PgAssumption
  <2> QED
    BY <1>2, <2>1, FS_EmptySet DEF RoomFits
<1>8. OneActivePerThread /\ KeysAreIdempotent /\ SuccessorsMatch
  BY <1>1, <1>2 DEF OneActivePerThread, KeysAreIdempotent, SuccessorsMatch, Active, ACTIVE, NoRow
<1>9. LeftEmpty
  <2>1. DOMAIN <<>> = {}
    BY EmptySeq
  <2> QED
    BY <1>1, <2>1 DEF LeftEmpty, Pending
<1> QED
  BY <1>3, <1>4, <1>5, <1>6, <1>7, <1>8, <1>9 DEF PgInv, IsolationHolds, OneDescendant

LEMMA InvStep == PgInv /\ [Next]_vars => PgInv'
<1> SUFFICES ASSUME PgInv, [Next]_vars PROVE PgInv'
  OBVIOUS
<1>1. ASSUME NEW s \in Sessions, Step(s) PROVE PgInv'
  <2>1. CASE LockOne(s) \/ CommitOne(s)
    BY <2>1, LockOneKeeps, CommitOneKeeps
  <2>2. CASE TakeKey(s) \/ Look(s) \/ LockPaused(s) \/ Count(s) \/ Find(s) \/ LockThread(s)
    BY <2>2, TakeKeyKeeps, LookKeeps, LockPausedKeeps, CountKeeps, FindKeeps, LockThreadKeeps
  <2>3. CASE Insert(s) \/ Reject(s)
    BY <2>3, InsertKeeps, RejectKeeps
  <2>4. CASE SweepOne(s) \/ Settle(s) \/ Pick(s) \/ Enter(s) \/ Raise(s) \/ CommitClaim(s)
    BY <2>4, SweepOneKeeps, SettleKeeps, PickKeeps, EnterKeeps, RaiseKeeps, CommitClaimKeeps
  <2>5. CASE Deadlock(s)
    BY <2>5, DeadlockKeeps
  <2> QED
    BY <1>1, <2>1, <2>2, <2>3, <2>4, <2>5 DEF Step
<1>2. ASSUME NEW s \in Sessions, BeginCall(s) \/ Deliver(s) \/ Lose(s) \/ BeginClaim(s) \/ Fail(s)
      PROVE  PgInv'
  BY <1>2, CallKeeps, DeliverKeeps, LoseKeeps, BeginClaimKeeps, FailKeeps
<1>3. ASSUME NEW r \in Ids, Lapse(r) PROVE PgInv'
  BY <1>3, LapseKeeps
<1>4. CASE UNCHANGED vars
  <2>1. /\ UNCHANGED <<setup, inbox, asked, tx, errors>> /\ runs' = runs /\ job' = job
    BY <1>4 DEF vars
  <2>2. JobsFit' /\ runs' \in [Ids -> Row]
    BY <2>1 DEF PgInv, JobsFit, RowsFit
  <2> QED
    BY <2>1, <2>2, AllAgree DEF Agree
<1> QED
  BY <1>1, <1>2, <1>3, <1>4 DEF Next

\* The rows, the inboxes, the transactions and what they have locked fit
\* together at every statement, for any number of sessions, runs and keys.
THEOREM PgInvariance == Spec => []PgInv
BY InitInv, InvStep, PTL DEF Spec

\* Transactions that overlap do not undo each other: no thread gets two active
\* runs, no key two runs or an error, no paused run two descendants, and no
\* entry of an inbox is open in two places.
THEOREM Isolation == Spec => []IsolationHolds
<1>1. PgInv => IsolationHolds
  BY DEF PgInv
<1> QED
  BY <1>1, PgInvariance, PTL

\* How the status of a row may change in one transaction.
Allowed(from, to) ==
  \/ from = to
  \/ from = "absent" /\ to = "pending"
  \/ from = "pending" /\ to \in {"running", "cancelled"}
  \/ from = "paused" /\ to = "cancelled"
  \/ from = "running" /\ to \in {"pending", "paused", "cancelling"} \cup (TERMINAL \ {"cancelled"})
  \/ from = "cancelling" /\ to = "cancelled"
  \/ from \in {"failed", "dead_letter"} /\ to = "pending"

LEMMA OutcomeAllowed ==
  ASSUME NEW op \in OneRow, NEW arg, ArgFits(op, arg), NEW row \in Row, row.status # "absent",
         op \in Fenced => Active(row), op = "redrive" => row.status \in {"failed", "dead_letter"}
  PROVE  Allowed(row.status, Outcome(op, arg, row))
<1> PICK o : o = Outcome(op, arg, row)
  OBVIOUS
<1> SUFFICES Allowed(row.status, o)
  OBVIOUS
<1>1. CASE op \in {"finish", "finalize"}
  <2>1. o = IF row.status = "cancelling" THEN "cancelled" ELSE arg
    BY <1>1 DEF Outcome
  <2>2. /\ arg \in {"paused", "dead_letter", "succeeded", "failed", "timed_out"}
        /\ row.status \in {"running", "cancelling"}
    BY <1>1 DEF ArgFits, Fenced, Active, ACTIVE
  <2> QED
    BY <2>1, <2>2 DEF Allowed, TERMINAL
<1>2. CASE op = "retry"
  <2>1. o = IF row.status = "cancelling" THEN "cancelled" ELSE "pending"
    BY <1>2 DEF Outcome
  <2>2. row.status \in {"running", "cancelling"}
    BY <1>2 DEF Fenced, Active, ACTIVE
  <2> QED
    BY <2>1, <2>2 DEF Allowed
<1>3. CASE op = "cancel"
  <2>1. CASE CancelRefused(row)
    <3>1. o = row.status
      BY <1>3, <2>1 DEF Outcome
    <3> QED
      BY <3>1 DEF Allowed
  <2>2. CASE ~CancelRefused(row)
    <3>1. o = IF row.status \in {"pending", "paused"} THEN "cancelled" ELSE "cancelling"
      BY <1>3, <2>2 DEF Outcome
    <3>2. row.status \in {"pending", "paused", "running", "cancelling"}
      BY <2>2 DEF CancelRefused, Row, Statuses, ACTIVE, TERMINAL
    <3> QED
      BY <3>1, <3>2 DEF Allowed
  <2> QED
    BY <2>1, <2>2
<1>4. CASE op = "redrive"
  <2>1. o = "pending" /\ row.status \in {"failed", "dead_letter"}
    BY <1>4 DEF Outcome
  <2> QED
    BY <2>1 DEF Allowed
<1>5. CASE op \notin {"finish", "finalize", "retry", "cancel", "redrive"}
  <2>1. o = row.status
    BY <1>5 DEF Outcome
  <2> QED
    BY <2>1 DEF Allowed
<1> QED
  BY <1>1, <1>2, <1>3, <1>4, <1>5

LEMMA CommitAllowed ==
  ASSUME PgInv, NEW s \in Sessions, CommitOne(s), NEW q \in Ids
  PROVE  Allowed(runs[q].status, runs'[q].status)
<1> DEFINE t == tx[s]
           row == runs[t.run]
           o == runs'[t.run].status
<1>1. /\ t.op \in OneRow /\ t.run \in Existing /\ runs \in [Ids -> Row] /\ t.run \in Ids
      /\ ArgFits(t.op, t.arg)
      /\ t.op \in Fenced => Active(row)
      /\ t.op = "redrive" => row.status \in {"failed", "dead_letter"}
      /\ \A p \in Ids \ {t.run} : runs'[p] = runs[p]
      /\ o = Outcome(t.op, t.arg, row)
  BY CommitFacts
<1>2. row \in Row /\ row.status # "absent"
  BY <1>1 DEF Existing
<1>3. Allowed(row.status, o)
  <2> HIDE DEF t, row, o
  <2> QED
    BY <1>1, <1>2, OutcomeAllowed
<1>4. CASE q = t.run
  BY <1>3, <1>4
<1>5. CASE q # t.run
  BY <1>1, <1>5 DEF Allowed
<1> QED
  BY <1>4, <1>5

LEMMA ClaimAllowed ==
  ASSUME PgInv, NEW s \in Sessions, CommitClaim(s), NEW q \in Ids
  PROVE  Allowed(runs[q].status, runs'[q].status)
<1> DEFINE t == tx[s]
<1>1. /\ t.run \in Ids => runs'[t.run].status = "running" /\ runs[t.run].status \in {"pending", "running"}
      /\ \A r \in t.hit : Active(runs[r])
      /\ \A r \in t.hit \ {t.run} :
           runs'[r].status = IF runs[r].status = "cancelling" THEN "cancelled" ELSE "pending"
      /\ \A r \in Ids \ ({t.run} \cup t.hit) : runs'[r] = runs[r]
  BY ClaimWrites
<1>2. CASE q = t.run
  BY <1>1, <1>2 DEF Allowed
<1>3. CASE q # t.run /\ q \in t.hit
  <2>1. runs[q].status \in {"running", "cancelling"}
    BY <1>1, <1>3 DEF Active, ACTIVE
  <2>2. runs'[q].status = IF runs[q].status = "cancelling" THEN "cancelled" ELSE "pending"
    BY <1>1, <1>3
  <2> QED
    BY <2>1, <2>2 DEF Allowed
<1>4. CASE q # t.run /\ q \notin t.hit
  BY <1>1, <1>4 DEF Allowed
<1> QED
  BY <1>2, <1>3, <1>4

LEMMA InsertAllowed ==
  ASSUME PgInv, NEW s \in Sessions, Insert(s), NEW q \in Ids
  PROVE  Allowed(runs[q].status, runs'[q].status)
<1> DEFINE old == Continued(tx[s])
<1>1. PICK new, stopped : Inserted(tx[s], new, stopped)
  BY InsertWrites
<1>2. CASE q = new
  <2>1. q \notin Existing /\ runs'[q].status = "pending"
    BY <1>1, <1>2 DEF Inserted
  <2> QED
    BY <2>1 DEF Allowed, Existing
<1>3. CASE q \in stopped
  BY <1>1, <1>3 DEF Inserted, Allowed
<1>4. CASE q \in old
  <2>1. runs'[q] = [runs[q] EXCEPT !.successor = new] /\ runs[q] \in Row
    BY <1>1, <1>4 DEF Inserted
  <2>2. runs'[q].status = runs[q].status
    BY <2>1 DEF Row
  <2> QED
    BY <2>2 DEF Allowed
<1>5. CASE q \notin {new} \cup stopped \cup old
  BY <1>1, <1>5 DEF Inserted, Allowed
<1> QED
  BY <1>2, <1>3, <1>4, <1>5

\* Every other step changes no status.
LEMMA StepAllowed ==
  ASSUME PgInv, [Next]_vars, NEW q \in Ids
  PROVE  Allowed(runs[q].status, runs'[q].status)
<1>1. CASE runs' = runs
  BY <1>1 DEF Allowed
<1>2. ASSUME NEW s \in Sessions, Step(s) PROVE Allowed(runs[q].status, runs'[q].status)
  <2>1. CASE CommitOne(s) \/ CommitClaim(s) \/ Insert(s)
    BY <2>1, CommitAllowed, ClaimAllowed, InsertAllowed
  <2>2. CASE \/ LockOne(s) \/ SweepOne(s) \/ Settle(s) \/ Pick(s) \/ Enter(s) \/ Raise(s)
             \/ Deadlock(s)
    BY <1>1, <2>2 DEF LockOne, SweepOne, Settle, Pick, Enter, Raise, Deadlock, Only
  <2>3. CASE TakeKey(s) \/ Look(s) \/ LockPaused(s) \/ Count(s) \/ Find(s) \/ LockThread(s) \/ Reject(s)
    BY <1>1, <2>3 DEF TakeKey, Look, LockPaused, Count, Find, LockThread, Reject, Only
  <2> QED
    BY <1>2, <2>1, <2>2, <2>3 DEF Step
<1>3. ASSUME NEW s \in Sessions, BeginCall(s) \/ Deliver(s) \/ Lose(s) \/ BeginClaim(s) \/ Fail(s)
      PROVE  runs' = runs
  <2>1. CASE BeginCall(s)
    BY <2>1 DEF BeginCall
  <2>2. CASE Deliver(s)
    BY <2>2 DEF Deliver
  <2>3. CASE Lose(s) \/ BeginClaim(s) \/ Fail(s)
    BY <2>3 DEF Lose, BeginClaim, Only, Fail
  <2> QED
    BY <1>3, <2>1, <2>2, <2>3
<1>4. ASSUME NEW r \in Ids, Lapse(r) PROVE Allowed(runs[q].status, runs'[q].status)
  <2>1. runs' = [runs EXCEPT ![r].lapsed = TRUE] /\ runs \in [Ids -> Row]
    BY <1>4 DEF Lapse, PgInv, RowsFit
  <2>2. runs'[q].status = runs[q].status
    BY <2>1 DEF Row
  <2> QED
    BY <2>2 DEF Allowed
<1>5. CASE UNCHANGED vars
  BY <1>1, <1>5 DEF vars
<1> QED
  BY <1>1, <1>2, <1>3, <1>4, <1>5 DEF Next

\* The table shows clients what the run API promises, as if every transaction
\* were one step.
THEOREM TableKeepsContract == Spec => KeepsContract
<1>1. Init => Contract!Init
  BY DEF Init, Contract!Init, NoRow
<1>2. ASSUME PgInv, PgInv', [Next]_vars PROVE [Contract!Next]_(Contract!vars)
  <2>1. /\ runs \in [Ids -> Row] /\ asked = {r \in Ids : runs[r].status \in {"cancelling", "cancelled"}}
        /\ runs' \in [Ids -> Row] /\ asked' = {r \in Ids : runs'[r].status \in {"cancelling", "cancelled"}}
    BY <1>2 DEF PgInv, RowsFit
  <2>2. ASSUME NEW r \in Ids
        PROVE  \/ Contract!Stays(r) \/ Contract!Submitted(r) \/ Contract!Started(r) \/ Contract!Requeued(r)
               \/ Contract!Left(r) \/ Contract!Redriven(r) \/ Contract!CancelDone(r) \/ Contract!Asked(r)
    <3>1. Allowed(runs[r].status, runs'[r].status)
      BY <1>2, StepAllowed
    <3>2. /\ r \in asked <=> runs[r].status \in {"cancelling", "cancelled"}
          /\ r \in asked' <=> runs'[r].status \in {"cancelling", "cancelled"}
      BY <2>1
    <3> QED
      BY <3>1, <3>2 DEF Allowed, TERMINAL, Contract!Stays, Contract!Submitted, Contract!Started,
         Contract!Requeued, Contract!Left, Contract!Redriven, Contract!CancelDone, Contract!Asked,
         Contract!Moves, Contract!Ended
  <2>3. [r \in Ids |-> runs'[r].status] \in [Ids -> Contract!Statuses]
    BY <2>1 DEF Row, Statuses, ACTIVE, TERMINAL, Contract!Statuses, Contract!Open, Contract!Ended
  <2>4. asked' \in SUBSET Ids
    BY <2>1
  <2> QED
    BY <2>2, <2>3, <2>4 DEF Contract!Next
<1> QED
  BY <1>1, <1>2, PgInvariance, PTL DEF Spec, KeepsContract, Contract!Spec

=============================================================================
