-------------------------- MODULE EventStreamProofs --------------------------
(***************************************************************************)
(* Proofs about EventStream for every number of clients, deliveries and     *)
(* events: the log and its writers first, then what the streams make of a   *)
(* log that only grows at its end.                                          *)
(***************************************************************************)
EXTENDS EventStream, OrderLemmas

-----------------------------------------------------------------------------
(* Listing what follows a sequence number                                   *)

\* What is listed after a number is the rest of the log, in its order.
LEMMA FollowingIsTheRest ==
  ASSUME LogFits, NEW a \in Nat, a <= Len(log)
  PROVE  /\ Following(a) \in [1 .. Len(log) - a -> Rows]
         /\ \A i \in 1 .. Len(log) - a : Following(a)[i] = log[a + i]
<1> DEFINE n == Len(log) - a
           late == {log[i] : i \in {j \in DOMAIN log : log[j].sequence > a}}
           Orders(rows) == \A k, m \in DOMAIN rows : k < m => rows[k].sequence < rows[m].sequence
<1>1. /\ Len(log) \in Nat /\ n \in Nat
      /\ DOMAIN log = 1 .. Len(log)
      /\ \A i \in 1 .. Len(log) : log[i] \in Rows /\ log[i].sequence = i
  BY LenProperties, ElementOfSeq DEF LogFits
<1>2. late = {log[i] : i \in a + 1 .. Len(log)}
  <2>1. {j \in DOMAIN log : log[j].sequence > a} = a + 1 .. Len(log)
    BY <1>1
  <2> QED
    BY <2>1
<1>3. Cardinality(late) = n
  <2> DEFINE f == [i \in a + 1 .. Len(log) |-> log[i]]
  <2>1. f \in Bijection(a + 1 .. Len(log), late)
    <3>1. f \in [a + 1 .. Len(log) -> late]
      BY <1>2
    <3>2. \A i, j \in a + 1 .. Len(log) : f[i] = f[j] => i = j
      BY <1>1
    <3>3. \A r \in late : \E i \in a + 1 .. Len(log) : f[i] = r
      BY <1>2
    <3> HIDE DEF f, late
    <3> QED
      BY <3>1, <3>2, <3>3 DEF Bijection, Injection, Surjection, IsInjective
  <2>2. IsFiniteSet(a + 1 .. Len(log)) /\ Cardinality(a + 1 .. Len(log)) = n
    <3>1. a + 1 \in Int /\ Len(log) \in Int
      BY <1>1
    <3>2. /\ IsFiniteSet(a + 1 .. Len(log))
          /\ Cardinality(a + 1 .. Len(log)) = IF a + 1 > Len(log) THEN 0 ELSE Len(log) - (a + 1) + 1
      BY <3>1, FS_Interval
    <3> QED
      BY <1>1, <3>2
  <2> HIDE DEF f, late
  <2> QED
    BY <2>1, <2>2, FS_Bijection DEF ExistsBijection
<1>4. \E rows \in [1 .. n -> late] : Orders(rows)
  <2> DEFINE rest == [i \in 1 .. n |-> log[a + i]]
  <2>1. rest \in [1 .. n -> late]
    BY <1>1, <1>2
  <2>2. Orders(rest)
    BY <1>1
  <2> QED
    BY <2>1, <2>2
<1>5. Following(a) \in [1 .. n -> late] /\ Orders(Following(a))
  <2>1. Following(a) = CHOOSE rows \in [1 .. n -> late] : Orders(rows)
    BY <1>3 DEF Following
  <2> HIDE DEF late, n, Orders
  <2> QED
    BY <1>4, <2>1
<1> DEFINE number_of == [i \in 1 .. n |-> Following(a)[i].sequence]
<1>6. \A i \in 1 .. n : number_of[i] \in a + 1 .. a + n /\ Following(a)[i] = log[number_of[i]]
  <2> SUFFICES ASSUME NEW i \in 1 .. n
               PROVE  number_of[i] \in a + 1 .. a + n /\ Following(a)[i] = log[number_of[i]]
    OBVIOUS
  <2>1. Following(a)[i] \in late
    BY <1>5
  <2>2. PICK j \in a + 1 .. Len(log) : Following(a)[i] = log[j]
    BY <1>2, <2>1
  <2>3. log[j].sequence = j
    BY <1>1, <2>2
  <2> QED
    BY <1>1, <2>2, <2>3
<1>7. \A i \in 1 .. n : number_of[i] = a + i
  <2>1. number_of \in [1 .. n -> a + 1 .. a + n]
    BY <1>6
  <2>2. \A i, j \in 1 .. n : i < j => number_of[i] < number_of[j]
    BY <1>5
  <2> HIDE DEF number_of, n
  <2> QED
    BY <1>1, <2>1, <2>2, IncreasingCounts
<1>8. Following(a) \in [1 .. n -> Rows]
  <2>1. late \subseteq Rows
    BY <1>1, <1>2
  <2> HIDE DEF late
  <2> QED
    BY <1>5, <2>1
<1> QED
  BY <1>6, <1>7, <1>8

-----------------------------------------------------------------------------
(* The log and its writers                                                  *)

ServerInv ==
  audience \in Audiences /\ DeliveriesFit /\ LogFits /\ TransactionsFit /\ LogIsOrdered

\* A writer appends the next event.
Grows(w, kind) ==
  log' = Append(log, [sequence |-> Len(log) + 1, by |-> w, kind |-> kind])

LEMMA WritersAreNumbers ==
  ASSUME audience \in Audiences
  PROVE  /\ MaxClaims \in Nat /\ Writers = 0 .. MaxClaims /\ Deliveries \subseteq Writers
         /\ Nobody \notin Writers /\ API \in Writers
<1>1. MaxClaims \in Nat
  BY StreamAssumption DEF MaxClaims
<1> QED
  BY <1>1 DEF Writers, Deliveries, API, Nobody

\* The log after an append.
LEMMA GrownLog ==
  ASSUME LogFits, NEW w \in Nat, NEW kind \in Kinds, Grows(w, kind)
  PROVE  /\ Len(log) \in Nat /\ DOMAIN log = 1 .. Len(log)
         /\ log' \in Seq(Rows) /\ Len(log') = Len(log) + 1
         /\ DOMAIN log' = 1 .. Len(log) + 1
         /\ \A i \in 1 .. Len(log) : log'[i] = log[i]
         /\ log'[Len(log) + 1] = [sequence |-> Len(log) + 1, by |-> w, kind |-> kind]
<1> DEFINE e == [sequence |-> Len(log) + 1, by |-> w, kind |-> kind]
<1>1. log \in Seq(Rows) /\ Len(log) \in Nat /\ DOMAIN log = 1 .. Len(log)
  BY LenProperties DEF LogFits
<1>2. e \in Rows
  BY <1>1 DEF Rows
<1>3. log' = Append(log, e)
  BY DEF Grows
<1> HIDE DEF e
<1>4. /\ log' \in Seq(Rows) /\ Len(log') = Len(log) + 1
      /\ \A i \in 1 .. Len(log) : log'[i] = log[i]
      /\ log'[Len(log) + 1] = e
  BY <1>1, <1>2, <1>3, AppendProperties
<1>5. DOMAIN log' = 1 .. Len(log) + 1
  BY <1>4, LenProperties
<1> QED
  BY <1>1, <1>4, <1>5 DEF e

\* An insert by the holder of the row lock finds its number free.
LEMMA InsertSucceeds ==
  ASSUME ServerInv, NEW w \in Writers, NEW kind, doing[w] \in Transactions, Insert(w, kind)
  PROVE  /\ Grows(w, kind) /\ UNCHANGED clash
         /\ doing' = [doing EXCEPT ![w] = "publish"]
<1>1. number[w] = Len(log) + 1
  BY DEF ServerInv, TransactionsFit
<1>2. Len(log) \in Nat /\ DOMAIN log = 1 .. Len(log)
  BY LenProperties DEF ServerInv, LogFits
<1>3. ~ \E i \in DOMAIN log : log[i].sequence = number[w]
  BY <1>1, <1>2 DEF ServerInv, LogFits
<1> QED
  BY <1>1, <1>3 DEF Insert, Grows

\* What any commit does: at most one event, at the end of the log; one that tells
\* of a retry is by the owner of the run.
LEMMA CommitEffect ==
  ASSUME ServerInv, NEW w \in Writers, Commit(w)
  PROVE  /\ doing[w] \in Transactions
         /\ \/ UNCHANGED log /\ doing' = [doing EXCEPT ![w] = "idle"]
            \/ /\ \E kind \in Kinds : Grows(w, kind) /\ (kind = "worker_retrying" => w = owner /\ w # API)
               /\ doing' = [doing EXCEPT ![w] = "publish"]
         /\ lock' = Nobody /\ number' = [number EXCEPT ![w] = 0] /\ UNCHANGED clash
         /\ owner' \in {owner, 0} /\ alive' \subseteq alive
         /\ UNCHANGED <<claims, streamVars>>
<1>1. CASE CommitEvent(w)
  <2>1. doing[w] \in Transactions
    BY <1>1 DEF CommitEvent, Transactions
  <2>2. lock = w
    BY <2>1 DEF ServerInv, TransactionsFit
  <2>3. PICK kind \in {"step", "accepted"} : Insert(w, kind)
    BY <1>1 DEF CommitEvent
  <2>4. /\ Grows(w, kind) /\ UNCHANGED clash
        /\ doing' = [doing EXCEPT ![w] = "publish"]
    BY <2>1, <2>3, InsertSucceeds
  <2> QED
    BY <1>1, <2>1, <2>2, <2>4 DEF CommitEvent, EndTx, runVars, Kinds
<1>2. CASE CommitRetry(w)
  <2>1. doing[w] \in Transactions /\ w = owner /\ w # API /\ lock = w
    BY <1>2 DEF CommitRetry, Transactions, ServerInv, TransactionsFit
  <2>2. CASE Insert(w, "worker_retrying")
    <3>1. /\ Grows(w, "worker_retrying") /\ UNCHANGED clash
          /\ doing' = [doing EXCEPT ![w] = "publish"]
      BY <2>1, <2>2, InsertSucceeds
    <3> QED
      BY <1>2, <2>1, <3>1 DEF CommitRetry, EndTx, Kinds
  <2>3. CASE InsertNothing(w)
    BY <1>2, <2>1, <2>3 DEF CommitRetry, EndTx, InsertNothing
  <2> QED
    BY <1>2, <2>2, <2>3 DEF CommitRetry
<1>3. CASE CommitFinish(w)
  <2>1. doing[w] \in Transactions /\ lock = w
    BY <1>3 DEF CommitFinish, Transactions, ServerInv, TransactionsFit
  <2>2. CASE Insert(w, "superseded")
    <3>1. /\ Grows(w, "superseded") /\ UNCHANGED clash
          /\ doing' = [doing EXCEPT ![w] = "publish"]
      BY <2>1, <2>2, InsertSucceeds
    <3> QED
      BY <1>3, <2>1, <3>1 DEF CommitFinish, EndTx, Kinds
  <2>3. CASE InsertNothing(w)
    BY <1>3, <2>1, <2>3 DEF CommitFinish, EndTx, InsertNothing
  <2> QED
    BY <1>3, <2>2, <2>3 DEF CommitFinish
<1> QED
  BY <1>1, <1>2, <1>3 DEF Commit

\* While the row lock is free nobody is between its numbering and its commit.
LEMMA FreeLock ==
  ASSUME ServerInv, lock = Nobody
  PROVE  \A w \in Writers : doing[w] \notin Transactions
BY WritersAreNumbers DEF ServerInv, TransactionsFit

\* The log stays as it is while deliveries are claimed.
LEMMA SameLog ==
  ASSUME ServerInv, UNCHANGED <<audience, log, clash>>, claims' \in Nat, claims <= claims'
  PROVE  LogFits' /\ LogIsOrdered'
<1>1. LogFits'
  BY DEF ServerInv, LogFits, DeliveriesFit
<1>2. LogIsOrdered'
  BY DEF ServerInv, LogIsOrdered, AppendsNeverClash, RetryPrecedesNext
<1> QED
  BY <1>1, <1>2

\* A writer that leaves its transaction, or a publish that is done.
LEMMA WriterRests ==
  ASSUME ServerInv, NEW w \in Writers, UNCHANGED <<audience, log, owner, claims>>,
         doing' = [doing EXCEPT ![w] = "idle"],
         number' = [number EXCEPT ![w] = 0] \/ UNCHANGED number,
         lock' = lock \/ lock = w
  PROVE  TransactionsFit'
<1>1. Writers' = Writers
  BY DEF Writers, Deliveries, MaxClaims
<1>2. "idle" \notin Transactions
  BY DEF Transactions
<1>3. /\ doing' \in [Writers -> Transactions \cup {"idle", "publish"}]
      /\ number' \in [Writers -> Nat]
  BY DEF ServerInv, TransactionsFit
<1>4. ASSUME NEW v \in Writers, doing'[v] \in Transactions
      PROVE  /\ lock' = v /\ number'[v] = Len(log') + 1 /\ v <= claims'
             /\ doing'[v] \in {"retry", "finish"} => v = owner' /\ v # API
  <2>1. v # w
    BY <1>2, <1>4 DEF ServerInv, TransactionsFit
  <2>2. doing'[v] = doing[v] /\ number'[v] = number[v]
    BY <2>1 DEF ServerInv, TransactionsFit
  <2>3. lock = v
    BY <1>4, <2>2 DEF ServerInv, TransactionsFit
  <2> QED
    BY <1>4, <2>1, <2>2, <2>3 DEF ServerInv, TransactionsFit
<1> QED
  BY <1>1, <1>3, <1>4 DEF TransactionsFit

LEMMA BeginStep ==
  ASSUME ServerInv, UNCHANGED audience, NEW w \in Writers, NEW kind \in Transactions,
         Begin(w, kind)
  PROVE  ServerInv'
<1>1. Writers' = Writers
  BY DEF Writers, Deliveries, MaxClaims
<1>2. /\ lock = Nobody /\ lock' = w
      /\ doing' = [doing EXCEPT ![w] = kind]
      /\ number' = [number EXCEPT ![w] = Len(log) + 1]
      /\ UNCHANGED <<audience, log, status, owner, claims, alive, clash>>
  BY DEF Begin, LockFree, runVars
<1>3. LogFits' /\ LogIsOrdered' /\ DeliveriesFit' /\ audience' \in Audiences
  <2>1. claims \in Nat /\ claims <= claims
    BY DEF ServerInv, DeliveriesFit
  <2>2. LogFits' /\ LogIsOrdered'
    BY <1>2, <2>1, SameLog
  <2>3. DeliveriesFit'
    BY <1>2 DEF ServerInv, DeliveriesFit
  <2> QED
    BY <2>2, <2>3 DEF ServerInv
<1>4. Len(log) \in Nat
  BY LenProperties DEF ServerInv, LogFits
<1>5. w <= claims /\ (kind \in {"retry", "finish"} => w = owner /\ w # API)
  <2>1. MayBegin(w, kind)
    BY DEF Begin
  <2>2. CASE kind = "step"
    BY <2>1, <2>2 DEF MayBegin, ServerInv, DeliveriesFit
  <2>3. CASE kind \in {"retry", "finish"}
    <3>1. w \in alive /\ owner = w
      BY <2>1, <2>3 DEF MayBegin, Owns
    <3> QED
      BY <3>1 DEF ServerInv, DeliveriesFit, API
  <2>4. CASE kind = "accept"
    <3>1. w = 0
      BY <2>1, <2>4 DEF MayBegin, API
    <3> QED
      BY <2>4, <3>1 DEF ServerInv, DeliveriesFit
  <2> QED
    BY <2>2, <2>3, <2>4 DEF Transactions
<1>6. TransactionsFit'
  <2>1. /\ doing' \in [Writers -> Transactions \cup {"idle", "publish"}]
        /\ number' \in [Writers -> Nat]
    BY <1>2, <1>4 DEF ServerInv, TransactionsFit
  <2>2. ASSUME NEW v \in Writers, doing'[v] \in Transactions
        PROVE  /\ lock' = v /\ number'[v] = Len(log') + 1 /\ v <= claims'
               /\ doing'[v] \in {"retry", "finish"} => v = owner' /\ v # API
    <3>1. v = w
      <4>1. ASSUME v # w PROVE FALSE
        <5>1. doing'[v] = doing[v]
          BY <1>2, <4>1 DEF ServerInv, TransactionsFit
        <5> QED
          BY <1>2, <2>2, <5>1, FreeLock
      <4> QED
        BY <4>1
    <3>2. doing'[w] = kind /\ number'[w] = Len(log) + 1
      BY <1>2 DEF ServerInv, TransactionsFit
    <3> QED
      BY <1>2, <1>5, <3>1, <3>2
  <2> QED
    BY <1>1, <2>1, <2>2 DEF TransactionsFit
<1> QED
  BY <1>3, <1>6 DEF ServerInv

LEMMA CommitStep ==
  ASSUME ServerInv, UNCHANGED audience, NEW w \in Writers, Commit(w)
  PROVE  ServerInv'
<1>1. /\ doing[w] \in Transactions
      /\ \/ UNCHANGED log /\ doing' = [doing EXCEPT ![w] = "idle"]
         \/ /\ \E kind \in Kinds : Grows(w, kind) /\ (kind = "worker_retrying" => w = owner /\ w # API)
            /\ doing' = [doing EXCEPT ![w] = "publish"]
      /\ lock' = Nobody /\ number' = [number EXCEPT ![w] = 0] /\ UNCHANGED clash
      /\ owner' \in {owner, 0} /\ alive' \subseteq alive /\ UNCHANGED claims
  BY CommitEffect
<1>2. Writers' = Writers /\ w \in Nat
  BY WritersAreNumbers DEF ServerInv, Writers, Deliveries, MaxClaims
<1>3. DeliveriesFit' /\ audience' \in Audiences
  BY <1>1 DEF ServerInv, DeliveriesFit
<1>4. TransactionsFit'
  <2>1. /\ doing' \in [Writers -> Transactions \cup {"idle", "publish"}]
        /\ number' \in [Writers -> Nat]
    BY <1>1 DEF ServerInv, TransactionsFit
  <2>2. ASSUME NEW v \in Writers, doing'[v] \in Transactions PROVE FALSE
    <3>1. v # w
      BY <1>1, <2>2 DEF ServerInv, TransactionsFit, Transactions
    <3>2. doing'[v] = doing[v]
      BY <1>1, <3>1 DEF ServerInv, TransactionsFit
    <3> QED
      BY <1>1, <2>2, <3>1, <3>2 DEF ServerInv, TransactionsFit
  <2> QED
    BY <1>2, <2>1, <2>2 DEF TransactionsFit
<1>5. w <= claims /\ claims \in Nat
  BY <1>1 DEF ServerInv, TransactionsFit, DeliveriesFit
<1>6. LogFits' /\ LogIsOrdered'
  <2>1. CASE UNCHANGED log
    BY <1>1, <1>5, <2>1, SameLog
  <2>2. ASSUME NEW kind \in Kinds, Grows(w, kind), kind = "worker_retrying" => w = owner /\ w # API
        PROVE  LogFits' /\ LogIsOrdered'
    <3>1. /\ Len(log) \in Nat /\ DOMAIN log = 1 .. Len(log)
          /\ log' \in Seq(Rows) /\ Len(log') = Len(log) + 1
          /\ DOMAIN log' = 1 .. Len(log) + 1
          /\ \A i \in 1 .. Len(log) : log'[i] = log[i]
          /\ log'[Len(log) + 1] = [sequence |-> Len(log) + 1, by |-> w, kind |-> kind]
      BY <1>2, <2>2, GrownLog DEF ServerInv
    <3>2. \A i \in 1 .. Len(log) : log[i].sequence = i /\ log[i].by \in 0 .. claims
      BY <3>1 DEF ServerInv, LogFits
    <3>3. \A i \in DOMAIN log' : log'[i].sequence = i /\ log'[i].by \in 0 .. claims'
      BY <1>1, <1>2, <1>5, <3>1, <3>2
    <3>4. ASSUME NEW i \in DOMAIN log', NEW j \in DOMAIN log',
                 log'[i].kind = "worker_retrying", log'[j].by > log'[i].by
          PROVE  i < j
      <4>1. CASE j = Len(log) + 1
        <5>1. i # j
          BY <1>2, <3>1, <3>4, <4>1
        <5> QED
          BY <3>1, <4>1, <5>1
      <4>2. CASE j # Len(log) + 1
        <5>1. j \in 1 .. Len(log) /\ log'[j] = log[j]
          BY <3>1, <4>2
        <5>2. CASE i \in 1 .. Len(log)
          <6>1. log'[i] = log[i]
            BY <3>1, <5>2
          <6> QED
            BY <3>1, <3>4, <5>1, <5>2, <6>1 DEF ServerInv, LogIsOrdered, RetryPrecedesNext
        <5>3. CASE i = Len(log) + 1
          <6>1. kind = "worker_retrying" /\ log'[i].by = w
            BY <3>1, <3>4, <5>3
          <6>2. w = claims
            BY <2>2, <6>1 DEF ServerInv, DeliveriesFit, API
          <6>3. log[j].by <= claims /\ log[j].by \in Nat
            BY <1>5, <3>2, <5>1
          <6> QED
            BY <1>5, <3>4, <5>1, <6>1, <6>2, <6>3
        <5> QED
          BY <3>1, <5>2, <5>3
      <4> QED
        BY <4>1, <4>2
    <3>5. AppendsNeverClash'
      BY <1>1 DEF ServerInv, LogIsOrdered, AppendsNeverClash
    <3> QED
      BY <3>1, <3>3, <3>4, <3>5 DEF LogFits, LogIsOrdered, RetryPrecedesNext
  <2> QED
    BY <1>1, <2>1, <2>2
<1> QED
  BY <1>3, <1>4, <1>6 DEF ServerInv

\* A step that touches neither the log nor who is inside a transaction.
LEMMA QuietStep ==
  ASSUME ServerInv, UNCHANGED <<audience, log, clash, owner, claims, lock, doing, number>>,
         alive' \subseteq alive
  PROVE  ServerInv'
<1>1. claims \in Nat /\ claims <= claims
  BY DEF ServerInv, DeliveriesFit
<1>2. LogFits' /\ LogIsOrdered'
  BY <1>1, SameLog
<1>3. DeliveriesFit'
  BY DEF ServerInv, DeliveriesFit
<1>4. TransactionsFit'
  BY DEF ServerInv, TransactionsFit, Writers, Deliveries, MaxClaims
<1> QED
  BY <1>2, <1>3, <1>4 DEF ServerInv

\* A step that leaves the log alone and takes a writer out of what it does.
LEMMA RestStep ==
  ASSUME ServerInv, NEW w \in Writers, UNCHANGED <<audience, log, clash, owner, claims>>,
         doing' = [doing EXCEPT ![w] = "idle"],
         number' = [number EXCEPT ![w] = 0] \/ UNCHANGED number,
         lock' = lock \/ lock = w,
         alive' \subseteq alive
  PROVE  ServerInv'
<1>1. claims \in Nat /\ claims <= claims
  BY DEF ServerInv, DeliveriesFit
<1>2. LogFits' /\ LogIsOrdered'
  BY <1>1, SameLog
<1>3. DeliveriesFit'
  BY DEF ServerInv, DeliveriesFit
<1>4. TransactionsFit'
  BY WriterRests
<1> QED
  BY <1>2, <1>3, <1>4 DEF ServerInv

\* Owner and number of deliveries change only while the row lock is free.
LEMMA RunStep ==
  ASSUME ServerInv, UNCHANGED <<audience, log, clash, lock, doing, number>>, lock = Nobody,
         claims' \in Nat, claims <= claims', owner' \in {0, claims'},
         alive' \subseteq 1 .. claims'
  PROVE  ServerInv'
<1>1. LogFits' /\ LogIsOrdered'
  BY SameLog
<1>2. DeliveriesFit'
  BY DEF DeliveriesFit
<1>3. Writers' = Writers
  BY DEF Writers, Deliveries, MaxClaims
<1>4. TransactionsFit'
  BY <1>3, FreeLock DEF ServerInv, TransactionsFit
<1> QED
  BY <1>1, <1>2, <1>4 DEF ServerInv

LEMMA ServerStep == ServerInv /\ [Next]_vars => ServerInv'
<1> SUFFICES ASSUME ServerInv, [Next]_vars PROVE ServerInv'
  OBVIOUS
<1>1. CASE UNCHANGED vars
  BY <1>1, QuietStep DEF vars, runVars, txVars
<1>2. ASSUME Step, UNCHANGED audience PROVE ServerInv'
  <2> USE <1>2
  <2>0. /\ claims \in Nat /\ owner \in {0, claims} /\ alive \subseteq 1 .. claims
        /\ Deliveries \subseteq Writers /\ API \in Writers
    BY WritersAreNumbers DEF ServerInv, DeliveriesFit
  <2>1. CASE ClaimRun
    <3>1. claims' = claims + 1 /\ owner' = claims' /\ alive' = alive \cup {claims'} /\ lock = Nobody
      BY <2>1 DEF ClaimRun
    <3>2. UNCHANGED <<log, clash, lock, doing, number>>
      BY <2>1 DEF ClaimRun, txVars
    <3>3. claims' \in Nat /\ claims <= claims' /\ alive' \subseteq 1 .. claims'
      BY <2>0, <3>1
    <3> QED
      BY <3>1, <3>2, <3>3, RunStep
  <2>2. CASE RecoverLease \/ RequestCancel \/ Redrive
    <3>1. /\ UNCHANGED <<log, claims, alive, txVars>> /\ lock = Nobody
          /\ owner' \in {0, owner}
      BY <2>2 DEF RecoverLease, RequestCancel, Redrive
    <3>2. UNCHANGED <<log, clash, lock, doing, number>>
      BY <3>1 DEF txVars
    <3>3. claims' \in Nat /\ claims <= claims' /\ owner' \in {0, claims'} /\ alive' \subseteq 1 .. claims'
      BY <2>0, <3>1
    <3> QED
      BY <3>1, <3>2, <3>3, RunStep
  <2>3. ASSUME NEW w \in Writers, NEW kind \in Transactions, Begin(w, kind) PROVE ServerInv'
    BY <2>3, BeginStep
  <2>4. ASSUME NEW w \in Writers, Commit(w) PROVE ServerInv'
    BY <2>4, CommitStep
  <2>5. ASSUME NEW w \in Writers, Publish(w) PROVE ServerInv'
    <3>1. /\ doing' = [doing EXCEPT ![w] = "idle"]
          /\ UNCHANGED <<log, clash, owner, claims, number, lock, alive>>
      BY <2>5 DEF Publish, runVars
    <3> QED
      BY <3>1, RestStep
  <2>6. ASSUME NEW w \in Deliveries, Abandon(w) PROVE ServerInv'
    <3>1. UNCHANGED <<log, clash, owner, claims, lock, doing, number>> /\ alive' \subseteq alive
      BY <2>6 DEF Abandon, txVars
    <3> QED
      BY <3>1, QuietStep
  <2>7. ASSUME NEW w \in Deliveries, Crash(w) PROVE ServerInv'
    <3>1. /\ doing' = [doing EXCEPT ![w] = "idle"] /\ number' = [number EXCEPT ![w] = 0]
          /\ lock' = lock \/ lock = w
          /\ UNCHANGED <<log, clash, owner, claims>> /\ alive' \subseteq alive
      BY <2>7 DEF Crash, EndTx
    <3> QED
      BY <2>0, <3>1, RestStep
  <2>8. CASE RestartApi
    <3>1. /\ doing' = [doing EXCEPT ![API] = "idle"] /\ number' = [number EXCEPT ![API] = 0]
          /\ lock' = lock \/ lock = API
          /\ UNCHANGED <<log, clash, owner, claims, alive>>
      BY <2>8 DEF RestartApi, runVars
    <3> QED
      BY <2>0, <3>1, RestStep
  <2>9. ASSUME HeartbeatTakesWake \/ \E c \in Followers : StreamStep(c) \/ ConnectInVain(c) \/ Disconnect(c)
        PROVE  ServerInv'
    <3>1. UNCHANGED <<log, runVars, txVars>>
      BY <2>9 DEF HeartbeatTakesWake, StreamStep, ConnectInVain, Disconnect, Connect, ListEvents,
                  SendEvent, CloseWhenOver, StartWaiting, TimesOut
    <3>2. UNCHANGED <<log, clash, owner, claims, lock, doing, number, alive>>
      BY <3>1 DEF runVars, txVars
    <3> QED
      BY <3>2, QuietStep
  <2> QED
    BY <2>1, <2>2, <2>3, <2>4, <2>5, <2>6, <2>7, <2>8, <2>9 DEF Step
<1> QED
  BY <1>1, <1>2 DEF Next

-----------------------------------------------------------------------------
(* The streams                                                              *)

\* What is in the log stays where it is.
LogGrows == /\ Len(log) \in Nat /\ Len(log') \in Nat /\ Len(log) <= Len(log')
            /\ \A i \in 1 .. Len(log) : log'[i] = log[i]

LEMMA LogOnlyGrows == ServerInv /\ [Next]_vars => LogGrows
<1> SUFFICES ASSUME ServerInv, [Next]_vars PROVE LogGrows
  OBVIOUS
<1>0. Len(log) \in Nat
  BY LenProperties DEF ServerInv, LogFits
<1>1. ASSUME UNCHANGED log PROVE LogGrows
  BY <1>0, <1>1 DEF LogGrows
<1>2. ASSUME NEW w \in Writers, Commit(w) PROVE LogGrows
  <2>1. UNCHANGED log \/ \E kind \in Kinds : Grows(w, kind)
    BY <1>2, CommitEffect
  <2>2. w \in Nat
    BY WritersAreNumbers DEF ServerInv
  <2>3. ASSUME NEW kind \in Kinds, Grows(w, kind) PROVE LogGrows
    <3>1. Len(log') = Len(log) + 1 /\ \A i \in 1 .. Len(log) : log'[i] = log[i]
      BY <2>2, <2>3, GrownLog DEF ServerInv
    <3> QED
      BY <1>0, <3>1 DEF LogGrows
  <2> QED
    BY <1>1, <2>1, <2>3
<1>3. ASSUME Step PROVE UNCHANGED log \/ \E w \in Writers : Commit(w)
  BY <1>3 DEF Step, ClaimRun, RecoverLease, RequestCancel, Redrive, Begin, Publish, Abandon, Crash,
              HeartbeatTakesWake, RestartApi, StreamStep, ConnectInVain, Disconnect, Connect,
              ListEvents, SendEvent, CloseWhenOver, StartWaiting, TimesOut
<1> QED
  BY <1>1, <1>2, <1>3 DEF Next, vars

\* A client keeps its place in a log that grows, whatever it waits for.
LEMMA KeepsItsPlace ==
  ASSUME LogGrows, StreamsFit, NEW c \in Clients,
         cursor'[c] = cursor[c], batch'[c] = batch[c], received'[c] = received[c],
         conn'[c] = conn[c] \/ (conn[c] # "off" /\ conn'[c] \in {"listing", "waiting"})
  PROVE  StreamFits(c)'
<1>1. /\ StreamFits(c) /\ Len(received[c]) \in Nat /\ Len(batch[c]) \in Nat
  BY LenProperties DEF StreamsFit
<1>2. /\ Len(received[c]) <= Len(log')
      /\ \A i \in 1 .. Len(received[c]) : received[c][i] = log'[i]
  BY <1>1 DEF StreamFits, LogGrows
<1>3. conn'[c] # "off" => cursor'[c] = Len(received'[c])
  BY <1>1 DEF StreamFits
<1>4. ASSUME conn'[c] = "sending"
      PROVE  /\ Len(received[c]) + Len(batch[c]) <= Len(log')
             /\ \A i \in 1 .. Len(batch[c]) : batch[c][i] = log'[Len(received[c]) + i]
  <2>1. /\ Len(received[c]) + Len(batch[c]) <= Len(log)
        /\ \A i \in 1 .. Len(batch[c]) : batch[c][i] = log[Len(received[c]) + i]
    BY <1>1, <1>4 DEF StreamFits
  <2> DEFINE r == Len(received[c])
             b == Len(batch[c])
  <2>2. r \in Nat /\ b \in Nat /\ Len(log) \in Nat /\ Len(log') \in Nat /\ Len(log) <= Len(log')
    BY <1>1 DEF LogGrows
  <2>3. r + b <= Len(log) /\ \A i \in 1 .. b : batch[c][i] = log[r + i]
    BY <2>1
  <2> HIDE DEF r, b
  <2>4. \A i \in 1 .. b : r + i \in 1 .. Len(log)
    BY <2>2, <2>3
  <2>5. \A i \in 1 .. b : batch[c][i] = log'[r + i]
    BY <2>3, <2>4 DEF LogGrows
  <2>6. r + b <= Len(log')
    BY <2>2, <2>3
  <2> QED
    BY <2>5, <2>6 DEF r, b
<1> QED
  BY <1>2, <1>3, <1>4 DEF StreamFits

\* A client that is cut off keeps what it received.
LEMMA KeepsWhatItHas ==
  ASSUME LogGrows, StreamsFit, NEW c \in Clients, received'[c] = received[c], conn'[c] = "off"
  PROVE  StreamFits(c)'
<1>1. StreamFits(c) /\ Len(received[c]) \in Nat
  BY LenProperties DEF StreamsFit
<1>2. /\ Len(received[c]) <= Len(log')
      /\ \A i \in 1 .. Len(received[c]) : received[c][i] = log'[i]
  BY <1>1 DEF StreamFits, LogGrows
<1> QED
  BY <1>2 DEF StreamFits

\* One client moves and the others keep their places.
LEMMA OneClientMoves ==
  ASSUME LogGrows, StreamsFit, NEW c \in Clients, StreamFits(c)',
         NEW phase \in Phases, NEW at \in Nat, NEW rows \in Seq(Rows), NEW got \in Seq(Rows),
         conn' = [conn EXCEPT ![c] = phase], cursor' = [cursor EXCEPT ![c] = at],
         batch' = [batch EXCEPT ![c] = rows], received' = [received EXCEPT ![c] = got]
  PROVE  StreamsFit'
<1>0. /\ conn \in [Clients -> Phases] /\ cursor \in [Clients -> Nat]
      /\ batch \in [Clients -> Seq(Rows)] /\ received \in [Clients -> Seq(Rows)]
  BY DEF StreamsFit
<1>1. conn' \in [Clients -> Phases]
  BY DEF StreamsFit
<1>2. cursor' \in [Clients -> Nat]
  BY DEF StreamsFit
<1>3. batch' \in [Clients -> Seq(Rows)]
  BY DEF StreamsFit
<1>4. received' \in [Clients -> Seq(Rows)]
  BY DEF StreamsFit
<1>5. ASSUME NEW d \in Clients PROVE StreamFits(d)'
  <2>1. CASE d = c
    BY <2>1
  <2>2. CASE d # c
    <3>1. conn'[d] = conn[d]
      BY <1>0, <2>2
    <3>2. cursor'[d] = cursor[d]
      BY <1>0, <2>2
    <3>3. batch'[d] = batch[d]
      BY <1>0, <2>2
    <3>4. received'[d] = received[d]
      BY <1>0, <2>2
    <3> QED
      BY <3>1, <3>2, <3>3, <3>4, KeepsItsPlace
  <2> QED
    BY <2>1, <2>2
<1> QED
  BY <1>1, <1>2, <1>3, <1>4, <1>5 DEF StreamsFit

LEMMA ConnectKeepsPlaces ==
  ASSUME LogGrows, StreamsFit, LogFits, NEW c \in Clients, Connect(c), UNCHANGED log
  PROVE  StreamsFit'
<1>1. /\ StreamFits(c) /\ Len(received[c]) \in Nat /\ received[c] \in Seq(Rows)
      /\ batch[c] \in Seq(Rows) /\ cursor[c] \in Nat
  BY LenProperties DEF StreamsFit
<1>2. LastEventId(c) = Len(received[c])
  <2>1. CASE received[c] = <<>>
    BY <2>1 DEF LastEventId
  <2>2. CASE received[c] # <<>>
    <3>1. Len(received[c]) \in 1 .. Len(received[c])
      BY <1>1, <2>2, EmptySeq
    <3>2. received[c][Len(received[c])] = log[Len(received[c])]
      BY <1>1, <3>1 DEF StreamFits
    <3>3. Len(received[c]) \in DOMAIN log
      BY <1>1, <3>1, LenProperties DEF StreamFits, LogFits
    <3>4. received[c][Len(received[c])].sequence = Len(received[c])
      BY <3>2, <3>3 DEF LogFits
    <3> QED
      BY <2>2, <3>4 DEF LastEventId, Last
  <2> QED
    BY <2>1, <2>2
<1>3. /\ conn' = [conn EXCEPT ![c] = "listing"] /\ cursor' = [cursor EXCEPT ![c] = LastEventId(c)]
      /\ UNCHANGED <<batch, received>>
  BY DEF Connect
<1>4. StreamFits(c)'
  <2>1. conn'[c] = "listing"
    BY <1>3 DEF StreamsFit
  <2>2. cursor'[c] = Len(received[c])
    BY <1>2, <1>3 DEF StreamsFit
  <2> QED
    BY <1>1, <1>3, <2>1, <2>2 DEF StreamFits
<1>5. /\ batch' = [batch EXCEPT ![c] = batch[c]] /\ received' = [received EXCEPT ![c] = received[c]]
  BY <1>3 DEF StreamsFit
<1>6. "listing" \in Phases
  BY DEF Phases
<1> QED
  BY <1>1, <1>2, <1>3, <1>4, <1>5, <1>6, OneClientMoves

LEMMA ListKeepsPlaces ==
  ASSUME LogGrows, StreamsFit, LogFits, NEW c \in Clients, ListEvents(c), UNCHANGED log
  PROVE  StreamsFit'
<1>1. /\ StreamFits(c) /\ Len(received[c]) \in Nat /\ received[c] \in Seq(Rows) /\ cursor[c] \in Nat
      /\ Len(log) \in Nat
  BY LenProperties DEF StreamsFit, LogFits
<1>2. /\ conn[c] = "listing"
      /\ conn' = [conn EXCEPT ![c] = "sending"]
      /\ batch' = [batch EXCEPT ![c] = Following(cursor[c])]
      /\ UNCHANGED <<cursor, received>>
  BY DEF ListEvents
<1>3. cursor[c] = Len(received[c]) /\ cursor[c] <= Len(log)
  BY <1>1, <1>2 DEF StreamFits
<1> DEFINE rest == Following(cursor[c])
           n == Len(log) - cursor[c]
<1>4. rest \in [1 .. n -> Rows] /\ \A i \in 1 .. n : rest[i] = log[cursor[c] + i]
  BY <1>1, <1>3, FollowingIsTheRest
<1>5. n \in Nat
  BY <1>1, <1>3
<1>6. rest \in Seq(Rows) /\ Len(rest) = n
  <2> HIDE DEF rest, n
  <2>1. rest \in Seq(Rows)
    BY <1>4, <1>5, SeqDef
  <2> QED
    BY <1>4, <1>5, <2>1, LenProperties
<1>7. StreamFits(c)'
  <2>1. conn'[c] = "sending" /\ batch'[c] = rest
    BY <1>2 DEF StreamsFit
  <2> HIDE DEF rest
  <2>2. Len(received[c]) + Len(rest) <= Len(log)
    BY <1>1, <1>3, <1>6
  <2>3. \A i \in 1 .. Len(rest) : rest[i] = log[Len(received[c]) + i]
    BY <1>3, <1>4, <1>6
  <2> QED
    BY <1>1, <1>2, <1>3, <2>1, <2>2, <2>3 DEF StreamFits
<1>8. /\ cursor' = [cursor EXCEPT ![c] = cursor[c]] /\ received' = [received EXCEPT ![c] = received[c]]
  BY <1>2 DEF StreamsFit
<1>9. "sending" \in Phases
  BY DEF Phases
<1> HIDE DEF rest
<1>10. batch' = [batch EXCEPT ![c] = rest]
  BY <1>2 DEF rest
<1> QED
  BY <1>1, <1>2, <1>6, <1>7, <1>8, <1>9, <1>10, OneClientMoves

LEMMA SendKeepsPlaces ==
  ASSUME LogGrows, StreamsFit, LogFits, NEW c \in Clients, SendEvent(c), UNCHANGED log
  PROVE  StreamsFit'
<1> DEFINE got == received[c]
           rows == batch[c]
<1>1. /\ StreamFits(c) /\ Len(got) \in Nat /\ got \in Seq(Rows) /\ rows \in Seq(Rows)
      /\ Len(rows) \in Nat /\ Len(log) \in Nat /\ DOMAIN log = 1 .. Len(log)
  BY LenProperties DEF StreamsFit, LogFits
<1>2. /\ conn[c] = "sending" /\ rows # <<>>
      /\ cursor' = [cursor EXCEPT ![c] = Head(rows).sequence]
      /\ received' = [received EXCEPT ![c] = Append(got, Head(rows))]
      /\ batch' = [batch EXCEPT ![c] = Tail(rows)]
      /\ UNCHANGED conn
  BY DEF SendEvent
<1>3. /\ Len(got) + Len(rows) <= Len(log)
      /\ \A i \in 1 .. Len(got) : got[i] = log[i]
      /\ \A i \in 1 .. Len(rows) : rows[i] = log[Len(got) + i]
  BY <1>1, <1>2 DEF StreamFits
<1> HIDE DEF got, rows
<1>4. Len(rows) # 0
  BY <1>1, <1>2, EmptySeq
<1>5. /\ Head(rows) \in Rows /\ Head(rows) = rows[1]
      /\ Tail(rows) \in Seq(Rows) /\ Len(Tail(rows)) = Len(rows) - 1
      /\ \A i \in 1 .. Len(Tail(rows)) : Tail(rows)[i] = rows[i + 1]
  BY <1>1, <1>2, HeadTailProperties
<1>6. Head(rows) = log[Len(got) + 1] /\ Head(rows).sequence = Len(got) + 1
  <2>1. Head(rows) = log[Len(got) + 1]
    BY <1>1, <1>3, <1>4, <1>5
  <2>2. Len(got) + 1 \in DOMAIN log
    BY <1>1, <1>3, <1>4
  <2> QED
    BY <2>1, <2>2 DEF LogFits
<1> DEFINE more == Append(got, Head(rows))
<1>7. /\ more \in Seq(Rows) /\ Len(more) = Len(got) + 1
      /\ \A i \in 1 .. Len(got) : more[i] = got[i]
      /\ more[Len(got) + 1] = Head(rows)
  BY <1>1, <1>5, AppendProperties
<1> HIDE DEF more
<1>8. \A i \in 1 .. Len(more) : more[i] = log[i]
  <2>1. \A i \in 1 .. Len(more) : i \in 1 .. Len(got) \/ i = Len(got) + 1
    BY <1>1, <1>7
  <2>2. more[Len(got) + 1] = log[Len(got) + 1]
    BY <1>6, <1>7
  <2>3. \A i \in 1 .. Len(got) : more[i] = log[i]
    BY <1>3, <1>7
  <2> QED
    BY <2>1, <2>2, <2>3
<1>9. /\ Len(more) + Len(Tail(rows)) <= Len(log)
      /\ \A i \in 1 .. Len(Tail(rows)) : Tail(rows)[i] = log[Len(more) + i]
  <2>1. Len(more) + Len(Tail(rows)) <= Len(log)
    BY <1>1, <1>3, <1>4, <1>5, <1>7
  <2>2. ASSUME NEW i \in 1 .. Len(Tail(rows)) PROVE Tail(rows)[i] = log[Len(more) + i]
    <3>1. i + 1 \in 1 .. Len(rows) /\ Tail(rows)[i] = rows[i + 1]
      BY <1>1, <1>4, <1>5
    <3>2. Len(got) + (i + 1) = Len(more) + i
      BY <1>1, <1>4, <1>5, <1>7
    <3> QED
      BY <1>3, <3>1, <3>2
  <2> QED
    BY <2>1, <2>2
<1>10. StreamFits(c)'
  <2>1. conn'[c] = "sending" /\ cursor'[c] = Len(more)
    BY <1>2, <1>6, <1>7 DEF StreamsFit
  <2>2. received'[c] = more
    BY <1>2 DEF StreamsFit, more
  <2>3. batch'[c] = Tail(rows)
    BY <1>2 DEF StreamsFit
  <2>4. Len(more) <= Len(log)
    BY <1>1, <1>3, <1>4, <1>7
  <2>5. /\ Len(received'[c]) <= Len(log')
        /\ \A i \in 1 .. Len(received'[c]) : received'[c][i] = log'[i]
        /\ cursor'[c] = Len(received'[c])
    BY <1>8, <2>1, <2>2, <2>4
  <2>6. /\ Len(received'[c]) + Len(batch'[c]) <= Len(log')
        /\ \A i \in 1 .. Len(batch'[c]) : batch'[c][i] = log'[Len(received'[c]) + i]
    BY <1>9, <2>2, <2>3
  <2> QED
    BY <2>5, <2>6 DEF StreamFits
<1>11. conn' = [conn EXCEPT ![c] = conn[c]] /\ conn[c] \in Phases
  BY <1>2 DEF StreamsFit
<1>12. received' = [received EXCEPT ![c] = more]
  BY <1>2 DEF more
<1>13. Head(rows).sequence \in Nat
  BY <1>1, <1>6
<1> QED
  BY <1>2, <1>5, <1>7, <1>10, <1>11, <1>12, <1>13, OneClientMoves

LEMMA EndKeepsPlaces ==
  ASSUME LogGrows, StreamsFit, NEW c \in Clients, Close(c), UNCHANGED received
  PROVE  StreamsFit'
<1>1. received[c] \in Seq(Rows) /\ << >> \in Seq(Rows) /\ "off" \in Phases /\ 0 \in Nat
  BY EmptySeq DEF StreamsFit, Phases
<1>2. /\ conn' = [conn EXCEPT ![c] = "off"] /\ cursor' = [cursor EXCEPT ![c] = 0]
      /\ batch' = [batch EXCEPT ![c] = <<>>]
  BY DEF Close
<1>3. received' = [received EXCEPT ![c] = received[c]]
  BY DEF StreamsFit
<1>4. conn'[c] = "off"
  BY <1>2 DEF StreamsFit
<1>5. StreamFits(c)'
  BY <1>4, KeepsWhatItHas
<1> QED
  BY <1>1, <1>2, <1>3, <1>5, OneClientMoves

\* Clients that are woken, that wait, or that are left alone.
LEMMA WakingKeepsPlaces ==
  ASSUME LogGrows, StreamsFit, UNCHANGED <<cursor, batch, received>>,
         conn' \in [Clients -> Phases],
         \A c \in Clients : conn'[c] = conn[c] \/ (conn[c] # "off" /\ conn'[c] \in {"listing", "waiting"})
  PROVE  StreamsFit'
<1>1. \A c \in Clients : StreamFits(c)'
  BY KeepsItsPlace
<1> QED
  BY <1>1 DEF StreamsFit

LEMMA StreamsStep == ServerInv /\ StreamsFit /\ [Next]_vars => StreamsFit'
<1> SUFFICES ASSUME ServerInv, StreamsFit, [Next]_vars PROVE StreamsFit'
  OBVIOUS
<1>0. LogGrows /\ LogFits /\ conn \in [Clients -> Phases] /\ Followers \subseteq Clients
  BY LogOnlyGrows, StreamAssumption DEF ServerInv, StreamsFit, Followers
<1>1. ASSUME UNCHANGED <<conn, cursor, batch, received>> PROVE StreamsFit'
  BY <1>0, <1>1, WakingKeepsPlaces
<1>2. ASSUME Step PROVE StreamsFit'
  <2> USE <1>2
  <2>1. CASE ClaimRun \/ RecoverLease \/ RequestCancel \/ Redrive \/ HeartbeatTakesWake
    <3>1. UNCHANGED streamVars
      BY <2>1 DEF ClaimRun, RecoverLease, RequestCancel, Redrive, HeartbeatTakesWake
    <3> QED
      BY <1>1, <3>1 DEF streamVars
  <2>2. ASSUME NEW w \in Writers, Commit(w) \/ \E kind \in Transactions : Begin(w, kind)
        PROVE  StreamsFit'
    <3>1. UNCHANGED streamVars
      BY <2>2, CommitEffect DEF Begin
    <3> QED
      BY <1>1, <3>1 DEF streamVars
  <2>3. ASSUME NEW w \in Writers, Publish(w) PROVE StreamsFit'
    <3>1. UNCHANGED <<cursor, batch, received>>
      BY <2>3 DEF Publish
    <3>2. \/ UNCHANGED conn
          \/ conn' = [c \in Clients |-> IF conn[c] = "waiting" THEN "listing" ELSE conn[c]]
      BY <2>3 DEF Publish
    <3>3. CASE UNCHANGED conn
      BY <1>1, <3>1, <3>3
    <3>4. CASE conn' = [c \in Clients |-> IF conn[c] = "waiting" THEN "listing" ELSE conn[c]]
      <4>1. conn' \in [Clients -> Phases]
        BY <1>0, <3>4 DEF Phases
      <4>2. \A c \in Clients : conn'[c] = conn[c] \/ (conn[c] # "off" /\ conn'[c] \in {"listing", "waiting"})
        BY <3>4
      <4> QED
        BY <1>0, <3>1, <4>1, <4>2, WakingKeepsPlaces
    <3> QED
      BY <3>2, <3>3, <3>4
  <2>4. ASSUME NEW w \in Deliveries, Abandon(w) \/ Crash(w) PROVE StreamsFit'
    <3>1. UNCHANGED streamVars
      BY <2>4 DEF Abandon, Crash, EndTx
    <3> QED
      BY <1>1, <3>1 DEF streamVars
  <2>5. CASE RestartApi
    <3>1. /\ conn' = [c \in Clients |-> "off"] /\ cursor' = [c \in Clients |-> 0]
          /\ batch' = [c \in Clients |-> <<>>] /\ UNCHANGED received
      BY <2>5 DEF RestartApi
    <3>2. ASSUME NEW c \in Clients PROVE StreamFits(c)'
      <4>1. conn'[c] = "off" /\ received'[c] = received[c]
        BY <3>1
      <4> QED
        BY <1>0, <4>1, KeepsWhatItHas
    <3>3. << >> \in Seq(Rows) /\ "off" \in Phases /\ 0 \in Nat
      BY EmptySeq DEF Phases
    <3>4. /\ conn' \in [Clients -> Phases] /\ cursor' \in [Clients -> Nat]
          /\ batch' \in [Clients -> Seq(Rows)] /\ received' \in [Clients -> Seq(Rows)]
      BY <3>1, <3>3 DEF StreamsFit
    <3> QED
      BY <3>2, <3>4 DEF StreamsFit
  <2>6. ASSUME NEW c \in Followers, StreamStep(c) \/ ConnectInVain(c) \/ Disconnect(c)
        PROVE  StreamsFit'
    <3>0. c \in Clients
      BY <1>0
    <3>1. ASSUME Connect(c) PROVE StreamsFit'
      BY <1>0, <3>0, <3>1, ConnectKeepsPlaces DEF Connect
    <3>2. ASSUME ListEvents(c) PROVE StreamsFit'
      BY <1>0, <3>0, <3>2, ListKeepsPlaces DEF ListEvents
    <3>3. ASSUME SendEvent(c) PROVE StreamsFit'
      BY <1>0, <3>0, <3>3, SendKeepsPlaces DEF SendEvent
    <3>4. ASSUME CloseWhenOver(c) \/ Disconnect(c) PROVE StreamsFit'
      BY <1>0, <3>0, <3>4, EndKeepsPlaces DEF CloseWhenOver, Disconnect
    <3>5. ASSUME StartWaiting(c) \/ TimesOut(c) PROVE StreamsFit'
      <4>1. /\ UNCHANGED <<cursor, batch, received>> /\ conn[c] # "off"
            /\ \E phase \in {"listing", "waiting"} : conn' = [conn EXCEPT ![c] = phase]
        BY <3>5 DEF StartWaiting, TimesOut
      <4>2. PICK phase \in {"listing", "waiting"} : conn' = [conn EXCEPT ![c] = phase]
        BY <4>1
      <4>3. conn' \in [Clients -> Phases]
        BY <1>0, <4>2 DEF Phases
      <4>4. \A d \in Clients : conn'[d] = conn[d] \/ (conn[d] # "off" /\ conn'[d] \in {"listing", "waiting"})
        BY <1>0, <4>1, <4>2
      <4> QED
        BY <1>0, <4>1, <4>3, <4>4, WakingKeepsPlaces
    <3>6. ASSUME ConnectInVain(c) PROVE StreamsFit'
      BY <1>1, <3>6 DEF ConnectInVain
    <3> QED
      BY <2>6, <3>1, <3>2, <3>3, <3>4, <3>5, <3>6 DEF StreamStep
  <2> QED
    BY <2>1, <2>2, <2>3, <2>4, <2>5, <2>6 DEF Step
<1> QED
  BY <1>1, <1>2 DEF Next, vars, streamVars

-----------------------------------------------------------------------------
(* The quota                                                                *)

\* The open streams after one client changes its phase.
LEMMA OneOpens ==
  ASSUME NEW c \in Clients, NEW phase, conn \in [Clients -> Phases], conn' = [conn EXCEPT ![c] = phase]
  PROVE  Open' = IF phase = "off" THEN Open \ {c} ELSE Open \cup {c}
BY DEF Open

LEMMA SlotsStep == ServerInv /\ StreamsFit /\ SlotsFit /\ [Next]_vars => SlotsFit'
<1> SUFFICES ASSUME ServerInv, StreamsFit, SlotsFit, [Next]_vars PROVE SlotsFit'
  OBVIOUS
<1>0. /\ conn \in [Clients -> Phases] /\ Followers \subseteq Clients
      /\ slots \in 0 .. MaxSse /\ MaxSse \in Nat
      /\ IsFiniteSet(Open) /\ Cardinality(Open) <= slots /\ Cardinality(Open) \in Nat
  BY StreamAssumption, FS_CardinalityType DEF ServerInv, StreamsFit, SlotsFit, Followers
<1>1. ASSUME UNCHANGED slots, Open' = Open PROVE SlotsFit'
  BY <1>0, <1>1 DEF SlotsFit
<1>2. ASSUME UNCHANGED streamVars PROVE SlotsFit'
  <2>1. Open' = Open
    BY <1>2 DEF streamVars, Open
  <2> QED
    BY <1>1, <1>2, <2>1 DEF streamVars
<1>3. ASSUME NEW c \in Clients, Close(c), conn[c] # "off" PROVE SlotsFit'
  <2>1. Open' = Open \ {c}
    BY <1>0, <1>3, OneOpens DEF Close
  <2>2. c \in Open
    BY <1>3 DEF Open
  <2>3. IsFiniteSet(Open') /\ Cardinality(Open') = Cardinality(Open) - 1
    BY <1>0, <2>1, <2>2, FS_RemoveElement
  <2>4. Cardinality(Open') \in Nat
    BY <2>3, FS_CardinalityType
  <2>5. slots' = slots - 1
    BY <1>3 DEF Close
  <2> QED
    BY <1>0, <2>3, <2>4, <2>5 DEF SlotsFit
<1>4. ASSUME Step PROVE SlotsFit'
  <2> USE <1>4
  <2>1. CASE ClaimRun \/ RecoverLease \/ RequestCancel \/ Redrive \/ HeartbeatTakesWake
    <3>1. UNCHANGED streamVars
      BY <2>1 DEF ClaimRun, RecoverLease, RequestCancel, Redrive, HeartbeatTakesWake
    <3> QED
      BY <1>2, <3>1
  <2>2. ASSUME NEW w \in Writers, Commit(w) \/ \E kind \in Transactions : Begin(w, kind)
        PROVE  SlotsFit'
    <3>1. UNCHANGED streamVars
      BY <2>2, CommitEffect DEF Begin
    <3> QED
      BY <1>2, <3>1
  <2>3. ASSUME NEW w \in Writers, Publish(w) PROVE SlotsFit'
    <3>1. \/ UNCHANGED conn
          \/ conn' = [c \in Clients |-> IF conn[c] = "waiting" THEN "listing" ELSE conn[c]]
      BY <2>3 DEF Publish
    <3>2. Open' = Open
      BY <3>1 DEF Open
    <3> QED
      BY <1>1, <2>3, <3>2 DEF Publish
  <2>4. ASSUME NEW w \in Deliveries, Abandon(w) \/ Crash(w) PROVE SlotsFit'
    <3>1. UNCHANGED streamVars
      BY <2>4 DEF Abandon, Crash, EndTx
    <3> QED
      BY <1>2, <3>1
  <2>5. CASE RestartApi
    <3>1. slots' = 0 /\ Open' = {}
      BY <2>5 DEF RestartApi, Open
    <3> QED
      BY <1>0, <3>1, FS_EmptySet DEF SlotsFit
  <2>6. ASSUME NEW c \in Followers, StreamStep(c) \/ ConnectInVain(c) \/ Disconnect(c)
        PROVE  SlotsFit'
    <3>0. c \in Clients
      BY <1>0
    <3>1. ASSUME Connect(c) PROVE SlotsFit'
      <4>1. /\ conn[c] = "off" /\ slots < MaxSse /\ slots' = slots + 1
            /\ conn' = [conn EXCEPT ![c] = "listing"]
        BY <3>1 DEF Connect, AdmitsStream
      <4>2. Open' = Open \cup {c} /\ c \notin Open
        BY <1>0, <3>0, <4>1, OneOpens DEF Open
      <4>3. IsFiniteSet(Open') /\ Cardinality(Open') = Cardinality(Open) + 1
        BY <1>0, <4>2, FS_AddElement
      <4> QED
        BY <1>0, <4>1, <4>3 DEF SlotsFit
    <3>2. ASSUME ConnectInVain(c) PROVE SlotsFit'
      <4>1. slots < MaxSse /\ slots' = slots + 1 /\ Open' = Open
        BY <3>2 DEF ConnectInVain, AdmitsStream, Open
      <4> QED
        BY <1>0, <4>1 DEF SlotsFit
    <3>3. ASSUME CloseWhenOver(c) \/ Disconnect(c) PROVE SlotsFit'
      BY <1>3, <3>0, <3>3 DEF CloseWhenOver, Disconnect
    <3>4. ASSUME ListEvents(c) \/ SendEvent(c) \/ StartWaiting(c) \/ TimesOut(c) PROVE SlotsFit'
      <4>1. UNCHANGED slots /\ c \in Open
        BY <3>0, <3>4 DEF ListEvents, SendEvent, StartWaiting, TimesOut, Open
      <4>2. UNCHANGED conn \/ \E phase \in Phases \ {"off"} : conn' = [conn EXCEPT ![c] = phase]
        BY <3>4 DEF ListEvents, SendEvent, StartWaiting, TimesOut, Phases
      <4>3. CASE UNCHANGED conn
        BY <1>1, <4>1, <4>3 DEF Open
      <4>4. ASSUME NEW phase \in Phases \ {"off"}, conn' = [conn EXCEPT ![c] = phase]
            PROVE  SlotsFit'
        <5>1. Open' = Open \cup {c}
          BY <1>0, <3>0, <4>4, OneOpens
        <5> QED
          BY <1>1, <4>1, <5>1
      <4> QED
        BY <4>2, <4>3, <4>4
    <3> QED
      BY <2>6, <3>1, <3>2, <3>3, <3>4 DEF StreamStep
  <2> QED
    BY <2>1, <2>2, <2>3, <2>4, <2>5, <2>6 DEF Step
<1> QED
  BY <1>2, <1>4 DEF Next, vars

-----------------------------------------------------------------------------
(* The theorems                                                             *)

LEMMA StreamInitInv == Init => StreamInv
<1> SUFFICES ASSUME Init PROVE StreamInv
  OBVIOUS
<1>0. audience \in Audiences /\ MaxSse \in Nat /\ << >> \in Seq(Rows) /\ Len(<< >>) = 0
  BY StreamAssumption, EmptySeq DEF Init
<1>1. DeliveriesFit
  BY DEF Init, DeliveriesFit
<1>2. log = << >> /\ DOMAIN log = {}
  BY DEF Init
<1>3. LogFits /\ LogIsOrdered
  BY <1>0, <1>2 DEF Init, LogFits, LogIsOrdered, AppendsNeverClash, RetryPrecedesNext
<1>4. TransactionsFit
  BY DEF Init, TransactionsFit, Transactions
<1>5. /\ conn = [c \in Clients |-> "off"] /\ cursor = [c \in Clients |-> 0]
      /\ batch = [c \in Clients |-> <<>>] /\ received = [c \in Clients |-> <<>>]
  BY DEF Init
<1>6. /\ conn \in [Clients -> Phases] /\ cursor \in [Clients -> Nat]
      /\ batch \in [Clients -> Seq(Rows)] /\ received \in [Clients -> Seq(Rows)]
  BY <1>0, <1>5 DEF Phases
<1>7. ASSUME NEW c \in Clients PROVE StreamFits(c)
  BY <1>0, <1>2, <1>5 DEF StreamFits
<1>8. Open = {} /\ slots = 0
  BY <1>5 DEF Open, Init
<1>9. SlotsFit
  BY <1>0, <1>8, FS_EmptySet DEF SlotsFit
<1> QED
  BY <1>0, <1>1, <1>3, <1>4, <1>6, <1>7, <1>9 DEF StreamInv, StreamsFit

\* The inductive invariant of the log, its writers and its streams holds, for any
\* number of clients, deliveries and events.
THEOREM StreamInvariance == Spec => []StreamInv
<1>1. Init => StreamInv
  BY StreamInitInv
<1>2. StreamInv /\ [Next]_vars => StreamInv'
  BY ServerStep, StreamsStep, SlotsStep DEF StreamInv, ServerInv
<1> QED
  BY <1>1, <1>2, PTL DEF Spec

\* What every client has received is the log from its first event on, and the log
\* is numbered without a clash and in the order of the deliveries.
THEOREM ClientsFollow == Spec => []ClientsFollowTheLog
<1>1. StreamInv => ClientsFollowTheLog
  <2> SUFFICES ASSUME StreamInv PROVE ReceivedIsPrefix
    BY DEF StreamInv, ClientsFollowTheLog
  <2> SUFFICES ASSUME NEW c \in Clients
               PROVE  /\ IsPrefix(received[c], log)
                      /\ \A i \in DOMAIN received[c] : received[c][i].sequence = i
    BY DEF ReceivedIsPrefix
  <2>1. /\ StreamFits(c) /\ received[c] \in Seq(Rows) /\ log \in Seq(Rows) /\ LogFits
    BY DEF StreamInv, StreamsFit, LogFits
  <2>2. /\ Len(received[c]) \in Nat /\ DOMAIN received[c] = 1 .. Len(received[c])
        /\ Len(log) \in Nat /\ DOMAIN log = 1 .. Len(log)
    BY <2>1, LenProperties
  <2>3. /\ Len(received[c]) <= Len(log)
        /\ \A i \in 1 .. Len(received[c]) : received[c][i] = log[i]
    BY <2>1 DEF StreamFits
  <2>4. \A i \in DOMAIN received[c] : received[c][i].sequence = i
    BY <2>1, <2>2, <2>3 DEF LogFits
  <2>5. IsPrefix(received[c], log)
    <3> DEFINE n == Len(received[c])
               got == SubSeq(received[c], 1, n)
               had == SubSeq(log, 1, n)
    <3>1. /\ got \in Seq(Rows) /\ Len(got) = n
          /\ \A i \in 1 .. n : got[i] = received[c][i]
      BY <2>1, <2>2, SubSeqProperties
    <3>2. /\ had \in Seq(Rows) /\ Len(had) = n
          /\ \A i \in 1 .. n : had[i] = log[i]
      BY <2>1, <2>2, <2>3, SubSeqProperties
    <3>3. \A i \in 1 .. n : got[i] = had[i]
      BY <2>3, <3>1, <3>2
    <3>4. got = had
      <4> HIDE DEF got, had, n
      <4> QED
        BY <3>1, <3>2, <3>3, SeqEqual
    <3> QED
      BY <2>3, <3>4 DEF IsPrefix
  <2> QED
    BY <2>4, <2>5
<1> QED
  BY <1>1, StreamInvariance, PTL

\* No more streams are open than the tenant's quota.
THEOREM QuotaHolds == Spec => []WithinSseQuota
<1>1. StreamInv => WithinSseQuota
  <2> SUFFICES ASSUME StreamInv PROVE WithinSseQuota
    OBVIOUS
  <2>1. /\ slots \in 0 .. MaxSse /\ MaxSse \in Nat
        /\ Cardinality(Open) <= slots /\ Cardinality(Open) \in Nat
    BY StreamAssumption, FS_CardinalityType DEF StreamInv, SlotsFit
  <2> QED
    BY <2>1 DEF WithinSseQuota
<1> QED
  BY <1>1, StreamInvariance, PTL

=============================================================================
