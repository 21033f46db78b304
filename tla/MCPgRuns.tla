------------------------------ MODULE MCPgRuns ------------------------------
(***************************************************************************)
(* Instances of PgRuns for TLC: workers that compete for the queue, and     *)
(* requests that compete for the runs of one thread.                        *)
(***************************************************************************)
EXTENDS PgRuns

AllSessions == {"s1", "s2", "s3"}

\* Two workers and an API request at a time, leases that end.
Queue == [workers |-> {"s1", "s2"}, clients |-> {"s3"}, modes |-> {"enqueue"}, threads |-> {"t"},
          keys |-> {NoKey}, runs |-> 2, attempts |-> 2,
          kinds |-> {"create", "cancel", "redrive"}, acts |-> {"heartbeat", "retry", "failed"},
          calls |-> 3, lapses |-> 1, faults |-> 0, active |-> 2, queued |-> 2]
\* Two requests and one worker.
Control == [workers |-> {"s1"}, clients |-> {"s2", "s3"}, modes |-> {"enqueue"}, threads |-> {"t"},
            keys |-> {"k"}, runs |-> 3, attempts |-> 2,
            kinds |-> {"create", "resume", "cancel", "steer"}, acts |-> {"paused", "consume", "close", "succeeded"},
            calls |-> 4, lapses |-> 0, faults |-> 0, active |-> 2, queued |-> 2]
Strategies == [workers |-> {"s1", "s2"}, clients |-> {"s3"}, modes |-> {"reject", "cancel_previous"},
            threads |-> {"t"}, keys |-> {NoKey}, runs |-> 2, attempts |-> 2,
            kinds |-> {"create"}, acts |-> {"append", "succeeded"},
            calls |-> 3, lapses |-> 1, faults |-> 1, active |-> 1, queued |-> 2]
\* Two threads, whose runs are left by workers that have crashed.
Sweeps == [workers |-> {"s1", "s2"}, clients |-> {"s3"}, modes |-> {"enqueue"}, threads |-> {"t", "u"},
            keys |-> {NoKey}, runs |-> 2, attempts |-> 2,
            kinds |-> {"create"}, acts |-> {"append"},
            calls |-> 2, lapses |-> 2, faults |-> 2, active |-> 2, queued |-> 2]
AllSetups == {Queue, Control, Strategies, Sweeps}

\* One worker, runs of one thread, and steering for them.
Steered == [workers |-> {"s1"}, clients |-> {"s3"}, modes |-> {"enqueue"}, threads |-> {"t"},
            keys |-> {NoKey}, runs |-> 2, attempts |-> 2,
            kinds |-> {"create", "steer"}, acts |-> {"succeeded"},
            calls |-> 3, lapses |-> 0, faults |-> 0, active |-> 2, queued |-> 2]
JustSteered == {Steered}
=============================================================================
