\* A fan-in with a question, the same under EXIT, a loop with Sends under ASYNC, and
\* a chain of questions on a thread that clients edit.
SPECIFICATION FairSpec
CONSTANT Setups <- EverySetup
INVARIANTS
    NodesFireInTurn
    ResultsAndKeysFit
    CommittedStateSurvives
PROPERTIES
    StoredResultIsNotRecomputed
    ImplementsContract
    EveryRunEnds
