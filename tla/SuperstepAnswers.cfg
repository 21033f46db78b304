\* A redelivered resume answers the next question.
SPECIFICATION Spec
CONSTANT Setups <- JustChain
INVARIANTS AnswerReachesItsQuestion
