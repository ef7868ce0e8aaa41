\* Every forest of five categories, every request.
\* A request is answered once.
SPECIFICATION Spec
CONSTANT N = 5
INVARIANTS TypeOK NestingIsComplete SubtreeOnce
PROPERTIES AnswerComes EveryStepCounts
CHECK_DEADLOCK FALSE
