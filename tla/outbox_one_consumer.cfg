\* One process, with two events of one conversation and of every topic and window, four
\* executions, two attempts, two rows in a claim and one reopening of each; or with one
\* outbound message of four executions.
\* The system may stop: nobody has to write again.
SPECIFICATION ConsumerSpec
CONSTANTS
    Event = {e1, e2}
    Conversation = {c1}
    Worker = {w1}
    Execution = {x1, x2, x3, x4}
    NoExecution = none
    Arrival <- AllKinds
    MaxSequence = 2
    MaxAttempts = 2
    BatchSize = 2
    MaxGenerations = 1
SYMMETRY Symmetry
CHECK_DEADLOCK FALSE
INVARIANTS ProcessingIsAudited ProcessedOnce ConversationOrder OutcomeCanBeSettled
