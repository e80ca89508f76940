\* One outbound event of three executions, two attempts and one reopening; two processes,
\* whose calls may overlap.
\* The system may stop: nobody has to write again.
SPECIFICATION DSpec
CONSTANTS
    Event = {e1}
    Conversation = {c1}
    Worker = {w1, w2}
    Execution = {x1, x2, x3}
    NoExecution = none
    Arrival <- OutboundOnly
    MaxSequence = 1
    MaxAttempts = 2
    BatchSize = 1
    MaxGenerations = 1
SYMMETRY PipelineSymmetry
CHECK_DEADLOCK FALSE
INVARIANTS CustomerGetsOneCopy DeliveredWasReceived ExecutedOnce
PROPERTIES PipelineKeepsPromise
