\* Two workers whose leases may expire, two attempts of the event, two runtimes, one
\* tool call of the customer service and one fault; w1 makes the first attempt, and
\* no fault is followed once a second model was tried (TurnFollowed).
\* Two assets, any of them a video that is only preserved, a worker and the panel, two
\* runtimes, a correction and one fault, which is not followed together with corrections
\* and uses (MediaFollowed); batches of one asset and of both.
\* The turn is over once the event is settled, and nobody has to send or to correct
\* anything: the system may stop.
SPECIFICATION FairModels
CONSTANTS
    Worker = {w1, w2}
    w1 = w1
    w2 = w2
    Caller = {"customer"}
    Runtimes = 2
    MaxCalls = 1
    MaxAttempts = 2
    MaxFaults = 1
    Assets = 2
    Correction = {"corrected"}
    MediaRuntimes = 2
    MediaBatchSize = 2
    MaxMediaFaults = 1
CHECK_DEADLOCK FALSE
INVARIANTS ToolOnce AuditIsTrue InterpretedOnce
PROPERTIES EventuallyInterpreted
