\* One batch on files of one block and one chunk, one stop of the process.
SPECIFICATION ImportSpec
CONSTANTS
    Request = {backup}
    Blocks = 1
    Chunks = 1
    MaxCrashes = 1
CONSTRAINT OneDisturbance
CHECK_DEADLOCK FALSE
PROPERTY CancelledStays
