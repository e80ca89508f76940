\* Two messages of a customer, texts or media, two plans, people who read, take over, return and close,
\* agents that are switched off and on at any step, and every fault; with media, one
\* operation or one retry (TextsFirst).
\* The system may stop: the customer writes two messages only.
SPECIFICATION Spec
CONSTANTS
    Kind = {"text", "media"}
    Plan = {"summary", "handoff"}
    Operation = {"mark-read", "take-over", "return-to-bot", "close"}
    AgentsMayBe = {TRUE, FALSE}
    Faults = TRUE
    MaxMessages = 2
    MaxVersion = 3
    MaxAttempts = 2
CONSTRAINT TextsFirst
CHECK_DEADLOCK FALSE
INVARIANTS AnsweredOnce ConcludedIsAnswered
