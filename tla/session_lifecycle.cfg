\* One thread with three messages of customer, AI and people and every command of the
\* panel; two inbound events, one process and four executions; two
\* workers, two days, two imports, two attempts and two faults, enabled or not
\* (FaultsFirst, SecondWorker).
\* The thread may rest, the queue be empty and everything be imported: the system may stop.
SPECIFICATION WaitingSpec
CONSTANTS
    MaxMessages = 3
    PanelCommand = {"take-over", "return", "close", "mark-read"}
    c1 = c1
    e1 = e1
    e2 = e2
    none = none
    w1 = w1
    w2 = w2
    x1 = x1
    x2 = x2
    x3 = x3
    x4 = x4
CHECK_DEADLOCK FALSE
INVARIANTS ClosedUnanswered ChangesAreAnalysed
PROPERTIES EventuallyCloses EventuallySettled EventuallyImported
