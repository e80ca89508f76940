\* One conversation of two quotes and two documents, two attendants; three periods and
\* four commands on one contract; one trip of four versions over two days, two clerks;
\* two dossiers of two types of document, one of them conditional, one reviewer and the
\* subject; one import with one confirmation, files of two blocks, two chunks, one stop of
\* the process, and one disturbance in each behaviour (OneDisturbance).
\* The bounds stop every command, so the system may really stop.
SPECIFICATION ServiceSpec
CONSTANTS
    Operator = {o1, o2}
    MaxQuotes = 2
    MaxDocuments = 2
    MaxOperations = 6
    c1 = c1
    r1 = r1
    k1 = k1
    k2 = k2
    staff = staff
    owner = owner
    rg = rg
    spouse = spouse
    backup = backup
SYMMETRY ServiceSymmetry
CONSTRAINT OneDisturbance
CHECK_DEADLOCK FALSE
INVARIANTS OneOpenBatch JudgedAsShown RecordsAgree ImportIsWhole
PROPERTIES DecisionIsFinal WhatEndedStays
