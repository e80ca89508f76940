\* One message, three calls, two attempts; one channel of three versions and two commands;
\* one person with two links of three versions and three commands, two requests at a time,
\* except at the last version of the channel (LastRequest).
\* The system may stop: nobody has to write again, and commands are used up.
SPECIFICATION OutsideSpec
CONSTANTS
    Message = {m1}
    Caller = {c1, c2, c3}
    NoId = none
    MaxGeneration = 2
    k1 = k1
    k2 = k2
    d1 = d1
    d2 = d2
    d3 = d3
    h1 = h1
    plain = plain
    p1 = p1
    a1 = a1
    a2 = a2
    manager = manager
    None = None
SYMMETRY OutsideSymmetry
CONSTRAINT LastRequest
CHECK_DEADLOCK FALSE
INVARIANTS AtMostOneRequest
PROPERTIES KeepsPromise RetiredStays
