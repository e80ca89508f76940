\* One draft of three versions, one execution, one clerk, two persons and a company;
\* two clerks, two workbooks of one row; two packages of one phone, the second of which
\* names its conversation twice and brings a message of the first again, two runs and one
\* act of a customer or an operator; registrations up to their second version, an act
\* next to one run (Followed).
\* Nobody has to register or import: the system may rest.
SPECIFICATION RecordsSpec
CONSTANTS
    p1 = p1
    p2 = p2
    org = org
    ana = ana
    bia = bia
    c1 = c1
    c2 = c2
    c3 = c3
    x1 = x1
    f1 = f1
    f2 = f2
    d1 = d1
    e1 = e1
    none = none
    Registered = {}
    b1 = b1
    b2 = b2
    r1 = r1
    r2 = r2
    m1 = m1
    m2 = m2
    w1 = w1
    w2 = w2
SYMMETRY RecordsSymmetry
CONSTRAINT Followed
CHECK_DEADLOCK FALSE
INVARIANTS PromotedOnce LegacyIsWhole
PROPERTIES WrittenAsSeen RollbackRestores
