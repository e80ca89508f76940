\* The instances of service.cfg: a service is confirmed while its quote is cancelled.
SPECIFICATION ServiceSpec
CONSTANTS
    Operator = {o1, o2}
    MaxQuotes = 2
    MaxDocuments = 2
    MaxOperations = 6
    c1 = c1
    r1 = r1
    k1 = k1
    k2 = k2
    staff = staff
    owner = owner
    rg = rg
    spouse = spouse
    backup = backup
SYMMETRY ServiceSymmetry
CONSTRAINT OneDisturbance
CHECK_DEADLOCK FALSE
INVARIANTS AcceptanceStands
