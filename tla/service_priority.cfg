\* Three sessions of one thread, one attendant, one weighted queue, two urgencies.
SPECIFICATION Spec
CONSTANTS
    Session = {s1, s2, s3}
    User = {u}
    Queue = {q}
    Weight <- QueueWeight
    Urgency = {1, 2}
    Normal = 1
    DepartmentWeight = 0
    None = None
SYMMETRY SessionSymmetry
CONSTRAINT FewHazards
INVARIANTS OneForeground FacadeAgrees
PROPERTIES ClosingResumes
